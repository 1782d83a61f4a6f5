--------------------------- MODULE AgentSceneProofs ---------------------------
(* Theorems about agents and scenes, for any agents, players and scenes.   *)
EXTENDS AgentSceneProps, SequenceTheorems, WellFoundedInduction, TLAPS

\* Every step is one segment of one handler, a message shown, or a start.
LEMMA NextCases ==
  ASSUME Next
  PROVE  \/ \E a \in Agent :
              \/ Start(a) \/ Kick(a) \/ Show(a)
              \/ LeaveAnswered(a) \/ KickEnd(a) \/ Exit(a)
              \/ \E h \in EnterOf(a) : Enter(a, h) \/ EnterAnswered(a, h)
         \/ \E s \in Scene : SceneEnter(s) \/ SceneRefuse(s) \/ SceneLeave(s)
         \/ UNCHANGED vars
BY DEF Next, HandlerStep, SceneStep, Quiescent

\* An agent's handlers are its kick and its enters.
LEMMA HandlerProperties ==
  /\ \A a \in Agent : KickOf(a) \in Handler /\ EnterOf(a) \subseteq Handler
  /\ \A a \in Agent : KickOf(a)[1] = a /\ KickOf(a)[2] = 0
  /\ \A a \in Agent : KickOf(a) \notin EnterOf(a)
  /\ \A a \in Agent : \A h \in EnterOf(a) : h[1] = a /\ h[2] # 0
  /\ \A a, b \in Agent : KickOf(a) = KickOf(b) => a = b
  /\ \A a, b \in Agent : KickOf(a) \notin EnterOf(b)
  /\ \A h \in Handler : /\ h[1] \in Agent
                        /\ h[2] = 0 => h = KickOf(h[1])
                        /\ h[2] # 0 => h \in EnterOf(h[1])
BY AgentSceneAssumption DEF Handler, KickOf, EnterOf

\* A queue that grows at its end, or loses its head.
LEMMA AppendAt ==
  ASSUME NEW S, NEW q \in Seq(S), NEW x \in S
  PROVE  /\ Append(q, x) \in Seq(S)
         /\ \A i \in 1..Len(Append(q, x)) :
              \/ i \in 1..Len(q) /\ Append(q, x)[i] = q[i]
              \/ i = Len(q) + 1 /\ Append(q, x)[i] = x
  OBVIOUS

LEMMA TailAt ==
  ASSUME NEW S, NEW q \in Seq(S), q # << >>
  PROVE  /\ Head(q) \in S /\ Tail(q) \in Seq(S)
         /\ 1 \in 1..Len(q) /\ Head(q) = q[1]
         /\ \A i \in 1..Len(Tail(q)) :
              i + 1 \in 1..Len(q) /\ i + 1 # 1 /\ Tail(q)[i] = q[i + 1]
  OBVIOUS

-----------------------------------------------------------------------------
LEMMA TypeInit == Init => TypeOK
BY AgentSceneAssumption DEF Init, TypeOK, HandlerPc

LEMMA CallSceneType ==
  ASSUME TypeOK, NEW h \in Handler, NEW s \in Scene, CallScene(h, s)
  PROVE  /\ pc' \in [Handler -> HandlerPc]
         /\ goal' \in [Handler -> Scene \cup {None}]
         /\ sbox' \in [Scene -> Seq(Handler)]
BY DEF TypeOK, CallScene, HandlerPc

\* The news of a scene that an agent gets are messages.
LEMMA BroadcastType ==
  ASSUME TypeOK, NEW s \in Scene, NEW m \in Message
  PROVE  Broadcast(s, m) \in [Agent -> Seq(Message)]
<1>1. \A a \in Agent : feed[a] \in Seq(Message) /\ Append(feed[a], m) \in Seq(Message)
  BY DEF TypeOK
<1> QED
  BY <1>1 DEF Broadcast

LEMMA HeadType ==
  ASSUME TypeOK, NEW s \in Scene, sbox[s] # << >>
  PROVE  /\ Head(sbox[s]) \in Handler
         /\ Head(sbox[s])[1] \in Agent
         /\ PlayerOf[Head(sbox[s])[1]] \in Player
         /\ [sbox EXCEPT ![s] = Tail(@)] \in [Scene -> Seq(Handler)]
BY TailAt, HandlerProperties, AgentSceneAssumption DEF TypeOK

LEMMA TypeStep == TypeOK /\ [Next]_vars => TypeOK'
<1> USE AgentSceneAssumption
<1> SUFFICES ASSUME TypeOK, [Next]_vars PROVE TypeOK'
  OBVIOUS
<1>0. \A a \in Agent : KickOf(a) \in Handler /\ EnterOf(a) \subseteq Handler
  BY HandlerProperties
<1>1. ASSUME NEW a \in Agent, Start(a) PROVE TypeOK'
  BY <1>1 DEF TypeOK, Start
<1>2. ASSUME NEW a \in Agent, NEW h \in EnterOf(a), Enter(a, h) PROVE TypeOK'
  <2>1. CASE sname[a] = None
    BY <1>0, <1>2, <2>1, CallSceneType DEF TypeOK, Enter
  <2>2. CASE sname[a] # None
    <3>1. pc' = [pc EXCEPT ![h] = "done"]
      BY <1>0, <1>2, <2>2 DEF Enter
    <3>2. pc' \in [Handler -> HandlerPc]
      BY <1>0, <3>1 DEF TypeOK, HandlerPc
    <3> QED
      BY <1>0, <1>2, <2>2, <3>2 DEF TypeOK, Enter
  <2> QED
    BY <2>1, <2>2
<1>3. ASSUME NEW a \in Agent, NEW h \in EnterOf(a), EnterAnswered(a, h)
      PROVE  TypeOK'
  BY <1>0, <1>3 DEF TypeOK, EnterAnswered, HandlerPc
<1>4. ASSUME NEW a \in Agent, Kick(a) PROVE TypeOK'
  <2>1. CASE sname[a] = None
    <3>1. pc' = [pc EXCEPT ![KickOf(a)] = "saving"]
      BY <1>0, <1>4, <2>1 DEF Kick
    <3>2. pc' \in [Handler -> HandlerPc]
      BY <1>0, <3>1 DEF TypeOK, HandlerPc
    <3> QED
      BY <1>0, <1>4, <2>1, <3>2 DEF TypeOK, Kick
  <2>2. CASE sname[a] # None
    <3>1. sname[a] \in Scene
      BY <2>2 DEF TypeOK
    <3> QED
      BY <1>0, <1>4, <2>2, <3>1, CallSceneType DEF TypeOK, Kick
  <2> QED
    BY <2>1, <2>2
<1>5. ASSUME NEW a \in Agent, LeaveAnswered(a) PROVE TypeOK'
  BY <1>0, <1>5 DEF TypeOK, LeaveAnswered, HandlerPc
<1>6. ASSUME NEW a \in Agent, KickEnd(a) PROVE TypeOK'
  BY <1>0, <1>6 DEF TypeOK, KickEnd, HandlerPc
<1>7. ASSUME NEW a \in Agent, Exit(a) PROVE TypeOK'
  BY <1>7 DEF TypeOK, Exit
<1>8. ASSUME NEW a \in Agent, Show(a) PROVE TypeOK'
  <2>1. Head(feed[a]) \in Message /\ Tail(feed[a]) \in Seq(Message)
    BY <1>8, TailAt DEF Show, TypeOK
  <2>2. Replay(view[a], Head(feed[a])) \in SUBSET Player
    BY <2>1 DEF TypeOK, Replay, Message
  <2> QED
    BY <1>8, <2>1, <2>2 DEF TypeOK, Show
<1>9. ASSUME NEW s \in Scene, SceneEnter(s) PROVE TypeOK'
  <2> DEFINE h == Head(sbox[s])
             a == h[1]
             p == PlayerOf[a]
             news == [cmd |-> "enter", player |-> p]
             all  == [cmd |-> "balllist", balls |-> InPlay(s) \cup {p}]
  <2>1. /\ h \in Handler /\ a \in Agent /\ p \in Player
        /\ sbox' \in [Scene -> Seq(Handler)]
    BY <1>9, HeadType DEF SceneEnter
  <2>2. news \in Message /\ all \in Message
    BY <2>1 DEF Message, InPlay
  <2>3. Broadcast(s, news) \in [Agent -> Seq(Message)]
    BY <2>2, BroadcastType
  <2>4. \A q \in Seq(Message) : Append(q, all) \in Seq(Message)
    BY <2>2
  <2>5. feed' = IF life[a] = "alive"
                THEN [Broadcast(s, news) EXCEPT ![a] = Append(@, all)]
                ELSE Broadcast(s, news)
    BY <1>9 DEF SceneEnter
  <2>6. balls' \in [Scene -> [Player -> Agent \cup {None}]]
    BY <1>9, <2>1 DEF SceneEnter, TypeOK
  <2>7. pc' \in [Handler -> HandlerPc]
    BY <1>9, <2>1 DEF SceneEnter, TypeOK, HandlerPc
  <2> HIDE DEF h, a, p, news, all
  <2>8. feed' \in [Agent -> Seq(Message)]
    BY <2>1, <2>3, <2>4, <2>5
  <2> QED
    BY <1>9, <2>1, <2>6, <2>7, <2>8 DEF TypeOK, SceneEnter
<1>10. ASSUME NEW s \in Scene, SceneRefuse(s) PROVE TypeOK'
  BY <1>10, HeadType DEF TypeOK, SceneRefuse, HandlerPc
<1>11. ASSUME NEW s \in Scene, SceneLeave(s) PROVE TypeOK'
  <2> DEFINE h == Head(sbox[s])
             p == PlayerOf[h[1]]
             news == [cmd |-> "leave", player |-> p]
  <2>1. h \in Handler /\ p \in Player /\ sbox' \in [Scene -> Seq(Handler)]
    BY <1>11, HeadType DEF SceneLeave
  <2>2. news \in Message
    BY <2>1 DEF Message
  <2>3. Broadcast(s, news) \in [Agent -> Seq(Message)]
    BY <2>2, BroadcastType
  <2>4. feed' \in [Agent -> Seq(Message)]
    BY <1>11, <2>3 DEF SceneLeave, TypeOK
  <2>5. balls' \in [Scene -> [Player -> Agent \cup {None}]]
    BY <1>11, <2>1 DEF SceneLeave, TypeOK
  <2>6. pc' \in [Handler -> HandlerPc]
    BY <1>11, <2>1 DEF SceneLeave, TypeOK, HandlerPc
  <2> QED
    BY <1>11, <2>1, <2>4, <2>5, <2>6 DEF TypeOK, SceneLeave
<1>12. CASE UNCHANGED vars
  BY <1>12 DEF TypeOK, vars
<1> QED
  BY <1>1, <1>2, <1>3, <1>4, <1>5, <1>6, <1>7, <1>8, <1>9, <1>10, <1>11,
     <1>12, NextCases

\* The state of agents and scenes keeps its shape.
THEOREM SceneTypeCorrect == Spec => []TypeOK
  BY TypeInit, TypeStep, PTL DEF Spec

-----------------------------------------------------------------------------
(* The calls in the mailboxes.                                             *)

LEMMA CallInit == Init => CallInv
BY DEF Init, CallInv, At

\* A step that leaves the mailboxes alone answers no waiting call.
LEMMA CallQuiet ==
  ASSUME TypeOK, CallInv, sbox' = sbox, goal' = goal,
         \A h \in Handler : pc[h] = "called" => pc'[h] = "called"
  PROVE  CallInv'
BY DEF CallInv, At, TypeOK

\* A handler calls once.
LEMMA CallMade ==
  ASSUME TypeOK, CallInv, NEW h \in Handler, NEW t \in Scene, pc[h] = "idle",
         CallScene(h, t)
  PROVE  CallInv'
<1> USE DEF TypeOK
<1>1. /\ pc' = [pc EXCEPT ![h] = "called"]
      /\ goal' = [goal EXCEPT ![h] = t]
      /\ sbox' = [sbox EXCEPT ![t] = Append(@, h)]
  BY DEF CallScene
<1>2. \A s \in Scene : \A i \in At(s) :
        sbox[s][i] \in Handler /\ sbox[s][i] # h
  BY DEF CallInv, At
<1>3. ASSUME NEW s \in Scene, s # t
      PROVE  /\ \A i \in At(s)' : pc'[sbox'[s][i]] = "called"
                                  /\ goal'[sbox'[s][i]] = s
             /\ \A i, j \in At(s)' : sbox'[s][i] = sbox'[s][j] => i = j
  BY <1>1, <1>2, <1>3 DEF CallInv, At
<1>4. /\ \A i \in At(t)' : pc'[sbox'[t][i]] = "called"
                           /\ goal'[sbox'[t][i]] = t
      /\ \A i, j \in At(t)' : sbox'[t][i] = sbox'[t][j] => i = j
  <2>1. sbox'[t] = Append(sbox[t], h)
    BY <1>1
  <2>2. \A i \in At(t)' : \/ i \in At(t) /\ sbox'[t][i] = sbox[t][i]
                          \/ i = Len(sbox[t]) + 1 /\ sbox'[t][i] = h
    BY <2>1, AppendAt DEF At
  <2>3. pc'[h] = "called" /\ goal'[h] = t
    BY <1>1
  <2>4. \A i \in At(t) : /\ pc'[sbox[t][i]] = pc[sbox[t][i]]
                         /\ goal'[sbox[t][i]] = goal[sbox[t][i]]
    BY <1>1, <1>2
  <2>5. ASSUME NEW i \in At(t)'
        PROVE  pc'[sbox'[t][i]] = "called" /\ goal'[sbox'[t][i]] = t
    <3>1. CASE i \in At(t) /\ sbox'[t][i] = sbox[t][i]
      BY <2>4, <3>1 DEF CallInv
    <3>2. CASE sbox'[t][i] = h
      BY <2>3, <3>2
    <3> QED
      BY <2>2, <3>1, <3>2
  <2>6. ASSUME NEW i \in At(t)', NEW j \in At(t)', sbox'[t][i] = sbox'[t][j]
        PROVE  i = j
    <3>1. CASE i \in At(t) /\ sbox'[t][i] = sbox[t][i]
      <4>1. j \in At(t) /\ sbox'[t][j] = sbox[t][j]
        BY <1>2, <2>2, <2>6, <3>1
      <4>2. \A x, y \in At(t) : sbox[t][x] = sbox[t][y] => x = y
        BY DEF CallInv
      <4> QED
        BY <2>6, <3>1, <4>1, <4>2
    <3>2. CASE i = Len(sbox[t]) + 1 /\ sbox'[t][i] = h
      BY <1>2, <2>2, <2>6, <3>2
    <3> QED
      BY <2>2, <3>1, <3>2
  <2> QED
    BY <2>5, <2>6
<1> QED
  BY <1>3, <1>4 DEF CallInv

\* A scene takes the first call of its mailbox, which is in no other place.
LEMMA CallTaken ==
  ASSUME TypeOK, CallInv, NEW t \in Scene, sbox[t] # << >>, NEW ans,
         pc' = [pc EXCEPT ![Head(sbox[t])] = ans],
         sbox' = [sbox EXCEPT ![t] = Tail(@)],
         goal' = goal
  PROVE  /\ pc[Head(sbox[t])] = "called"
         /\ goal[Head(sbox[t])] = t
         /\ CallInv'
<1> DEFINE h == Head(sbox[t])
<1>1. 1 \in At(t) /\ h = sbox[t][1]
  BY TailAt DEF At, TypeOK
<1>2. pc[h] = "called" /\ goal[h] = t
  BY <1>1 DEF CallInv
<1>3. ASSUME NEW s \in Scene, s # t
      PROVE  /\ \A i \in At(s)' : pc'[sbox'[s][i]] = "called"
                                  /\ goal'[sbox'[s][i]] = s
             /\ \A i, j \in At(s)' : sbox'[s][i] = sbox'[s][j] => i = j
  <2>1. sbox'[s] = sbox[s]
    BY <1>3 DEF TypeOK
  <2>2. \A i \in At(s) : sbox[s][i] # h /\ sbox[s][i] \in Handler
    BY <1>2, <1>3 DEF CallInv, At, TypeOK
  <2> QED
    BY <2>1, <2>2 DEF CallInv, At, TypeOK
<1>4. /\ \A i \in At(t)' : pc'[sbox'[t][i]] = "called"
                           /\ goal'[sbox'[t][i]] = t
      /\ \A i, j \in At(t)' : sbox'[t][i] = sbox'[t][j] => i = j
  <2>1. sbox'[t] = Tail(sbox[t])
    BY DEF TypeOK
  <2>2. \A i \in At(t)' : /\ i \in Int
                          /\ i + 1 \in At(t) /\ i + 1 # 1
                          /\ sbox'[t][i] = sbox[t][i + 1]
    BY <2>1, TailAt DEF At, TypeOK
  <2>3. \A i \in At(t) : i # 1 => sbox[t][i] # h
    BY <1>1 DEF CallInv
  <2>4. \A i \in At(t) : sbox[t][i] \in Handler
    BY DEF At, TypeOK
  <2>5. \A i \in At(t)' : sbox'[t][i] # h /\ sbox'[t][i] \in Handler
    BY <2>2, <2>3, <2>4
  <2>6. ASSUME NEW i \in At(t)'
        PROVE  pc'[sbox'[t][i]] = "called" /\ goal'[sbox'[t][i]] = t
    <3>1. sbox'[t][i] = sbox[t][i + 1] /\ i + 1 \in At(t)
      BY <2>2
    <3>2. pc[sbox'[t][i]] = "called" /\ goal[sbox'[t][i]] = t
      <4>1. \A x \in At(t) : pc[sbox[t][x]] = "called" /\ goal[sbox[t][x]] = t
        BY DEF CallInv
      <4> QED
        BY <3>1, <4>1
    <3>3. pc'[sbox'[t][i]] = pc[sbox'[t][i]]
      BY <2>5 DEF TypeOK
    <3> QED
      BY <3>2, <3>3
  <2>7. \A i, j \in At(t)' : sbox'[t][i] = sbox'[t][j] => i + 1 = j + 1
    <3>1. \A i, j \in At(t) : sbox[t][i] = sbox[t][j] => i = j
      BY DEF CallInv
    <3> QED
      BY <2>2, <3>1
  <2>8. \A i, j \in At(t)' : i + 1 = j + 1 => i = j
    BY <2>2
  <2> QED
    BY <2>6, <2>7, <2>8
<1> QED
  BY <1>2, <1>3, <1>4 DEF CallInv

LEMMA CallStep == TypeOK /\ CallInv /\ [Next]_vars => CallInv'
<1> SUFFICES ASSUME TypeOK, CallInv, [Next]_vars PROVE CallInv'
  OBVIOUS
<1> USE HandlerProperties DEF TypeOK
<1>1. ASSUME NEW a \in Agent,
             \/ Start(a) \/ Show(a) \/ LeaveAnswered(a) \/ KickEnd(a) \/ Exit(a)
             \/ \E h \in EnterOf(a) : EnterAnswered(a, h)
      PROVE  CallInv'
  BY <1>1, CallQuiet
  DEF Start, Show, LeaveAnswered, KickEnd, Exit, EnterAnswered
<1>2. ASSUME NEW a \in Agent, NEW h \in EnterOf(a), Enter(a, h) PROVE CallInv'
  <2>1. CASE sname[a] = None
    BY <1>2, <2>1, CallMade DEF Enter
  <2>2. CASE sname[a] # None
    BY <1>2, <2>2, CallQuiet DEF Enter
  <2> QED
    BY <2>1, <2>2
<1>3. ASSUME NEW a \in Agent, Kick(a) PROVE CallInv'
  <2>1. CASE sname[a] # None
    BY <1>3, <2>1, CallMade DEF Kick
  <2>2. CASE sname[a] = None
    BY <1>3, <2>2, CallQuiet DEF Kick
  <2> QED
    BY <2>1, <2>2
<1>4. ASSUME NEW s \in Scene, SceneEnter(s) PROVE CallInv'
  BY <1>4, CallTaken DEF SceneEnter
<1>5. ASSUME NEW s \in Scene, SceneRefuse(s) PROVE CallInv'
  BY <1>5, CallTaken DEF SceneRefuse
<1>6. ASSUME NEW s \in Scene, SceneLeave(s) PROVE CallInv'
  BY <1>6, CallTaken DEF SceneLeave
<1>7. CASE UNCHANGED vars
  BY <1>7 DEF vars, CallInv, At
<1> QED
  BY <1>1, <1>2, <1>3, <1>4, <1>5, <1>6, <1>7, NextCases

-----------------------------------------------------------------------------
(* The claims to a ball.                                                   *)

Claims(a) ==
  /\ ClaimInv(a)
  /\ \A s \in Scene :
       sname[a] = s /\ pc[KickOf(a)] \notin {"granted", "refused"}
         => balls[s][PlayerOf[a]] = a

LEMMA ClaimInit == Init => \A a \in Agent : Claims(a)
<1> SUFFICES ASSUME Init, NEW a \in Agent PROVE Claims(a)
  OBVIOUS
<1>1. \A h \in Handler : pc[h] = "idle"
  BY DEF Init
<1>2. KickOf(a) \in Handler /\ EnterOf(a) \subseteq Handler
  BY HandlerProperties
<1>3. \A s \in Scene : sname[a] # s
  BY AgentSceneAssumption DEF Init
<1> QED
  BY <1>1, <1>2, <1>3 DEF Claims, ClaimInv, Leaving

\* A step that gives an agent no claim, and takes no ball of it away.
LEMMA ClaimFrame ==
  ASSUME NEW a \in Agent, Claims(a),
         \A h \in EnterOf(a) :
           pc'[h] = "granted" => pc[h] = "granted" /\ goal'[h] = goal[h],
         \/ pc'[KickOf(a)] = pc[KickOf(a)] /\ goal'[KickOf(a)] = goal[KickOf(a)]
         \/ pc[KickOf(a)] = "called" /\ pc'[KickOf(a)] = "refused"
         \/ pc[KickOf(a)] = "saving" /\ pc'[KickOf(a)] = "done",
         sname'[a] = sname[a],
         \A s \in Scene : balls[s][PlayerOf[a]] = a => balls'[s][PlayerOf[a]] = a
  PROVE  Claims(a)'
BY DEF Claims, ClaimInv, Leaving

\* Steps of an agent leave the claims of the others alone.
LEMMA OtherClaims ==
  ASSUME TypeOK, NEW a \in Agent, NEW b \in Agent, a # b, Claims(b),
         \A h \in Handler : h[1] # a => pc'[h] = pc[h] /\ goal'[h] = goal[h],
         \A c \in Agent \ {a} : sname'[c] = sname[c],
         balls' = balls
  PROVE  Claims(b)'
<1>1. KickOf(b) \in Handler /\ KickOf(b)[1] # a
  BY HandlerProperties
<1>2. \A h \in EnterOf(b) : h \in Handler /\ h[1] # a
  BY HandlerProperties
<1> QED
  BY <1>1, <1>2, ClaimFrame

LEMMA ClaimStep ==
  TypeOK /\ CallInv /\ (\A a \in Agent : Claims(a)) /\ [Next]_vars
    => \A a \in Agent : Claims(a)'
<1> SUFFICES ASSUME TypeOK, CallInv, \A a \in Agent : Claims(a), [Next]_vars,
                    NEW b \in Agent
             PROVE  Claims(b)'
  OBVIOUS
<1> USE AgentSceneAssumption
<1>0. /\ KickOf(b) \in Handler /\ KickOf(b)[1] = b
      /\ \A h \in EnterOf(b) : h \in Handler /\ h[1] = b /\ h # KickOf(b)
  BY HandlerProperties
<1>1. ASSUME NEW a \in Agent, Start(a) \/ Show(a) \/ Exit(a) PROVE Claims(b)'
  BY <1>1, ClaimFrame DEF Start, Show, Exit
<1>2. ASSUME NEW a \in Agent, KickEnd(a) PROVE Claims(b)'
  <2>1. /\ UNCHANGED <<sname, goal, balls>>
        /\ pc[KickOf(a)] = "saving" /\ KickOf(a) \in Handler
        /\ pc' = [pc EXCEPT ![KickOf(a)] = "done"]
    BY <1>2, HandlerProperties DEF KickEnd
  <2>2. \A h \in EnterOf(b) : h # KickOf(a)
    BY HandlerProperties
  <2> QED
    BY <1>0, <2>1, <2>2, ClaimFrame DEF TypeOK
<1>3. ASSUME NEW a \in Agent, NEW h \in EnterOf(a), Enter(a, h) PROVE Claims(b)'
  <2>1. /\ h \in Handler /\ KickOf(b) # h
        /\ UNCHANGED <<sname, balls>>
    BY <1>3, HandlerProperties DEF Enter
  <2>2. pc'[h] # "granted"
    BY <1>3, <2>1 DEF Enter, CallScene, TypeOK
  <2>3. \A g \in Handler : g # h => pc'[g] = pc[g] /\ goal'[g] = goal[g]
    BY <1>3, <2>1 DEF Enter, CallScene, TypeOK
  <2> QED
    BY <1>0, <2>1, <2>2, <2>3, ClaimFrame
<1>4. ASSUME NEW a \in Agent, NEW h \in EnterOf(a), EnterAnswered(a, h)
      PROVE  Claims(b)'
  <2>1. /\ h \in Handler /\ h[1] = a /\ h # KickOf(a)
        /\ UNCHANGED <<goal, balls>>
        /\ pc' = [pc EXCEPT ![h] = "done"]
    BY <1>4, HandlerProperties DEF EnterAnswered
  <2>2. \A g \in Handler : g # h => pc'[g] = pc[g]
    BY <2>1 DEF TypeOK
  <2>3. CASE b # a
    <3>1. \A c \in Agent \ {a} : sname'[c] = sname[c]
      BY <1>4 DEF EnterAnswered, TypeOK
    <3> QED
      BY <2>1, <2>2, <2>3, <3>1, OtherClaims
  <2>4. CASE b = a /\ pc[h] = "granted"
    <3>1. sname'[b] = goal[h] /\ pc'[h] = "done"
      BY <1>4, <2>1, <2>4 DEF EnterAnswered, TypeOK
    <3> QED
      BY <1>0, <2>1, <2>2, <2>4, <3>1 DEF Claims, ClaimInv, Leaving
  <2>5. CASE pc[h] # "granted"
    <3>1. sname' = sname /\ pc'[h] = "done"
      BY <1>4, <2>1, <2>5 DEF EnterAnswered, TypeOK
    <3>2. KickOf(b) # h
      BY HandlerProperties
    <3> QED
      BY <1>0, <2>1, <2>2, <3>1, <3>2, ClaimFrame
  <2> QED
    BY <2>3, <2>4, <2>5
<1>5. ASSUME NEW a \in Agent, Kick(a) PROVE Claims(b)'
  <2> DEFINE k == KickOf(a)
  <2>1. /\ k \in Handler /\ k[1] = a
        /\ UNCHANGED <<sname, balls>>
        /\ pc[k] = "idle"
    BY <1>5, HandlerProperties DEF Kick
  <2>2. \A g \in Handler : g # k => pc'[g] = pc[g] /\ goal'[g] = goal[g]
    BY <1>5, <2>1 DEF Kick, CallScene, TypeOK
  <2>3. CASE b # a
    BY <2>1, <2>2, <2>3, OtherClaims
  <2>4. CASE b = a /\ sname[a] = None
    <3>1. pc'[k] = "saving" /\ goal' = goal
      BY <1>5, <2>1, <2>4 DEF Kick, TypeOK
    <3> QED
      BY <1>0, <2>1, <2>2, <2>4, <3>1 DEF Claims, ClaimInv, Leaving
  <2>5. CASE b = a /\ sname[a] # None
    <3>1. pc'[k] = "called" /\ goal'[k] = sname[a] /\ sname[a] \in Scene
      BY <1>5, <2>1, <2>5 DEF Kick, CallScene, TypeOK
    <3> QED
      BY <1>0, <2>1, <2>2, <2>5, <3>1 DEF Claims, ClaimInv, Leaving
  <2> QED
    BY <2>3, <2>4, <2>5
<1>6. ASSUME NEW a \in Agent, LeaveAnswered(a) PROVE Claims(b)'
  <2> DEFINE k == KickOf(a)
  <2>1. /\ k \in Handler /\ k[1] = a
        /\ UNCHANGED <<goal, balls>>
        /\ sname' = [sname EXCEPT ![a] = None]
        /\ pc' = [pc EXCEPT ![k] = "saving"]
    BY <1>6, HandlerProperties DEF LeaveAnswered
  <2>2. \A g \in Handler : g # k => pc'[g] = pc[g]
    BY <2>1 DEF TypeOK
  <2>3. CASE b # a
    BY <2>1, <2>2, <2>3, OtherClaims DEF TypeOK
  <2>4. CASE b = a
    <3>1. pc'[k] = "saving" /\ sname'[a] = None
      BY <2>1 DEF TypeOK
    <3> QED
      BY <1>0, <2>1, <2>2, <2>4, <3>1 DEF Claims, ClaimInv, Leaving
  <2> QED
    BY <2>3, <2>4
\* The head of a mailbox is a call to this scene.
<1>7. ASSUME NEW s \in Scene, SceneEnter(s) \/ SceneRefuse(s) \/ SceneLeave(s)
      PROVE  /\ Head(sbox[s]) \in Handler
             /\ Head(sbox[s])[1] \in Agent
             /\ PlayerOf[Head(sbox[s])[1]] \in Player
             /\ pc[Head(sbox[s])] = "called" /\ goal[Head(sbox[s])] = s
             /\ \A g \in Handler : g # Head(sbox[s]) => pc'[g] = pc[g]
             /\ UNCHANGED <<sname, goal>>
  BY <1>7, HeadType, CallTaken DEF SceneEnter, SceneRefuse, SceneLeave, TypeOK
<1>8. ASSUME NEW s \in Scene, SceneEnter(s) PROVE Claims(b)'
  <2> DEFINE h == Head(sbox[s])
             a == h[1]
             p == PlayerOf[a]
  <2>1. /\ h \in Handler /\ a \in Agent /\ p \in Player
        /\ pc[h] = "called" /\ goal[h] = s
        /\ \A g \in Handler : g # h => pc'[g] = pc[g]
        /\ UNCHANGED <<sname, goal>>
    BY <1>7, <1>8
  <2>2. h[2] # 0 /\ balls[s][p] = None /\ pc'[h] = "granted"
    BY <1>8, <2>1 DEF SceneEnter, TypeOK
  <2>3. h \in EnterOf(a) /\ h # KickOf(b)
    BY <2>1, <2>2, HandlerProperties
  <2>4. /\ balls'[s][p] = a
        /\ \A t \in Scene : \A q \in Player :
             t # s \/ q # p => balls'[t][q] = balls[t][q]
    BY <1>8, <2>1 DEF SceneEnter, TypeOK
  <2>5. PlayerOf[b] \in Player /\ b # None
    OBVIOUS
  <2> HIDE DEF h, a, p
  <2>6. CASE b # a
    <3>1. \A g \in EnterOf(b) : g # h
      BY <1>0, <2>3, <2>6 DEF a
    <3>2. \A t \in Scene : balls[t][PlayerOf[b]] = b => balls'[t][PlayerOf[b]] = b
      BY <2>2, <2>4, <2>5
    <3> QED
      BY <1>0, <2>1, <2>3, <3>1, <3>2, ClaimFrame
  <2>7. CASE b = a
    <3>1. \A t \in Scene : balls[t][PlayerOf[b]] = b
                          => t # s /\ balls'[t][PlayerOf[b]] = b
      BY <2>2, <2>4, <2>5, <2>7 DEF p
    <3>2. balls'[s][PlayerOf[b]] = b
      BY <2>4, <2>7 DEF p
    <3> QED
      BY <1>0, <2>1, <2>2, <2>3, <2>7, <3>1, <3>2 DEF Claims, ClaimInv, Leaving
  <2> QED
    BY <2>6, <2>7
<1>9. ASSUME NEW s \in Scene, SceneRefuse(s) PROVE Claims(b)'
  <2> DEFINE h == Head(sbox[s])
  <2>1. /\ h \in Handler /\ pc[h] = "called"
        /\ \A g \in Handler : g # h => pc'[g] = pc[g]
        /\ UNCHANGED <<sname, goal, balls>>
    BY <1>7, <1>9 DEF SceneRefuse
  <2>2. pc'[h] = "refused"
    BY <1>9, <2>1 DEF SceneRefuse, TypeOK
  <2> HIDE DEF h
  <2> QED
    BY <1>0, <2>1, <2>2, ClaimFrame
<1>10. ASSUME NEW s \in Scene, SceneLeave(s) PROVE Claims(b)'
  <2> DEFINE h == Head(sbox[s])
             a == h[1]
             p == PlayerOf[a]
  <2>1. /\ h \in Handler /\ a \in Agent /\ p \in Player
        /\ pc[h] = "called" /\ goal[h] = s
        /\ \A g \in Handler : g # h => pc'[g] = pc[g]
        /\ UNCHANGED <<sname, goal>>
    BY <1>7, <1>10
  <2>2. h = KickOf(a) /\ pc'[h] = "granted"
    BY <1>10, <2>1, HandlerProperties DEF SceneLeave, TypeOK
  <2>3. \A t \in Scene : \A q \in Player :
          t # s \/ q # p => balls'[t][q] = balls[t][q]
    BY <1>10, <2>1 DEF SceneLeave, TypeOK
  <2>4. PlayerOf[b] \in Player
    OBVIOUS
  <2> HIDE DEF h, a, p
  <2>5. balls[s][p] = a
    BY <2>1, <2>2 DEF Claims, ClaimInv, Leaving, p
  <2>6. CASE b # a
    <3>1. KickOf(b) # h /\ \A g \in EnterOf(b) : g # h
      BY <1>0, <2>1, <2>2, <2>6, HandlerProperties
    <3>2. \A t \in Scene : balls[t][PlayerOf[b]] = b => balls'[t][PlayerOf[b]] = b
      BY <2>3, <2>4, <2>5, <2>6
    <3> QED
      BY <1>0, <2>1, <3>1, <3>2, ClaimFrame
  <2>7. CASE b = a
    <3>1. \A t \in Scene : balls[t][PlayerOf[b]] = b /\ t # s
                          => balls'[t][PlayerOf[b]] = b
      BY <2>3, <2>4
    <3> QED
      BY <1>0, <2>1, <2>2, <2>7, <3>1 DEF Claims, ClaimInv, Leaving
  <2> QED
    BY <2>6, <2>7
<1>11. CASE UNCHANGED vars
  BY <1>11, ClaimFrame DEF vars
<1> QED
  BY <1>1, <1>2, <1>3, <1>4, <1>5, <1>6, <1>8, <1>9, <1>10, <1>11, NextCases

LEMMA ClaimsAre == SceneInv <=> TypeOK /\ CallInv /\ \A a \in Agent : Claims(a)
BY DEF SceneInv, Claims, InScene

LEMMA SceneInvariant == Spec => []SceneInv
<1>1. Init => SceneInv
  BY TypeInit, CallInit, ClaimInit, ClaimsAre
<1>2. SceneInv /\ [Next]_vars => SceneInv'
  <2> SUFFICES ASSUME SceneInv, [Next]_vars PROVE SceneInv'
    OBVIOUS
  <2>1. TypeOK' /\ CallInv'
    BY TypeStep, CallStep DEF SceneInv
  <2>2. \A a \in Agent : Claims(a)'
    BY ClaimStep, ClaimsAre
  <2> QED
    BY <2>1, <2>2 DEF SceneInv, Claims, InScene
<1> QED
  BY <1>1, <1>2, PTL DEF Spec

\* An agent that believes to be in a scene has the ball there, whatever its
\* enters and its kick do at the same time.
THEOREM AgentHasBall == Spec => []InScene
<1>1. SceneInv => InScene
  BY DEF SceneInv
<1> QED
  BY <1>1, SceneInvariant, PTL
-----------------------------------------------------------------------------
(* One scene at a time, when clients wait for the answers to their enters. *)

LEMMA SerialInit == Init => SerialInv
<1> SUFFICES ASSUME Init, NEW a \in Agent
             PROVE  OneAtATime(a) /\ BallClaimed(a)
  BY DEF SerialInv
<1>1. \A h \in Handler : pc[h] = "idle"
  BY DEF Init
<1>2. KickOf(a) \in Handler /\ EnterOf(a) \subseteq Handler
  BY HandlerProperties
<1>3. \A s \in Scene : \A p \in Player : balls[s][p] # a
  BY AgentSceneAssumption DEF Init
<1> QED
  BY <1>1, <1>2, <1>3 DEF OneAtATime, BallClaimed, UnderWay, InLeave

\* What a step leaves alone of an agent; its enters may end.
LEMMA SerialFrame ==
  ASSUME NEW a \in Agent, OneAtATime(a), BallClaimed(a),
         \A h \in EnterOf(a) :
           /\ \/ pc'[h] = pc[h]
              \/ pc'[h] = "done" /\ pc[h] # "granted"
              \/ pc'[h] = "refused" /\ pc[h] = "called"
           /\ goal'[h] = goal[h],
         \/ pc'[KickOf(a)] = pc[KickOf(a)] /\ goal'[KickOf(a)] = goal[KickOf(a)]
         \/ pc[KickOf(a)] = "saving" /\ pc'[KickOf(a)] = "done",
         sname'[a] = sname[a],
         \A s \in Scene : \A p \in Player : balls'[s][p] = a => balls[s][p] = a
  PROVE  OneAtATime(a)' /\ BallClaimed(a)'
<1>1. \A h \in EnterOf(a) : UnderWay(h)' => UnderWay(h)
  BY DEF UnderWay
<1>2. OneAtATime(a)'
  BY <1>1 DEF OneAtATime, InLeave
<1>3. BallClaimed(a)'
  BY DEF BallClaimed
<1> QED
  BY <1>2, <1>3

LEMMA SerialStep ==
  ASSUME SerialEnters, SceneInv, SerialInv, [Next]_vars
  PROVE  SerialInv'
<1> SUFFICES ASSUME NEW b \in Agent
             PROVE  OneAtATime(b)' /\ BallClaimed(b)'
  BY DEF SerialInv
<1> USE AgentSceneAssumption
<1>a. TypeOK /\ CallInv /\ OneAtATime(b) /\ BallClaimed(b)
  BY DEF SceneInv, SerialInv
<1>0. /\ KickOf(b) \in Handler /\ KickOf(b)[1] = b
      /\ \A h \in EnterOf(b) : h \in Handler /\ h[1] = b /\ h # KickOf(b)
  BY HandlerProperties
<1>1. ASSUME NEW a \in Agent, Start(a) \/ Show(a) \/ Exit(a)
      PROVE  OneAtATime(b)' /\ BallClaimed(b)'
  BY <1>1, <1>a, SerialFrame DEF Start, Show, Exit
<1>2. ASSUME NEW a \in Agent, KickEnd(a)
      PROVE  OneAtATime(b)' /\ BallClaimed(b)'
  <2>1. /\ UNCHANGED <<sname, goal, balls>>
        /\ pc[KickOf(a)] = "saving" /\ KickOf(a) \in Handler
        /\ pc' = [pc EXCEPT ![KickOf(a)] = "done"]
    BY <1>2, HandlerProperties DEF KickEnd
  <2>2. \A h \in EnterOf(b) : h # KickOf(a)
    BY HandlerProperties
  <2> QED
    BY <1>a, <1>0, <2>1, <2>2, SerialFrame DEF TypeOK
<1>3. ASSUME NEW a \in Agent, NEW h \in EnterOf(a), Enter(a, h)
      PROVE  OneAtATime(b)' /\ BallClaimed(b)'
  <2>1. /\ h \in Handler /\ h[1] = a /\ KickOf(b) # h
        /\ UNCHANGED <<sname, balls>>
        /\ pc[h] = "idle"
    BY <1>3, HandlerProperties DEF Enter
  <2>2. \A g \in Handler : g # h => pc'[g] = pc[g] /\ goal'[g] = goal[g]
    BY <1>3, <1>a, <2>1 DEF Enter, CallScene, TypeOK
  <2>3. CASE sname[a] # None
    <3>1. pc' = [pc EXCEPT ![h] = "done"] /\ goal' = goal
      BY <1>3, <2>3 DEF Enter
    <3>2. pc'[h] = "done"
      BY <2>1, <3>1, <1>a DEF TypeOK
    <3> QED
      BY <1>a, <1>0, <2>1, <2>2, <3>1, <3>2, SerialFrame
  <2>4. CASE b # a
    <3>1. \A g \in EnterOf(b) : g # h
      BY <1>0, <2>1, <2>4
    <3> QED
      BY <1>a, <1>0, <2>1, <2>2, <3>1, SerialFrame
  <2>5. CASE sname[a] = None /\ b = a
    <3>1. \A g \in EnterOf(a) : ~UnderWay(g)
      BY <1>3 DEF Enter, MayEnter
    <3>2. pc[h] # "granted"
      BY <2>1
    <3>3. \A g \in EnterOf(a) : pc[g] # "granted"
      BY <3>1 DEF UnderWay
    <3>4. BallClaimed(a)'
      BY <1>a, <1>0, <2>1, <2>2, <2>5, <3>3 DEF BallClaimed
    <3>5. \A g \in EnterOf(a) : UnderWay(g)' => g = h
      BY <1>0, <2>2, <2>5, <3>1 DEF UnderWay
    <3>6. OneAtATime(a)'
      BY <1>a, <1>0, <2>1, <2>2, <2>5, <3>5 DEF OneAtATime, InLeave
    <3> QED
      BY <2>5, <3>4, <3>6
  <2> QED
    BY <2>3, <2>4, <2>5
<1>4. ASSUME NEW a \in Agent, NEW h \in EnterOf(a), EnterAnswered(a, h)
      PROVE  OneAtATime(b)' /\ BallClaimed(b)'
  <2>1. /\ h \in Handler /\ h[1] = a /\ h # KickOf(b)
        /\ UNCHANGED <<goal, balls>>
        /\ pc' = [pc EXCEPT ![h] = "done"]
        /\ pc[h] \in {"granted", "refused"}
    BY <1>4, HandlerProperties DEF EnterAnswered
  <2>2. (\A g \in Handler : g # h => pc'[g] = pc[g]) /\ pc'[h] = "done"
    BY <2>1, <1>a DEF TypeOK
  <2>3. CASE pc[h] = "refused"
    <3>1. sname' = sname
      BY <1>4, <2>3 DEF EnterAnswered
    <3> QED
      BY <1>a, <1>0, <2>1, <2>2, <2>3, <3>1, SerialFrame
  <2>4. CASE b # a
    <3>1. \A g \in EnterOf(b) : g # h
      BY <1>0, <2>1, <2>4
    <3>2. sname'[b] = sname[b]
      BY <1>4, <1>a, <2>4 DEF EnterAnswered, TypeOK
    <3> QED
      BY <1>a, <1>0, <2>1, <2>2, <3>1, <3>2, SerialFrame
  <2>5. CASE pc[h] = "granted" /\ b = a
    <3>1. sname'[a] = goal[h] /\ goal[h] \in Scene
      <4>1. ClaimInv(a)
        BY DEF SceneInv
      <4>2. sname' = [sname EXCEPT ![a] = goal[h]]
        BY <1>4, <2>5 DEF EnterAnswered
      <4>3. goal[h] \in Scene
        BY <2>5, <4>1 DEF ClaimInv
      <4> QED
        BY <1>a, <4>2, <4>3 DEF TypeOK
    <3>2. UnderWay(h)
      BY <2>5 DEF UnderWay
    <3>3. (\A g \in EnterOf(a) : g # h => ~UnderWay(g)) /\ sname[a] = None
      BY <1>a, <2>5, <3>2 DEF OneAtATime
    <3>4. ~InLeave(a)
      BY <1>a, <2>5, <3>3 DEF OneAtATime
    <3>5. \A g \in EnterOf(a) : ~UnderWay(g)'
      BY <1>0, <2>2, <2>5, <3>3 DEF UnderWay
    <3>6. pc'[KickOf(a)] = pc[KickOf(a)]
      BY <1>0, <2>1, <2>2, <2>5
    <3>7. OneAtATime(a)'
      BY <3>4, <3>5, <3>6 DEF OneAtATime, InLeave
    <3>8. ASSUME NEW s \in Scene, NEW p \in Player, balls'[s][p] = a
          PROVE  p = PlayerOf[a] /\ s = goal[h]
      <4>1. balls[s][p] = a /\ s # None /\ sname[a] # s
        BY <2>1, <3>3, <3>8
      <4>2. \A g \in EnterOf(a) : pc[g] = "granted" => g = h
        BY <3>3 DEF UnderWay
      <4> QED
        BY <1>a, <2>5, <4>1, <4>2 DEF BallClaimed
    <3>9. BallClaimed(a)'
      BY <3>1, <3>4, <3>6, <3>8 DEF BallClaimed, InLeave
    <3> QED
      BY <2>5, <3>7, <3>9
  <2> QED
    BY <2>1, <2>3, <2>4, <2>5
<1>5. ASSUME NEW a \in Agent, Kick(a)
      PROVE  OneAtATime(b)' /\ BallClaimed(b)'
  <2> DEFINE k == KickOf(a)
  <2>1. /\ k \in Handler /\ k[1] = a
        /\ UNCHANGED <<sname, balls>>
        /\ pc[k] = "idle"
    BY <1>5, HandlerProperties DEF Kick
  <2>2. \A g \in Handler : g # k => pc'[g] = pc[g] /\ goal'[g] = goal[g]
    BY <1>5, <1>a, <2>1 DEF Kick, CallScene, TypeOK
  <2>3. \A g \in EnterOf(b) : g # k
    BY HandlerProperties
  <2>4. CASE b # a
    BY <1>a, <1>0, <2>1, <2>2, <2>3, <2>4, SerialFrame
  <2>5. CASE b = a /\ sname[a] = None
    <3>1. pc'[k] = "saving"
      BY <1>5, <1>a, <2>1, <2>5 DEF Kick, TypeOK
    <3> QED
      BY <1>a, <1>0, <2>1, <2>2, <2>3, <2>5, <3>1
      DEF OneAtATime, BallClaimed, InLeave, UnderWay
  <2>6. CASE b = a /\ sname[a] # None
    <3>1. pc'[k] = "called" /\ goal'[k] = sname[a]
      BY <1>5, <1>a, <2>1, <2>6 DEF Kick, CallScene, TypeOK
    <3> QED
      BY <1>a, <1>0, <2>1, <2>2, <2>3, <2>6, <3>1
      DEF OneAtATime, BallClaimed, InLeave, UnderWay
  <2> QED
    BY <2>4, <2>5, <2>6
<1>6. ASSUME NEW a \in Agent, LeaveAnswered(a)
      PROVE  OneAtATime(b)' /\ BallClaimed(b)'
  <2> DEFINE k == KickOf(a)
  <2>1. /\ k \in Handler /\ k[1] = a
        /\ UNCHANGED <<goal, balls>>
        /\ sname' = [sname EXCEPT ![a] = None]
        /\ pc' = [pc EXCEPT ![k] = "saving"]
        /\ pc[k] \in {"granted", "refused"}
    BY <1>6, HandlerProperties DEF LeaveAnswered
  <2>2. (\A g \in Handler : g # k => pc'[g] = pc[g]) /\ pc'[k] = "saving"
    BY <2>1, <1>a DEF TypeOK
  <2>3. \A g \in EnterOf(b) : g # k
    BY HandlerProperties
  <2>4. CASE b # a
    <3>1. sname'[b] = sname[b]
      BY <1>a, <2>1, <2>4 DEF TypeOK
    <3> QED
      BY <1>a, <1>0, <2>1, <2>2, <2>3, <2>4, <3>1, SerialFrame
  <2>5. CASE b = a
    <3>1. InLeave(a) /\ sname[a] # None
      BY <1>a, <2>1, <2>5 DEF OneAtATime, InLeave
    <3>2. \A g \in EnterOf(a) : ~UnderWay(g)
      BY <1>a, <2>5, <3>1 DEF OneAtATime
    <3>3. \A s \in Scene : \A p \in Player : balls[s][p] # a
      BY <1>a, <2>1, <2>5, <3>2 DEF BallClaimed, UnderWay
    <3> QED
      BY <1>0, <2>1, <2>2, <2>3, <2>5, <3>2, <3>3
      DEF OneAtATime, BallClaimed, InLeave, UnderWay
  <2> QED
    BY <2>4, <2>5
<1>7. ASSUME NEW s \in Scene, SceneEnter(s) \/ SceneRefuse(s) \/ SceneLeave(s)
      PROVE  /\ Head(sbox[s]) \in Handler
             /\ Head(sbox[s])[1] \in Agent
             /\ PlayerOf[Head(sbox[s])[1]] \in Player
             /\ pc[Head(sbox[s])] = "called" /\ goal[Head(sbox[s])] = s
             /\ \A g \in Handler : g # Head(sbox[s]) => pc'[g] = pc[g]
             /\ UNCHANGED <<sname, goal>>
  <2> DEFINE h == Head(sbox[s])
  <2>1. /\ sbox[s] # << >> /\ sbox' = [sbox EXCEPT ![s] = Tail(@)]
        /\ UNCHANGED <<sname, goal>>
    BY <1>7 DEF SceneEnter, SceneRefuse, SceneLeave
  <2>2. h \in Handler /\ h[1] \in Agent /\ PlayerOf[h[1]] \in Player
    BY <1>a, <2>1, HeadType
  <2>3. \E ans \in {"granted", "refused"} : pc' = [pc EXCEPT ![h] = ans]
    BY <1>7 DEF SceneEnter, SceneRefuse, SceneLeave
  <2>4. PICK ans \in {"granted", "refused"} : pc' = [pc EXCEPT ![h] = ans]
    BY <2>3
  <2>5. pc[h] = "called" /\ goal[h] = s
    BY <1>a, <2>1, <2>4, CallTaken
  <2>6. \A g \in Handler : g # h => pc'[g] = pc[g]
    <3> HIDE DEF h
    <3> QED
      BY <1>a, <2>4 DEF TypeOK
  <2> QED
    BY <2>1, <2>2, <2>5, <2>6
<1>8. ASSUME NEW s \in Scene, SceneEnter(s)
      PROVE  OneAtATime(b)' /\ BallClaimed(b)'
  <2> DEFINE h == Head(sbox[s])
             a == h[1]
             p == PlayerOf[a]
  <2>1. /\ h \in Handler /\ a \in Agent /\ p \in Player
        /\ pc[h] = "called" /\ goal[h] = s
        /\ \A g \in Handler : g # h => pc'[g] = pc[g]
        /\ UNCHANGED <<sname, goal>>
    BY <1>7, <1>8
  <2>2. h[2] # 0 /\ balls[s][p] = None /\ pc'[h] = "granted"
    BY <1>8, <1>a, <2>1 DEF SceneEnter, TypeOK
  <2>3. h \in EnterOf(a) /\ h # KickOf(b)
    BY <2>1, <2>2, HandlerProperties
  <2>4. /\ balls'[s][p] = a
        /\ \A t \in Scene : \A q \in Player :
             t # s \/ q # p => balls'[t][q] = balls[t][q]
    BY <1>8, <1>a, <2>1 DEF SceneEnter, TypeOK
  <2>5. p = PlayerOf[a]
    OBVIOUS
  <2> HIDE DEF h, a, p
  <2>6. CASE b # a
    <3>1. \A g \in EnterOf(b) : g # h
      BY <1>0, <2>3, <2>6 DEF a
    <3>2. \A t \in Scene : \A q \in Player : balls'[t][q] = b => balls[t][q] = b
      BY <2>4, <2>6
    <3> QED
      BY <1>a, <1>0, <2>1, <2>3, <3>1, <3>2, SerialFrame
  <2>7. CASE b = a
    <3>1. \A g \in EnterOf(b) : UnderWay(g)' <=> UnderWay(g)
      BY <1>0, <2>1, <2>2, <2>3 DEF UnderWay
    <3>2. pc'[KickOf(b)] = pc[KickOf(b)]
      BY <1>0, <2>1, <2>3
    <3>3. OneAtATime(b)'
      BY <1>a, <2>1, <3>1, <3>2 DEF OneAtATime, InLeave
    <3>4. ASSUME NEW t \in Scene, NEW q \in Player, balls'[t][q] = b,
                 t # s \/ q # p
          PROVE  /\ q = PlayerOf[b]
                 /\ \/ sname'[b] = t /\ pc'[KickOf(b)] \notin {"granted", "refused"}
                    \/ \E g \in EnterOf(b) : pc'[g] = "granted" /\ goal'[g] = t
      <4>1. balls[t][q] = b
        BY <2>4, <3>4
      <4>2. \A g \in EnterOf(b) : pc[g] = "granted" => pc'[g] = "granted"
        BY <1>0, <2>1, <2>2
      <4> QED
        BY <1>a, <2>1, <3>2, <4>1, <4>2 DEF BallClaimed
    <3>5. pc'[h] = "granted" /\ goal'[h] = s /\ h \in EnterOf(b) /\ p = PlayerOf[b]
      BY <2>1, <2>2, <2>3, <2>5, <2>7
    <3> QED
      BY <3>3, <3>4, <3>5 DEF BallClaimed
  <2> QED
    BY <2>6, <2>7
<1>9. ASSUME NEW s \in Scene, NEW h \in Handler, NEW a \in Agent,
             h = Head(sbox[s]), a = h[1], SceneRefuse(s), h[2] # 0
      PROVE  OneAtATime(b)' /\ BallClaimed(b)'
  <2>1. /\ pc[h] = "called"
        /\ \A g \in Handler : g # h => pc'[g] = pc[g]
        /\ UNCHANGED <<sname, goal, balls>>
    BY <1>7, <1>9 DEF SceneRefuse
  <2>2. pc'[h] = "refused" /\ h # KickOf(b)
    BY <1>9, <1>a, <2>1, <1>0, HandlerProperties DEF SceneRefuse, TypeOK
  <2> QED
    BY <1>a, <1>0, <2>1, <2>2, SerialFrame
<1>10. ASSUME NEW s \in Scene, SceneLeave(s) \/ SceneRefuse(s),
              Head(sbox[s])[2] = 0
       PROVE  SceneLeave(s) /\ balls[s][PlayerOf[Head(sbox[s])[1]]] = Head(sbox[s])[1]
  <2> DEFINE h == Head(sbox[s])
             a == h[1]
  <2>1. /\ h \in Handler /\ a \in Agent /\ PlayerOf[a] \in Player
        /\ pc[h] = "called" /\ goal[h] = s
    BY <1>7, <1>10
  <2>2. h = KickOf(a) /\ ClaimInv(a)
    BY <1>10, <2>1, HandlerProperties DEF SceneInv
  <2>3. balls[s][PlayerOf[a]] = a
    BY <2>1, <2>2 DEF ClaimInv, Leaving
  <2> QED
    BY <1>10, <2>1, <2>3 DEF SceneRefuse
<1>11. ASSUME NEW s \in Scene, SceneLeave(s)
       PROVE  OneAtATime(b)' /\ BallClaimed(b)'
  <2> DEFINE h == Head(sbox[s])
             a == h[1]
             p == PlayerOf[a]
  <2>1. /\ h \in Handler /\ a \in Agent /\ p \in Player
        /\ pc[h] = "called" /\ goal[h] = s
        /\ \A g \in Handler : g # h => pc'[g] = pc[g]
        /\ UNCHANGED <<sname, goal>>
    BY <1>7, <1>11
  <2>2. h = KickOf(a) /\ pc'[h] = "granted" /\ h[2] = 0
    BY <1>11, <1>a, <2>1, HandlerProperties DEF SceneLeave, TypeOK
  <2>3. /\ balls'[s][p] = None
        /\ \A t \in Scene : \A q \in Player :
             t # s \/ q # p => balls'[t][q] = balls[t][q]
    BY <1>11, <1>a, <2>1 DEF SceneLeave, TypeOK
  <2>4. \A t \in Scene : \A q \in Player : balls'[t][q] = b => balls[t][q] = b
    BY <2>3
  <2>5. \A g \in EnterOf(b) : pc'[g] = pc[g]
    BY <1>0, <2>1, <2>2, HandlerProperties
  <2> HIDE DEF h, p
  <2>6. CASE b # a
    <3>1. KickOf(b) # h
      BY <1>0, <2>1, <2>2, <2>6
    <3> QED
      BY <1>a, <1>0, <2>1, <2>4, <2>5, <3>1, SerialFrame
  <2>7. CASE b = a
    <3>1. /\ InLeave(b) /\ goal[KickOf(b)] = s
          /\ pc'[KickOf(b)] = "granted"
      BY <2>1, <2>2, <2>7 DEF InLeave
    <3>2. sname[b] = s /\ sname[b] # None
      BY <1>a, <3>1 DEF OneAtATime
    <3>3. \A g \in EnterOf(b) : ~UnderWay(g) /\ ~UnderWay(g)'
      BY <1>a, <2>5, <3>2 DEF OneAtATime, UnderWay
    <3>4. OneAtATime(b)'
      BY <1>a, <2>1, <3>1, <3>2, <3>3 DEF OneAtATime
    <3>5. ASSUME NEW t \in Scene, NEW q \in Player, balls'[t][q] = b PROVE FALSE
      <4>1. balls[t][q] = b
        BY <2>4, <3>5
      <4>2. q = PlayerOf[b] /\ sname[b] = t
        BY <1>a, <3>3, <4>1 DEF BallClaimed, UnderWay
      <4>3. q = p /\ t = s
        BY <2>7, <3>2, <4>2 DEF p
      <4> QED
        BY <2>3, <3>5, <4>3
    <3> QED
      BY <3>4, <3>5 DEF BallClaimed
  <2> QED
    BY <2>6, <2>7
<1>12. CASE UNCHANGED vars
  BY <1>12, <1>a, SerialFrame DEF vars
<1>13. ASSUME NEW s \in Scene, SceneRefuse(s)
       PROVE  OneAtATime(b)' /\ BallClaimed(b)'
  <2>1. CASE Head(sbox[s])[2] = 0
    BY <1>10, <1>11, <1>13, <2>1
  <2>2. CASE Head(sbox[s])[2] # 0
    BY <1>7, <1>9, <1>13, <2>2
  <2> QED
    BY <2>1, <2>2
<1> QED
  BY <1>1, <1>2, <1>3, <1>4, <1>5, <1>6, <1>8, <1>11, <1>12, <1>13, NextCases

LEMMA SerialInvariant == SerialEnters => (Spec => [](SceneInv /\ SerialInv))
<1> SUFFICES ASSUME SerialEnters PROVE Spec => [](SceneInv /\ SerialInv)
  OBVIOUS
<1>1. SceneInv /\ SerialInv /\ [Next]_vars => SerialInv'
  BY SerialStep
<1> QED
  BY <1>1, SerialInit, SceneInvariant, PTL DEF Spec

\* An agent has a ball in one scene at most, when clients wait for the answer
\* to an enter; the kick may come at any time (agent/sceneapi.lua 50-52).
THEOREM OneSceneAtMost == SerialEnters => (Spec => []AgentInOneScene)
<1> SUFFICES ASSUME SerialEnters PROVE Spec => []AgentInOneScene
  OBVIOUS
<1>0. Spec => [](SceneInv /\ SerialInv)
  BY SerialInvariant
<1>1. SceneInv /\ SerialInv => AgentInOneScene
  <2> SUFFICES ASSUME SceneInv, SerialInv,
                      NEW s \in Scene, NEW t \in Scene, NEW p \in Player,
                      balls[s][p] = balls[t][p], balls[s][p] # None
               PROVE  s = t
    BY DEF AgentInOneScene
  <2>1. PICK a \in Agent : balls[s][p] = a
    BY DEF SceneInv, TypeOK
  <2>2. OneAtATime(a) /\ BallClaimed(a) /\ balls[t][p] = a
    BY <2>1 DEF SerialInv
  <2>3. s # None /\ t # None
    BY AgentSceneAssumption
  <2> QED
    BY <2>1, <2>2, <2>3 DEF OneAtATime, BallClaimed, UnderWay
<1> QED
  BY <1>0, <1>1, PTL

-----------------------------------------------------------------------------
(* Nothing stays behind, when the kick overlaps no enter.                  *)

LEMMA CalmInit == Init => CalmInv
<1> SUFFICES ASSUME Init PROVE CalmInv
  OBVIOUS
<1>1. \A h \in Handler : pc[h] = "idle"
  BY DEF Init
<1>2. \A a \in Agent : KickOf(a) \in Handler /\ EnterOf(a) \subseteq Handler
  BY HandlerProperties
<1> QED
  BY <1>1, <1>2 DEF Init, CalmInv, Calm, UnderWay

LEMMA CalmStep ==
  ASSUME CalmKicks, SceneInv, CalmInv, [Next]_vars
  PROVE  CalmInv'
<1> SUFFICES ASSUME NEW b \in Agent PROVE Calm(b)'
  BY DEF CalmInv
<1>a. TypeOK /\ CallInv /\ Calm(b)
  BY DEF SceneInv, CalmInv
<1>0. /\ KickOf(b) \in Handler /\ KickOf(b)[1] = b
      /\ \A h \in EnterOf(b) : h \in Handler /\ h[1] = b /\ h # KickOf(b)
      /\ \A a \in Agent : KickOf(a) \notin EnterOf(b)
  BY HandlerProperties
<1>1. ASSUME NEW a \in Agent, Start(a) \/ Show(a) \/ Exit(a) PROVE Calm(b)'
  BY <1>1, <1>a DEF Calm, Start, Show, Exit, TypeOK, UnderWay
<1>2. ASSUME NEW a \in Agent, NEW h \in EnterOf(a), Enter(a, h) PROVE Calm(b)'
  <2>1. /\ h \in Handler /\ h[1] = a /\ KickOf(b) # h
        /\ UNCHANGED <<life, sname>>
        /\ pc[KickOf(a)] = "idle" /\ life[a] = "alive"
    BY <1>2, HandlerProperties DEF Enter, MayEnter
  <2>2. \A g \in Handler : g # h => pc'[g] = pc[g]
    BY <1>2, <1>a, <2>1 DEF Enter, CallScene, TypeOK
  <2> QED
    BY <1>a, <1>0, <2>1, <2>2 DEF Calm, UnderWay
<1>3. ASSUME NEW a \in Agent, NEW h \in EnterOf(a), EnterAnswered(a, h)
      PROVE  Calm(b)'
  <2>1. /\ h \in Handler /\ h[1] = a /\ KickOf(b) # h
        /\ UNCHANGED life
        /\ life[a] = "alive" /\ UnderWay(h)
    BY <1>3, HandlerProperties DEF EnterAnswered, UnderWay
  <2>2. (\A g \in Handler : g # h => pc'[g] = pc[g]) /\ pc'[h] = "done"
    BY <1>3, <1>a, <2>1 DEF EnterAnswered, TypeOK
  <2>3. \A c \in Agent : c # a => sname'[c] = sname[c]
    BY <1>3, <1>a DEF EnterAnswered, TypeOK
  <2> QED
    BY <1>a, <1>0, <2>1, <2>2, <2>3 DEF Calm, UnderWay
<1>4. ASSUME NEW a \in Agent, Kick(a) PROVE Calm(b)'
  <2>1. /\ KickOf(a) \in Handler /\ KickOf(a)[1] = a
        /\ UNCHANGED <<life, sname>>
        /\ life[a] = "alive"
        /\ \A h \in EnterOf(a) : ~UnderWay(h)
    BY <1>4, HandlerProperties DEF Kick, MayKick
  <2>2. \A g \in Handler : g # KickOf(a) => pc'[g] = pc[g]
    BY <1>4, <1>a, <2>1 DEF Kick, CallScene, TypeOK
  <2>3. sname[a] = None \/ pc'[KickOf(a)] = "called"
    BY <1>4, <1>a, <2>1 DEF Kick, CallScene, TypeOK
  <2> QED
    BY <1>a, <1>0, <2>1, <2>2, <2>3 DEF Calm, UnderWay
<1>5. ASSUME NEW a \in Agent, LeaveAnswered(a) PROVE Calm(b)'
  <2>1. /\ KickOf(a) \in Handler /\ KickOf(a)[1] = a
        /\ UNCHANGED life
        /\ life[a] = "alive"
        /\ pc[KickOf(a)] # "idle"
        /\ pc'[KickOf(a)] = "saving"
        /\ sname' = [sname EXCEPT ![a] = None]
    BY <1>5, <1>a, HandlerProperties DEF LeaveAnswered, TypeOK
  <2>2. \A g \in Handler : g # KickOf(a) => pc'[g] = pc[g]
    BY <1>5, <1>a, <2>1 DEF LeaveAnswered, TypeOK
  <2> QED
    BY <1>a, <1>0, <2>1, <2>2 DEF Calm, UnderWay, TypeOK
<1>6. ASSUME NEW a \in Agent, KickEnd(a) PROVE Calm(b)'
  <2>1. /\ KickOf(a) \in Handler /\ KickOf(a)[1] = a
        /\ UNCHANGED <<life, sname>>
        /\ life[a] = "alive"
        /\ pc[KickOf(a)] = "saving"
        /\ pc'[KickOf(a)] = "done"
    BY <1>6, <1>a, HandlerProperties DEF KickEnd, TypeOK
  <2>2. \A g \in Handler : g # KickOf(a) => pc'[g] = pc[g]
    BY <1>6, <1>a, <2>1 DEF KickEnd, TypeOK
  <2> QED
    BY <1>a, <1>0, <2>1, <2>2 DEF Calm, UnderWay
<1>7. ASSUME NEW s \in Scene, SceneEnter(s) \/ SceneRefuse(s) \/ SceneLeave(s)
      PROVE  Calm(b)'
  <2> DEFINE h == Head(sbox[s])
  <2>1. /\ h \in Handler /\ pc[h] = "called"
        /\ \A g \in Handler : g # h => pc'[g] = pc[g]
        /\ UNCHANGED sname
    BY <1>7, <1>a, HeadType, CallTaken
    DEF SceneEnter, SceneRefuse, SceneLeave, TypeOK
  <2>2. UNCHANGED life /\ pc'[h] \in {"granted", "refused"}
    BY <1>7, <1>a, <2>1 DEF SceneEnter, SceneRefuse, SceneLeave, TypeOK
  <2> HIDE DEF h
  <2>3. \A g \in EnterOf(b) : UnderWay(g)' <=> UnderWay(g)
    BY <1>0, <2>1, <2>2 DEF Calm, UnderWay
  <2> QED
    BY <1>a, <1>0, <2>1, <2>2, <2>3 DEF Calm
<1>8. CASE UNCHANGED vars
  BY <1>8, <1>a DEF Calm, vars, UnderWay
<1> QED
  BY <1>1, <1>2, <1>3, <1>4, <1>5, <1>6, <1>7, <1>8, NextCases

LEMMA CalmInvariant == CalmKicks => (Spec => []CalmInv)
<1> SUFFICES ASSUME CalmKicks PROVE Spec => []CalmInv
  OBVIOUS
<1>1. SceneInv /\ CalmInv /\ [Next]_vars => CalmInv'
  BY CalmStep
<1> QED
  BY <1>1, CalmInit, SceneInvariant, PTL DEF Spec

\* A player that goes offline leaves its scene: no ball belongs to an agent
\* that has exited, when an account's kick waits for its enters and the client
\* waits for their answers (agent/init.lua 50).
THEOREM NothingLeftBehind ==
  SerialEnters /\ CalmKicks => (Spec => []NoGhost)
<1> SUFFICES ASSUME SerialEnters, CalmKicks PROVE Spec => []NoGhost
  OBVIOUS
<1>0. (Spec => [](SceneInv /\ SerialInv)) /\ (Spec => []CalmInv)
  BY SerialInvariant, CalmInvariant
<1>1. SceneInv /\ SerialInv /\ CalmInv => NoGhost
  <2> SUFFICES ASSUME SceneInv, SerialInv, CalmInv,
                      NEW s \in Scene, NEW p \in Player, balls[s][p] # None
               PROVE  life[balls[s][p]] = "alive"
    BY DEF NoGhost
  <2>1. PICK a \in Agent : balls[s][p] = a
    BY DEF SceneInv, TypeOK
  <2>2. BallClaimed(a) /\ s # None /\ life[a] \in {"none", "alive", "exited"}
    BY AgentSceneAssumption DEF SerialInv, SceneInv, TypeOK
  <2>3. sname[a] = s \/ \E h \in EnterOf(a) : UnderWay(h)
    BY <2>1, <2>2 DEF BallClaimed, UnderWay
  <2> QED
    BY <2>1, <2>2, <2>3 DEF CalmInv, Calm
<1> QED
  BY <1>0, <1>1, PTL
-----------------------------------------------------------------------------
(* What a fold over a queue of messages computes: by induction, for which  *)
(* the theorem on minimal elements has to do.                              *)

\* A set of numbers has a least one: induction, for what fails somewhere.
LEMMA Least ==
  ASSUME NEW T, T \subseteq Nat, T # {}
  PROVE  \E n \in T : \A m \in T : n <= m
<1> DEFINE R == {ss \in Nat \X Nat : ss[1] < ss[2]}
<1>1. IsWellFoundedOn(R, Nat)
  BY NatLessThanWellFounded DEF OpToRel
<1>2. \A m, n \in Nat : m < n => <<m, n>> \in R
  OBVIOUS
<1> HIDE DEF R
<1>3. PICK n \in T : \A m \in T : ~ (<<m, n>> \in R)
  BY <1>1, WFMin
<1>4. \A m \in T : ~ (m < n)
  BY <1>2, <1>3
<1> QED
  BY <1>4

\* The function by which FoldLeft replays the messages of q at the places D.
IsFold(f, q, v, D) ==
  f = [s \in SUBSET D |->
         IF s = {} THEN v ELSE Replay(f[s \ {Max(s)}], q[Max(s)])]

\* There is such a function, by induction on the number of messages.
LEMMA FoldExists ==
  ASSUME NEW q, NEW v, NEW n \in Nat
  PROVE  \E f : IsFold(f, q, v, 1..n)
<1> DEFINE T == {k \in Nat : ~ \E f : IsFold(f, q, v, 1..k)}
<1> SUFFICES T = {}
  OBVIOUS
<1>1. 0 \notin T
  <2> DEFINE f == [s \in SUBSET (1..0) |-> v]
  <2>1. IsFold(f, q, v, 1..0)
    <3>1. SUBSET (1..0) = {{}}
      OBVIOUS
    <3> QED
      BY <3>1 DEF IsFold
  <2> QED
    BY <2>1
<1>2. ASSUME NEW k \in Nat, k \notin T PROVE k + 1 \notin T
  <2>1. PICK f : IsFold(f, q, v, 1..k)
    BY <1>2
  <2> DEFINE g == [s \in SUBSET (1..(k+1)) |->
                     IF k + 1 \in s THEN Replay(f[s \ {k+1}], q[k+1]) ELSE f[s]]
  <2>2. ASSUME NEW s \in SUBSET (1..(k+1)), k + 1 \in s PROVE Max(s) = k + 1
    <3>1. \A y \in s : k + 1 >= y /\ y \in Int
      OBVIOUS
    <3>2. \A x \in s : (\A y \in s : x >= y) => x = k + 1
      BY <2>2, <3>1
    <3> QED
      BY <2>2, <3>1, <3>2 DEF Max
  <2>3. ASSUME NEW s \in SUBSET (1..(k+1)), k + 1 \notin s
        PROVE  s \in SUBSET (1..k)
    BY <2>3
  <2>4. ASSUME NEW s \in SUBSET (1..k)
        PROVE  /\ s \in SUBSET (1..(k+1)) /\ k + 1 \notin s
               /\ s \ {Max(s)} \in SUBSET (1..k)
    <3>1. \A x \in 1..k : x \in 1..(k + 1) /\ x # k + 1
      OBVIOUS
    <3>2. \A x \in s \ {Max(s)} : x \in 1..k
      OBVIOUS
    <3> QED
      BY <3>1, <3>2
  <2>5. ASSUME NEW s \in SUBSET (1..k) PROVE g[s] = f[s]
    BY <2>4
  <2>6. ASSUME NEW s \in SUBSET (1..(k+1))
        PROVE  g[s] = IF s = {} THEN v ELSE Replay(g[s \ {Max(s)}], q[Max(s)])
    <3>1. CASE k + 1 \in s
      <4>1. s \ {k+1} \in SUBSET (1..k)
        OBVIOUS
      <4> QED
        BY <2>2, <2>5, <3>1, <4>1
    <3>2. CASE k + 1 \notin s
      <4>1. s \in SUBSET (1..k) /\ s \ {Max(s)} \in SUBSET (1..k)
        BY <2>3, <2>4, <3>2
      <4>2. f[s] = IF s = {} THEN v ELSE Replay(f[s \ {Max(s)}], q[Max(s)])
        BY <2>1, <4>1 DEF IsFold
      <4> QED
        BY <2>5, <4>1, <4>2
    <3> QED
      BY <3>1, <3>2
  <2>7. IsFold(g, q, v, 1..(k + 1))
    BY <2>6 DEF IsFold
  <2> QED
    BY <2>7
<1>3. T \subseteq Nat
  OBVIOUS
<1> HIDE DEF T
<1>4. ASSUME T # {} PROVE FALSE
  <2>1. PICK t \in T : \A m \in T : t <= m
    BY <1>3, <1>4, Least
  <2>2. t # 0 /\ t \in Nat
    BY <1>1, <1>3
  <2>3. t - 1 \in Nat /\ t - 1 \notin T
    BY <2>1, <2>2
  <2>4. (t - 1) + 1 \notin T
    BY <1>2, <2>3
  <2> QED
    BY <2>2, <2>4
<1> QED
  BY <1>4



\* One more message.
LEMMA FoldStep ==
  ASSUME NEW q, NEW v, NEW n \in Nat, NEW iter, IsFold(iter, q, v, 1..n),
         NEW k \in 1..n
  PROVE  iter[1..k] = Replay(iter[1..(k - 1)], q[k])
<1>1. iter = [s \in SUBSET (1..n) |->
             IF s = {} THEN v ELSE Replay(iter[s \ {Max(s)}], q[Max(s)])]
  BY DEF IsFold
<1>2. Max(1..k) = k
  <2>1. \A x \in 1..k : (\A y \in 1..k : x >= y) => x = k
    OBVIOUS
  <2>2. k \in 1..k /\ \A y \in 1..k : k >= y
    OBVIOUS
  <2> QED
    BY <2>1, <2>2 DEF Max
<1>3. \A x : x \in 1..k => x \in 1..n
  OBVIOUS
<1>4. k \in 1..k
  OBVIOUS
<1>5. (1..k) \ {k} = 1..(k - 1)
  OBVIOUS
<1>6. 1..k \in SUBSET (1..n) /\ 1..k # {}
  BY <1>3, <1>4
<1> QED
  BY <1>1, <1>2, <1>5, <1>6

\* What the function gives for a whole run of the fold.
LEMMA FoldValue ==
  ASSUME NEW q, NEW v, NEW g, NEW n \in Nat, NEW iter, IsFold(iter, q, v, 1..n),
         g[0] = v,
         \A k \in 1..n : g[k] = Replay(g[k - 1], q[k])
  PROVE  iter[1..n] = g[n]
<1>1. iter = [s \in SUBSET (1..n) |->
             IF s = {} THEN v ELSE Replay(iter[s \ {Max(s)}], q[Max(s)])]
  BY DEF IsFold
<1>6. iter[{}] = v
  BY <1>1
<1>7. \A k \in 1..n : iter[1..k] = Replay(iter[1..(k - 1)], q[k])
  BY FoldStep
<1> DEFINE T == {k \in 0..n : iter[1..k] # g[k]}
<1>8. 0 \notin T
  <2>1. 1..0 = {}
    OBVIOUS
  <2> QED
    BY <1>6, <2>1
<1>9. T \subseteq Nat
  OBVIOUS
<1>10. ASSUME T # {} PROVE FALSE
  <2>1. PICK t \in T : \A m \in T : t <= m
    <3> HIDE DEF T
    <3> QED
      BY <1>9, <1>10, Least
  <2>2. t \in 1..n /\ t - 1 \in 0..n
    BY <1>8
  <2>3. t - 1 \notin T
    BY <2>1, <2>2
  <2>4. iter[1..(t-1)] = g[t-1]
    BY <2>2, <2>3
  <2> QED
    BY <1>7, <2>2, <2>4
<1> QED
  BY <1>10

\* The result of a fold is the end of any run of it.
LEMMA FoldRun ==
  ASSUME NEW q \in Seq(Message), NEW v, NEW g,
         g[0] = v,
         \A k \in 1..Len(q) : g[k] = Replay(g[k - 1], q[k])
  PROVE  FoldLeft(Replay, v, q) = g[Len(q)]
<1>1. DOMAIN q = 1..Len(q) /\ Len(q) \in Nat
  OBVIOUS
<1> DEFINE iter == CHOOSE f : IsFold(f, q, v, DOMAIN q)
<1>2. FoldLeft(Replay, v, q) = iter[DOMAIN q]
  BY DEF FoldLeft, MapThenFoldSet, IsFold
<1>3. \E f : IsFold(f, q, v, DOMAIN q)
  BY <1>1, FoldExists
<1>4. IsFold(iter, q, v, DOMAIN q)
  BY <1>3
<1> HIDE DEF iter
<1> QED
  BY <1>1, <1>2, <1>4, FoldValue

\* A fold has a run.
LEMMA FoldHasRun ==
  ASSUME NEW q \in Seq(Message), NEW v
  PROVE  \E g : /\ g[0] = v
                /\ \A k \in 1..Len(q) : g[k] = Replay(g[k - 1], q[k])
                /\ FoldLeft(Replay, v, q) = g[Len(q)]
<1>1. Len(q) \in Nat
  OBVIOUS
<1>2. PICK iter : IsFold(iter, q, v, 1..Len(q))
  BY <1>1, FoldExists
<1>3. iter[{}] = v
  BY <1>2 DEF IsFold
<1>4. ASSUME NEW k \in 1..Len(q)
      PROVE  iter[1..k] = Replay(iter[1..(k - 1)], q[k])
  BY <1>1, <1>2, FoldStep
<1> DEFINE g == [k \in 0..Len(q) |-> iter[1..k]]
<1>5. g[0] = v
  <2>1. 1..0 = {}
    OBVIOUS
  <2> QED
    BY <1>1, <1>3, <2>1
<1>6. \A k \in 1..Len(q) : g[k] = Replay(g[k - 1], q[k])
  <2> TAKE k \in 1..Len(q)
  <2>1. k - 1 \in 0..Len(q) /\ k \in 0..Len(q)
    BY <1>1
  <2> QED
    BY <1>4, <2>1
<1> HIDE DEF g
<1> QED
  BY <1>5, <1>6, FoldRun

\* A message behind the others is replayed last.
LEMMA FoldAppend ==
  ASSUME NEW q \in Seq(Message), NEW v, NEW m \in Message
  PROVE  FoldLeft(Replay, v, Append(q, m)) = Replay(FoldLeft(Replay, v, q), m)
<1>1. PICK g : /\ g[0] = v
               /\ \A k \in 1..Len(q) : g[k] = Replay(g[k - 1], q[k])
               /\ FoldLeft(Replay, v, q) = g[Len(q)]
  BY FoldHasRun
<1> DEFINE n == Len(q)
           r == Append(q, m)
           x == Replay(g[n], m)
           f == [k \in 0..(n + 1) |-> IF k = n + 1 THEN x ELSE g[k]]
<1>2. n \in Nat /\ r \in Seq(Message) /\ Len(r) = n + 1 /\ r[n + 1] = m
  OBVIOUS
<1>3. \A k \in 1..n : r[k] = q[k]
  OBVIOUS
<1>4. f[0] = v /\ f[n + 1] = x /\ \A k \in 0..n : f[k] = g[k]
  BY <1>1, <1>2
<1>5. ASSUME NEW k \in 1..Len(r) PROVE f[k] = Replay(f[k - 1], r[k])
  <2>1. CASE k = n + 1
    <3>1. k - 1 = n /\ n \in 0..n
      BY <1>2, <2>1
    <3> HIDE DEF f, r, n
    <3> QED
      BY <1>2, <1>4, <2>1, <3>1
  <2>2. CASE k # n + 1
    <3>1. k \in 1..n /\ k \in 0..n /\ k - 1 \in 0..n
      BY <1>2, <2>2
    <3>2. g[k] = Replay(g[k - 1], q[k])
      BY <1>1, <3>1
    <3> HIDE DEF f, r, n
    <3> QED
      BY <1>3, <1>4, <3>1, <3>2
  <2> QED
    BY <2>1, <2>2
<1> HIDE DEF f, r
<1>6. FoldLeft(Replay, v, r) = f[Len(r)]
  BY <1>2, <1>4, <1>5, FoldRun
<1> QED
  BY <1>1, <1>2, <1>4, <1>6 DEF r

\* The message in front is replayed first.
LEMMA FoldTail ==
  ASSUME NEW q \in Seq(Message), NEW v, q # << >>
  PROVE  FoldLeft(Replay, Replay(v, Head(q)), Tail(q)) = FoldLeft(Replay, v, q)
<1>1. PICK g : /\ g[0] = v
               /\ \A k \in 1..Len(q) : g[k] = Replay(g[k - 1], q[k])
               /\ FoldLeft(Replay, v, q) = g[Len(q)]
  BY FoldHasRun
<1> DEFINE n == Len(q)
           r == Tail(q)
           f == [k \in 0..(n - 1) |-> g[k + 1]]
<1>2. n \in Nat /\ n # 0 /\ r \in Seq(Message) /\ Len(r) = n - 1 /\ Head(q) = q[1]
  OBVIOUS
<1>3. \A k \in 1..(n - 1) : r[k] = q[k + 1] /\ k + 1 \in 1..n
  OBVIOUS
<1>4. f[0] = Replay(v, Head(q))
  BY <1>1, <1>2
<1>5. ASSUME NEW k \in 1..Len(r) PROVE f[k] = Replay(f[k - 1], r[k])
  <2>1. k \in 0..(n - 1) /\ k - 1 \in 0..(n - 1) /\ (k - 1) + 1 = k
    BY <1>2
  <2>2. f[k] = g[k + 1] /\ f[k - 1] = g[k]
    BY <2>1
  <2>3. g[k + 1] = Replay(g[(k + 1) - 1], q[k + 1]) /\ (k + 1) - 1 = k
    BY <1>1, <1>2, <1>3
  <2> HIDE DEF f, r, n
  <2> QED
    BY <1>2, <1>3, <2>2, <2>3
<1>6. f[n - 1] = g[n]
  BY <1>2
<1> HIDE DEF f, r
<1>7. FoldLeft(Replay, Replay(v, Head(q)), r) = f[Len(r)]
  BY <1>2, <1>4, <1>5, FoldRun
<1> QED
  BY <1>1, <1>2, <1>6, <1>7 DEF r
-----------------------------------------------------------------------------
(* What clients see.                                                       *)

LEMMA UnstartedInit == Init => UnstartedInv
<1> SUFFICES ASSUME Init PROVE UnstartedInv
  OBVIOUS
<1>1. \A h \in Handler : pc[h] = "idle"
  BY DEF Init
<1>2. \A a \in Agent : KickOf(a) \in Handler /\ EnterOf(a) \subseteq Handler
  BY HandlerProperties
<1> QED
  BY <1>1, <1>2 DEF Init, UnstartedInv

LEMMA UnstartedStep ==
  ASSUME SceneInv, UnstartedInv, [Next]_vars
  PROVE  UnstartedInv'
<1> DEFINE Mine(b) == {KickOf(b)} \cup EnterOf(b)
<1> SUFFICES ASSUME NEW b \in Agent, life'[b] = "none"
             PROVE  sname'[b] = None /\ \A h \in Mine(b) : pc'[h] = "idle"
  BY DEF UnstartedInv
<1>a. TypeOK /\ CallInv
  BY DEF SceneInv
<1>0. \A h \in Mine(b) : h \in Handler /\ h[1] = b
  BY HandlerProperties
<1> HIDE DEF Mine
<1>1. life[b] = "none" => sname[b] = None /\ \A h \in Mine(b) : pc[h] = "idle"
  BY DEF UnstartedInv, Mine
<1>2. ASSUME NEW a \in Agent,
             \/ Start(a) \/ Kick(a) \/ Show(a)
             \/ LeaveAnswered(a) \/ KickEnd(a) \/ Exit(a)
             \/ \E h \in EnterOf(a) : Enter(a, h) \/ EnterAnswered(a, h)
      PROVE  sname'[b] = None /\ \A h \in Mine(b) : pc'[h] = "idle"
  <2>1. /\ b # a \/ Show(a)
        /\ life[b] = "none"
    BY <1>2, <1>a DEF TypeOK, Start, Kick, Show, LeaveAnswered, KickEnd, Exit,
       Enter, EnterAnswered
  <2>2. CASE Show(a)
    BY <1>1, <2>1, <2>2 DEF Show
  <2>3. CASE b # a
    <3>1. \A h \in Handler : h[1] # a => pc'[h] = pc[h]
      <4>1. /\ KickOf(a) \in Handler /\ KickOf(a)[1] = a
            /\ \A h \in EnterOf(a) : h \in Handler /\ h[1] = a
        BY HandlerProperties
      <4> QED
        BY <1>2, <1>a, <4>1 DEF TypeOK, Start, Kick, Show, LeaveAnswered,
           KickEnd, Exit, Enter, EnterAnswered, CallScene
    <3>2. sname'[b] = sname[b]
      BY <1>2, <1>a, <2>3 DEF TypeOK, Start, Kick, Show, LeaveAnswered,
         KickEnd, Exit, Enter, EnterAnswered
    <3> QED
      BY <1>0, <1>1, <2>1, <2>3, <3>1, <3>2
  <2> QED
    BY <2>1, <2>2, <2>3
<1>3. ASSUME NEW s \in Scene, SceneEnter(s) \/ SceneRefuse(s) \/ SceneLeave(s)
      PROVE  sname'[b] = None /\ \A h \in Mine(b) : pc'[h] = "idle"
  <2>1. /\ Head(sbox[s]) \in Handler /\ pc[Head(sbox[s])] = "called"
        /\ \A g \in Handler : g # Head(sbox[s]) => pc'[g] = pc[g]
        /\ UNCHANGED <<sname, life>>
    BY <1>3, <1>a, HeadType, CallTaken
    DEF SceneEnter, SceneRefuse, SceneLeave, TypeOK
  <2> QED
    BY <1>0, <1>1, <2>1
<1>4. CASE UNCHANGED vars
  BY <1>1, <1>4 DEF vars
<1> QED
  BY <1>2, <1>3, <1>4, NextCases DEF Mine

\* Only an agent that has started has a ball, and only one.
LEMMA BallOfOne ==
  ASSUME SceneInv, SerialInv, UnstartedInv, NEW a \in Agent, NEW s \in Scene,
         NEW p \in Player, balls[s][p] = a
  PROVE  /\ p = PlayerOf[a] /\ life[a] # "none"
         /\ \A t \in Scene : \A q \in Player : balls[t][q] = a => t = s
<1>1. OneAtATime(a) /\ BallClaimed(a)
  BY DEF SerialInv
<1>2. \A t \in Scene : t # None
  BY AgentSceneAssumption
<1>3. ASSUME life[a] = "none" PROVE FALSE
  BY <1>1, <1>2, <1>3 DEF UnstartedInv, BallClaimed
<1>4. \A t \in Scene : \A q \in Player : balls[t][q] = a => t = s
  BY <1>1, <1>2 DEF OneAtATime, BallClaimed, UnderWay
<1> QED
  BY <1>1, <1>3, <1>4 DEF BallClaimed

\* What the client of an agent will show.
Shows(a) == FoldLeft(Replay, view[a], feed[a])

\* The news of a scene come to those who have a ball there.
LEMMA BroadcastShows ==
  ASSUME SceneInv, NEW s \in Scene, NEW m \in Message, NEW b \in Agent
  PROVE  FoldLeft(Replay, view[b], Broadcast(s, m)[b]) =
           IF life[b] = "alive" /\ balls[s][PlayerOf[b]] = b
           THEN Replay(Shows(b), m) ELSE Shows(b)
<1>1. feed[b] \in Seq(Message)
  BY DEF SceneInv, TypeOK
<1>2. CASE life[b] = "alive" /\ balls[s][PlayerOf[b]] = b
  <2>1. Broadcast(s, m)[b] = Append(feed[b], m)
    BY <1>2 DEF Broadcast
  <2> QED
    BY <1>1, <1>2, <2>1, FoldAppend DEF Shows
<1>3. CASE ~ (life[b] = "alive" /\ balls[s][PlayerOf[b]] = b)
  <2>1. Broadcast(s, m)[b] = feed[b]
    BY <1>3 DEF Broadcast
  <2> QED
    BY <1>3, <2>1 DEF Shows
<1> QED
  BY <1>2, <1>3

LEMMA ViewFrame ==
  ASSUME SceneInv, ViewFollows, balls' = balls,
         \A a \in Agent :
           life'[a] = "alive" =>
             \/ Shows(a)' = Shows(a) /\ life[a] = "alive"
             \/ \A s \in Scene : \A p \in Player : balls[s][p] # a
  PROVE  ViewFollows'
<1> SUFFICES ASSUME NEW s \in Scene, NEW p \in InPlay(s)', NEW a,
                    a = balls'[s][p], life'[a] = "alive"
             PROVE  Shows(a)' = InPlay(s)'
  BY DEF ViewFollows, Shows
<1>1. p \in InPlay(s) /\ a = balls[s][p] /\ p \in Player /\ a # None
  BY DEF InPlay
<1>2. a \in Agent
  BY <1>1 DEF SceneInv, TypeOK
<1>3. Shows(a)' = Shows(a) /\ life[a] = "alive"
  BY <1>1, <1>2
<1>4. Shows(a) = InPlay(s)
  BY <1>1, <1>3 DEF ViewFollows, Shows
<1> QED
  BY <1>3, <1>4 DEF InPlay

LEMMA ViewStep ==
  ASSUME SceneInv, SerialInv, UnstartedInv, ViewFollows, [Next]_vars
  PROVE  ViewFollows'
<1>a. TypeOK /\ CallInv
  BY DEF SceneInv
<1>1. ASSUME NEW a \in Agent, Start(a) PROVE ViewFollows'
  <2>1. /\ life[a] = "none" /\ life' = [life EXCEPT ![a] = "alive"]
        /\ UNCHANGED <<balls, feed, view>>
    BY <1>1 DEF Start
  <2>2. \A s \in Scene : \A p \in Player : balls[s][p] # a
    BY <2>1, BallOfOne
  <2>3. \A b \in Agent : b # a => life'[b] = life[b]
    BY <1>a, <2>1 DEF TypeOK
  <2>4. \A b \in Agent : Shows(b)' = Shows(b)
    BY <2>1 DEF Shows
  <2> QED
    BY <2>1, <2>2, <2>3, <2>4, ViewFrame
<1>2. ASSUME NEW a \in Agent,
             \/ Kick(a) \/ LeaveAnswered(a) \/ KickEnd(a)
             \/ \E h \in EnterOf(a) : Enter(a, h) \/ EnterAnswered(a, h)
      PROVE  ViewFollows'
  <2>1. UNCHANGED <<life, balls, feed, view>>
    BY <1>2 DEF Kick, LeaveAnswered, KickEnd, Enter, EnterAnswered
  <2>2. \A b \in Agent : Shows(b)' = Shows(b)
    BY <2>1 DEF Shows
  <2> QED
    BY <2>1, <2>2, ViewFrame
<1>3. ASSUME NEW a \in Agent, Exit(a) PROVE ViewFollows'
  <2>1. /\ life' = [life EXCEPT ![a] = "exited"]
        /\ feed' = [feed EXCEPT ![a] = << >>]
        /\ UNCHANGED <<balls, view>>
    BY <1>3 DEF Exit
  <2>2. \A b \in Agent : life'[b] = "alive"
                           => life[b] = "alive" /\ feed'[b] = feed[b]
    BY <1>a, <2>1 DEF TypeOK
  <2>3. \A b \in Agent : life'[b] = "alive" => Shows(b)' = Shows(b)
    BY <2>1, <2>2 DEF Shows
  <2> QED
    BY <2>1, <2>2, <2>3, ViewFrame
<1>4. ASSUME NEW a \in Agent, Show(a) PROVE ViewFollows'
  <2>1. /\ feed[a] # << >> /\ feed[a] \in Seq(Message)
        /\ view' = [view EXCEPT ![a] = Replay(@, Head(feed[a]))]
        /\ feed' = [feed EXCEPT ![a] = Tail(@)]
        /\ UNCHANGED <<life, balls>>
    BY <1>4, <1>a DEF Show, TypeOK
  <2>2. /\ view'[a] = Replay(view[a], Head(feed[a])) /\ feed'[a] = Tail(feed[a])
        /\ \A b \in Agent : b # a => view'[b] = view[b] /\ feed'[b] = feed[b]
    BY <1>a, <2>1 DEF TypeOK
  <2>3. Shows(a)' = Shows(a)
    BY <2>1, <2>2, FoldTail DEF Shows
  <2>4. \A b \in Agent : Shows(b)' = Shows(b)
    BY <2>2, <2>3 DEF Shows
  <2> QED
    BY <2>1, <2>4, ViewFrame
\* The head of a mailbox is a call to this scene.
<1>5. ASSUME NEW s \in Scene, SceneEnter(s) \/ SceneRefuse(s) \/ SceneLeave(s)
      PROVE  /\ Head(sbox[s]) \in Handler
             /\ Head(sbox[s])[1] \in Agent
             /\ PlayerOf[Head(sbox[s])[1]] \in Player
             /\ pc[Head(sbox[s])] = "called" /\ goal[Head(sbox[s])] = s
             /\ UNCHANGED <<life, view>>
  BY <1>5, <1>a, HeadType, CallTaken
  DEF SceneEnter, SceneRefuse, SceneLeave, TypeOK
<1>6. ASSUME NEW s \in Scene, SceneRefuse(s) PROVE ViewFollows'
  <2>1. UNCHANGED <<life, balls, feed, view>>
    BY <1>6 DEF SceneRefuse
  <2>2. \A b \in Agent : Shows(b)' = Shows(b)
    BY <2>1 DEF Shows
  <2> QED
    BY <2>1, <2>2, ViewFrame
<1>7. ASSUME NEW s \in Scene, SceneEnter(s) PROVE ViewFollows'
  <2> DEFINE h == Head(sbox[s])
             a == h[1]
             p == PlayerOf[a]
             news == [cmd |-> "enter", player |-> p]
             all == [cmd |-> "balllist", balls |-> InPlay(s) \cup {p}]
  <2>1. a \in Agent /\ p \in Player /\ UNCHANGED <<life, view>>
    BY <1>5, <1>7
  <2>0. \A t \in Scene : \A q \in Player : balls[t][q] # a
    <3>1. h \in EnterOf(a) /\ pc[h] = "called"
      BY <1>5, <1>7, HandlerProperties DEF SceneEnter
    <3>2. OneAtATime(a) /\ BallClaimed(a)
      BY <2>1 DEF SerialInv
    <3>3. sname[a] = None /\ \A g \in EnterOf(a) : pc[g] # "granted"
      BY <3>1, <3>2 DEF OneAtATime, UnderWay
    <3> QED
      BY <3>2, <3>3, AgentSceneAssumption DEF BallClaimed
  <2>2. news \in Message /\ all \in Message
    BY <2>1 DEF Message, InPlay
  <2>3. /\ balls[s][p] = None
        /\ balls' = [balls EXCEPT ![s][p] = a]
        /\ feed' = IF life[a] = "alive"
                   THEN [Broadcast(s, news) EXCEPT ![a] = Append(@, all)]
                   ELSE Broadcast(s, news)
    BY <1>7 DEF SceneEnter
  <2>4. /\ balls'[s][p] = a
        /\ \A t \in Scene : \A q \in Player :
             t # s \/ q # p => balls'[t][q] = balls[t][q]
    BY <1>a, <2>1, <2>3 DEF TypeOK
  <2>5. a # None
    BY <2>1, AgentSceneAssumption
  <2>6. InPlay(s)' = InPlay(s) \cup {p}
    BY <2>1, <2>4, <2>5 DEF InPlay
  <2>7. \A t \in Scene : t # s => InPlay(t)' = InPlay(t)
    BY <2>4 DEF InPlay
  <2>8. \A v : Replay(v, news) = v \cup {p} /\ Replay(v, all) = InPlay(s) \cup {p}
    BY DEF Replay
  <2>9. Broadcast(s, news) \in [Agent -> Seq(Message)]
    BY <1>a, <2>2, BroadcastType
  <2>10. p = PlayerOf[a]
    OBVIOUS
  <2> HIDE DEF h, a, p, news, all
  <2>11. ASSUME NEW b \in Agent, b = a, life[b] = "alive"
         PROVE  Shows(b)' = InPlay(s) \cup {p}
    <3>1. feed'[b] = Append(Broadcast(s, news)[b], all)
      BY <2>3, <2>9, <2>11
    <3>2. Broadcast(s, news)[b] \in Seq(Message)
      BY <2>9
    <3>3. FoldLeft(Replay, view[b], feed'[b]) =
            Replay(FoldLeft(Replay, view[b], Broadcast(s, news)[b]), all)
      BY <2>2, <3>1, <3>2, FoldAppend
    <3>4. FoldLeft(Replay, view[b], feed'[b]) = InPlay(s) \cup {p}
      BY <2>8, <3>3
    <3> QED
      BY <2>1, <3>4 DEF Shows
  <2>12. ASSUME NEW b \in Agent, b # a
         PROVE  Shows(b)' = IF life[b] = "alive" /\ balls[s][PlayerOf[b]] = b
                            THEN Shows(b) \cup {p} ELSE Shows(b)
    <3>1. feed'[b] = Broadcast(s, news)[b]
      BY <2>1, <2>3, <2>9, <2>12
    <3>2. FoldLeft(Replay, view[b], Broadcast(s, news)[b]) =
            IF life[b] = "alive" /\ balls[s][PlayerOf[b]] = b
            THEN Replay(Shows(b), news) ELSE Shows(b)
      BY <2>2, BroadcastShows
    <3> QED
      BY <2>1, <2>8, <3>1, <3>2 DEF Shows
  <2> SUFFICES ASSUME NEW t \in Scene, NEW q \in Player, NEW b \in Agent,
                      balls'[t][q] = b, life[b] = "alive"
               PROVE  Shows(b)' = InPlay(t)'
    <3>1. \A t \in Scene : \A q \in InPlay(t)' :
            q \in Player /\ balls'[t][q] \in Agent
      <4>1. TypeOK'
        BY <1>a, TypeStep
      <4> QED
        BY <4>1 DEF InPlay, TypeOK
    <3> QED
      BY <2>1, <3>1 DEF ViewFollows, Shows
  <2>13. CASE t = s /\ q = p
    BY <2>4, <2>6, <2>11, <2>13
  <2>14. CASE ~ (t = s /\ q = p)
    <3>1. balls[t][q] = b
      BY <2>4, <2>14
    <3>2. /\ q = PlayerOf[b]
          /\ \A u \in Scene : \A r \in Player : balls[u][r] = b => u = t
      BY <3>1, BallOfOne
    <3>3. Shows(b) = InPlay(t)
      <4>1. q \in InPlay(t)
        BY <3>1, AgentSceneAssumption DEF InPlay
      <4> QED
        BY <3>1, <4>1 DEF ViewFollows, Shows
    <3>4. b # a
      BY <2>0, <3>1
    <3>5. CASE t = s
      <4>1. balls[s][PlayerOf[b]] = b
        BY <3>1, <3>2, <3>5
      <4> QED
        BY <2>6, <2>12, <3>3, <3>4, <3>5, <4>1
    <3>6. CASE t # s
      <4>1. balls[s][PlayerOf[b]] # b
        BY <3>2, <3>6
      <4> QED
        BY <2>7, <2>12, <3>3, <3>4, <3>6, <4>1
    <3> QED
      BY <3>5, <3>6
  <2> QED
    BY <2>13, <2>14
<1>8. ASSUME NEW s \in Scene, SceneLeave(s) PROVE ViewFollows'
  <2> DEFINE h == Head(sbox[s])
             p == PlayerOf[h[1]]
             news == [cmd |-> "leave", player |-> p]
  <2>1. p \in Player /\ UNCHANGED <<life, view>>
    BY <1>5, <1>8
  <2>2. news \in Message
    BY <2>1 DEF Message
  <2>3. /\ balls' = [balls EXCEPT ![s][p] = None]
        /\ feed' = [b \in Agent |-> IF PlayerOf[b] = p THEN feed[b]
                                    ELSE Broadcast(s, news)[b]]
    BY <1>8 DEF SceneLeave
  <2>4. /\ balls'[s][p] = None
        /\ \A t \in Scene : \A q \in Player :
             t # s \/ q # p => balls'[t][q] = balls[t][q]
    BY <1>a, <2>1, <2>3 DEF TypeOK
  <2>5. InPlay(s)' = InPlay(s) \ {p}
    BY <2>1, <2>4 DEF InPlay
  <2>6. \A t \in Scene : t # s => InPlay(t)' = InPlay(t)
    BY <2>4 DEF InPlay
  <2>7. \A v : Replay(v, news) = v \ {p}
    BY DEF Replay
  <2> HIDE DEF h, p, news
  <2>8. ASSUME NEW b \in Agent, PlayerOf[b] # p
        PROVE  Shows(b)' = IF life[b] = "alive" /\ balls[s][PlayerOf[b]] = b
                           THEN Shows(b) \ {p} ELSE Shows(b)
    <3>1. feed'[b] = Broadcast(s, news)[b]
      BY <2>3, <2>8
    <3>2. FoldLeft(Replay, view[b], Broadcast(s, news)[b]) =
            IF life[b] = "alive" /\ balls[s][PlayerOf[b]] = b
            THEN Replay(Shows(b), news) ELSE Shows(b)
      BY <2>2, BroadcastShows
    <3> QED
      BY <2>1, <2>7, <3>1, <3>2 DEF Shows
  <2>9. ASSUME NEW b \in Agent, PlayerOf[b] = p PROVE Shows(b)' = Shows(b)
    <3>1. feed'[b] = feed[b] /\ view'[b] = view[b]
      BY <2>1, <2>3, <2>9
    <3> QED
      BY <3>1 DEF Shows
  <2> SUFFICES ASSUME NEW t \in Scene, NEW q \in Player, NEW b \in Agent,
                      balls'[t][q] = b, life[b] = "alive"
               PROVE  Shows(b)' = InPlay(t)'
    <3>1. \A t \in Scene : \A q \in InPlay(t)' :
            q \in Player /\ balls'[t][q] \in Agent
      <4>1. TypeOK'
        BY <1>a, TypeStep
      <4> QED
        BY <4>1 DEF InPlay, TypeOK
    <3> QED
      BY <2>1, <3>1 DEF ViewFollows, Shows
  <2>10. balls[t][q] = b /\ ~ (t = s /\ q = p)
    BY <2>4, AgentSceneAssumption
  <2>11. /\ q = PlayerOf[b]
         /\ \A u \in Scene : \A r \in Player : balls[u][r] = b => u = t
    BY <2>10, BallOfOne
  <2>12. Shows(b) = InPlay(t)
    <3>1. q \in InPlay(t)
      BY <2>10, AgentSceneAssumption DEF InPlay
    <3> QED
      BY <2>10, <3>1 DEF ViewFollows, Shows
  <2>13. CASE t = s
    <3>1. PlayerOf[b] # p /\ balls[s][PlayerOf[b]] = b
      BY <2>10, <2>11, <2>13
    <3> QED
      BY <2>5, <2>8, <2>12, <2>13, <3>1
  <2>14. CASE t # s
    <3>1. balls[s][PlayerOf[b]] # b
      BY <2>11, <2>14, AgentSceneAssumption
    <3>2. Shows(b)' = Shows(b)
      BY <2>8, <2>9, <3>1
    <3> QED
      BY <2>6, <2>12, <2>14, <3>2
  <2> QED
    BY <2>13, <2>14
<1>9. CASE UNCHANGED vars
  <2>1. UNCHANGED <<life, balls, feed, view>>
    BY <1>9 DEF vars
  <2>2. \A b \in Agent : Shows(b)' = Shows(b)
    BY <2>1 DEF Shows
  <2> QED
    BY <2>1, <2>2, ViewFrame
<1> QED
  BY <1>1, <1>2, <1>3, <1>4, <1>6, <1>7, <1>8, <1>9, NextCases

\* Whatever is still on its way to them, clients will show the balls of their
\* scene, when they wait for the answers to their enters: the news of a scene
\* come in the order of its changes, and none is missed (scene 31-48, 61-64).
THEOREM ClientsFollow == SerialEnters => (Spec => []ViewFollows)
<1> SUFFICES ASSUME SerialEnters PROVE Spec => []ViewFollows
  OBVIOUS
<1>1. Spec => [](SceneInv /\ SerialInv)
  BY SerialInvariant
<1>2. Init => ViewFollows
  <2> SUFFICES ASSUME Init PROVE ViewFollows
    OBVIOUS
  <2>1. \A s \in Scene : InPlay(s) = {}
    BY DEF Init, InPlay
  <2> QED
    BY <2>1 DEF ViewFollows
<1>3. SceneInv /\ UnstartedInv /\ [Next]_vars => UnstartedInv'
  BY UnstartedStep
<1>4. SceneInv /\ SerialInv /\ UnstartedInv /\ ViewFollows /\ [Next]_vars
        => ViewFollows'
  BY ViewStep
<1> QED
  BY <1>1, <1>2, <1>3, <1>4, UnstartedInit, PTL DEF Spec
=============================================================================
