---------------------------- MODULE SkynetMqProofs ----------------------------
(* Theorems about mailboxes and workers, for any services and threads.     *)
EXTENDS SkynetMqProps, FiniteSetTheorems, TLAPS

\* One thread moves, or the timer thread wakes or stops them.
LEMMA NextCases ==
  ASSUME [Next]_vars
  PROVE  \/ \E t \in Thread : ThreadStep(t)
         \/ \E t \in Thread, s \in Service : Kill(t, s) \/ Register(t, s)
         \/ \E t \in Thread, s \in Service, m \in Msg : BeginSend(t, s, m)
         \/ Tick \/ Abort
         \/ UNCHANGED vars
BY DEF Next, Choice, Ended

\* What is taken out of a queue.
LEMMA HeadGlobal ==
  ASSUME TypeOK, global # <<>>
  PROVE  Head(global) \in Service /\ Tail(global) \in Seq(Service)
BY DEF TypeOK

LEMMA HeadMail ==
  ASSUME TypeOK, NEW s \in Service, queue[s] # <<>>
  PROVE  Head(queue[s]) \in Mail /\ Tail(queue[s]) \in Seq(Mail)
<1>1. queue[s] \in Seq(Mail)
  BY DEF TypeOK
<1> QED
  BY <1>1

LEMMA DropsMail ==
  ASSUME TypeOK, NEW t \in Thread, DropMessage(t)
  PROVE  /\ dropping[t] \in Service
         /\ Head(queue[dropping[t]]) \in Mail
         /\ Tail(queue[dropping[t]]) \in Seq(Mail)
<1>1. dropping[t] \in Service /\ queue[dropping[t]] # <<>>
  BY DEF TypeOK, DropMessage, SomeService
<1> QED
  BY <1>1, HeadMail

LEMMA PopsMail ==
  ASSUME TypeOK, NEW t \in Thread, LayerInv(t), PopMail(t)
  PROVE  /\ cur[t] \in Service
         /\ Head(queue[cur[t]]) \in Mail
         /\ Tail(queue[cur[t]]) \in Seq(Mail)
<1>1. cur[t] # None /\ queue[cur[t]] # <<>>
  BY DEF LayerInv, Turn, PopMail
<1>2. cur[t] \in Service
  BY <1>1 DEF TypeOK, SomeService
<1> QED
  BY <1>1, <1>2, HeadMail

-----------------------------------------------------------------------------
(* The layers of a thread.                                                 *)

LEMMA LayerInit == Init => \A t \in Thread : LayerInv(t)
BY SkynetMqAssumption DEF Init, LayerInv, Turn

LEMMA LayerStep ==
  ASSUME MqInv, [Next]_vars, NEW u \in Thread
  PROVE  LayerInv(u)'
<1> USE SkynetMqAssumption
<1>0. TypeOK /\ (\A t \in Thread : LayerInv(t))
  BY DEF MqInv, RefsCounted
<1> USE DEF mqVars, ctxVars, workVars, makeVars, actVars, delVars, sleepVars,
            mailVars, ActTop, DropTop, MakeTop, WorkTop, Goto, TypeOK, LayerInv,
            Turn
<1>1. ASSUME NEW t \in Thread, MarkRelease(t) PROVE LayerInv(u)'
  BY <1>0, <1>1 DEF MarkRelease
<1>2. ASSUME NEW t \in Thread, FreeContext(t) PROVE LayerInv(u)'
  BY <1>0, <1>2 DEF FreeContext
<1>3. ASSUME NEW t \in Thread, SendGrab(t) PROVE LayerInv(u)'
  BY <1>0, <1>3 DEF SendGrab
<1>4. ASSUME NEW t \in Thread, SendRefused(t) PROVE LayerInv(u)'
  BY <1>0, <1>4 DEF SendRefused
<1>5. ASSUME NEW t \in Thread, SendPush(t) PROVE LayerInv(u)'
  BY <1>0, <1>5 DEF SendPush
<1>6. ASSUME NEW t \in Thread, ActRelease(t) PROVE LayerInv(u)'
  BY <1>0, <1>6 DEF ActRelease, Release
<1>7. ASSUME NEW t \in Thread, DropMessage(t) PROVE LayerInv(u)'
  <2>1. Head(queue[dropping[t]]) \in Mail /\ dropping[t] \in Service
    <3> HIDE DEF TypeOK
    <3> QED
      BY <1>0, <1>7, DropsMail
  <2>2. ASSUME NEW m \in Msg PROVE ErrorOf(m) # None
    BY DEF Mail
  <2>3. CASE u = t
    BY <1>0, <1>7, <2>1, <2>2, <2>3 DEF DropMessage
  <2>4. CASE u # t
    BY <1>0, <1>7, <2>1, <2>4 DEF DropMessage
  <2> QED
    BY <2>3, <2>4
<1>8. ASSUME NEW t \in Thread, DropEnd(t) PROVE LayerInv(u)'
  BY <1>0, <1>8 DEF DropEnd
<1>9. ASSUME NEW t \in Thread, Create(t) PROVE LayerInv(u)'
  BY <1>0, <1>9 DEF Create
<1>10. ASSUME NEW t \in Thread, InitDone(t) PROVE LayerInv(u)'
  BY <1>0, <1>10 DEF InitDone, Release
<1>11. ASSUME NEW t \in Thread, Launched(t) PROVE LayerInv(u)'
  BY <1>0, <1>11 DEF Launched
<1>12. ASSUME NEW t \in Thread, Refused(t) PROVE LayerInv(u)'
  BY <1>0, <1>12 DEF Refused, Retire
<1>13. ASSUME NEW t \in Thread, RefusedMq(t) PROVE LayerInv(u)'
  BY <1>0, <1>13 DEF RefusedMq, MqRelease
<1>14. ASSUME NEW t \in Thread, Top(t) PROVE LayerInv(u)'
  BY <1>0, <1>14 DEF Top
<1>15. ASSUME NEW t \in Thread, PopGlobal(t) PROVE LayerInv(u)'
  BY <1>0, <1>15, HeadGlobal DEF PopGlobal
<1>16. ASSUME NEW t \in Thread, Grab(t) PROVE LayerInv(u)'
  BY <1>0, <1>16 DEF Grab
<1>17. ASSUME NEW t \in Thread, WorkMqRelease(t) PROVE LayerInv(u)'
  BY <1>0, <1>17 DEF WorkMqRelease, MqRelease
<1>18. ASSUME NEW t \in Thread, PopMail(t) PROVE LayerInv(u)'
  <2>1. Head(queue[cur[t]]) \in Mail /\ cur[t] \in Service
    <3> HIDE DEF TypeOK, LayerInv
    <3> QED
      BY <1>0, <1>18, PopsMail
  <2>2. Head(queue[cur[t]]) # None
    BY <2>1
  <2>3. CASE u = t
    BY <1>0, <1>18, <2>2, <2>3 DEF PopMail
  <2>4. CASE u # t
    BY <1>0, <1>18, <2>2, <2>4 DEF PopMail
  <2> QED
    BY <2>3, <2>4
<1>19. ASSUME NEW t \in Thread, PopEmpty(t) PROVE LayerInv(u)'
  BY <1>0, <1>19 DEF PopEmpty
<1>20. ASSUME NEW t \in Thread, Handled(t) PROVE LayerInv(u)'
  BY <1>0, <1>20 DEF Handled
<1>21. ASSUME NEW t \in Thread, NextMq(t) PROVE LayerInv(u)'
  BY <1>0, <1>21, HeadGlobal DEF NextMq
<1>22. ASSUME NEW t \in Thread, PushBack(t) PROVE LayerInv(u)'
  BY <1>0, <1>22 DEF PushBack
<1>23. ASSUME NEW t \in Thread, TurnRelease(t) PROVE LayerInv(u)'
  BY <1>0, <1>23 DEF TurnRelease, Release
<1>24. ASSUME NEW t \in Thread, GoToSleep(t) PROVE LayerInv(u)'
  BY <1>0, <1>24 DEF GoToSleep
<1>25. ASSUME NEW t \in Thread, WakeUp(t) PROVE LayerInv(u)'
  BY <1>0, <1>25 DEF WakeUp
<1>26. ASSUME NEW t \in Thread, SocketWake(t) PROVE LayerInv(u)'
  BY <1>0, <1>26 DEF SocketWake, Signal
<1>27. ASSUME NEW t \in Thread, NEW s \in Service, Kill(t, s) PROVE LayerInv(u)'
  BY <1>0, <1>27 DEF Kill, Retire
<1>28. ASSUME NEW t \in Thread, NEW s \in Service, Register(t, s) PROVE LayerInv(u)'
  BY <1>0, <1>28 DEF Register
<1>29. ASSUME NEW t \in Thread, NEW s \in Service, NEW m \in Msg, BeginSend(t, s, m)
       PROVE  LayerInv(u)'
  <2>1. m # None /\ s # None
    BY DEF Mail
  <2>2. CASE u = t
    BY <1>0, <1>29, <2>1, <2>2 DEF BeginSend, Running
  <2>3. CASE u # t
    BY <1>0, <1>29, <2>1, <2>3 DEF BeginSend, Running
  <2> QED
    BY <2>2, <2>3
<1>30. ASSUME Tick PROVE LayerInv(u)'
  BY <1>0, <1>30 DEF Tick, Signal
<1>31. ASSUME Abort PROVE LayerInv(u)'
  BY <1>0, <1>31 DEF Abort
<1>32. CASE UNCHANGED vars
  BY <1>0, <1>32 DEF vars
<1> QED
  BY NextCases, <1>1, <1>2, <1>3, <1>4, <1>5, <1>6, <1>7, <1>8, <1>9, <1>10, <1>11,
     <1>12, <1>13, <1>14, <1>15, <1>16, <1>17, <1>18, <1>19, <1>20, <1>21, <1>22,
     <1>23, <1>24, <1>25, <1>26, <1>27, <1>28, <1>29, <1>30, <1>31, <1>32
     DEF ThreadStep

-----------------------------------------------------------------------------
(* Types.                                                                  *)

\* What a layer that runs works on is a service.
LEMMA Layered ==
  ASSUME TypeOK, NEW t \in Thread, LayerInv(t)
  PROVE  /\ del[t] # "idle" => dead[t] \in Service
         /\ act[t] # "idle" => tgt[t] \in Service
         /\ act[t] \in {"grab", "push"} => mail[t] \in Mail
         /\ dropping[t] # None => dropping[t] \in Service
         /\ make[t] # "idle" => new[t] \in Service
         /\ work[t] \in Turn \cup {"grab", "mqrelease"} => cur[t] \in Service
         /\ work[t] \in Turn \cup {"release"} => hold[t] \in Service
         /\ work[t] = "pushback" => nxt[t] \in Service
BY DEF TypeOK, LayerInv, SomeService

\* A thread that may release a service holds a reference to it.
LEMMA HoldersFinite == ASSUME NEW s PROVE IsFiniteSet(Holders(s))
<1>1. IsFiniteSet(Thread)
  BY SkynetMqAssumption, FS_Union, FS_Singleton DEF Thread
<1>2. ASSUME NEW k, NEW T \in SUBSET Thread PROVE IsFiniteSet({k} \X T)
  BY <1>1, FS_Subset, FS_Product, FS_Singleton
<1>3. IsFiniteSet(IF slot[s] \/ Creating(s) THEN {<<"storage", s>>} ELSE {})
  BY FS_EmptySet, FS_Singleton
<1> DEFINE T1 == {t \in Thread : hold[t] = s}
           T2 == {t \in Thread : tgt[t] = s /\ act[t] \in {"push", "release"}}
           T3 == {t \in Thread : new[t] = s /\ make[t] \in {"create", "init"}}
<1>4. /\ IsFiniteSet({"turn"} \X T1)
      /\ IsFiniteSet({"act"} \X T2)
      /\ IsFiniteSet({"launch"} \X T3)
  BY <1>2
<1> QED
  BY <1>3, <1>4, FS_Union DEF Holders

LEMMA Held ==
  ASSUME RefsCounted, NEW s \in Service, Holders(s) # {}
  PROVE  ref[s] \in Nat \ {0}
BY HoldersFinite, FS_EmptySet DEF RefsCounted, TypeOK

LEMMA TypeInit == Init => TypeOK
<1> SUFFICES ASSUME Init PROVE TypeOK
  OBVIOUS
<1>1. /\ global \in Seq(Service) /\ total \in Int
      /\ ref \in [Service -> Nat] /\ left \in [Thread -> Nat]
  BY SkynetMqAssumption DEF Init
<1>2. /\ queue \in [Service -> Seq(Mail)]
      /\ fate \in [Mail -> Fates] /\ src \in [Mail -> SomeService]
  BY DEF Init, Fates, SomeService
<1>3. \A t \in Thread : (IF t = Socket THEN "poll" ELSE "top") \in WorkPc
  BY DEF WorkPc
<1>4. "idle" \in MakePc /\ "idle" \in ActPc
  BY DEF MakePc, ActPc
<1>5. /\ mq \in [Service -> {"none", "live", "freed"}]
      /\ ctx \in [Service -> {"none", "live", "freed"}]
      /\ inGlobal \in [Service -> BOOLEAN] /\ slot \in [Service -> BOOLEAN]
      /\ work \in [Thread -> WorkPc]
  BY <1>3 DEF Init
<1>6. /\ make \in [Thread -> MakePc] /\ act \in [Thread -> ActPc]
      /\ del \in [Thread -> {"idle", "mark", "free"}]
  BY <1>4 DEF Init
<1>7. /\ cur \in [Thread -> SomeService] /\ nxt \in [Thread -> SomeService]
      /\ hold \in [Thread -> SomeService] /\ new \in [Thread -> SomeService]
      /\ dropping \in [Thread -> SomeService] /\ tgt \in [Thread -> SomeService]
      /\ dead \in [Thread -> SomeService]
  BY DEF Init, SomeService
<1>8. /\ hand \in [Thread -> Mail \cup {None}] /\ mail \in [Thread -> Mail \cup {None}]
  BY DEF Init
<1>9. release \in [Service -> BOOLEAN] /\ quit \in BOOLEAN
  BY Zenon DEF Init
<1>10. sleep \in Int
  BY DEF Init
<1> QED
  BY <1>1, <1>2, <1>5, <1>6, <1>7, <1>8, <1>9, <1>10 DEF TypeOK

LEMMA TypeStep == MqInv /\ [Next]_vars => TypeOK'
<1> SUFFICES ASSUME MqInv, [Next]_vars PROVE TypeOK'
  OBVIOUS
<1>0. RefsCounted /\ TypeOK /\ (\A t \in Thread : LayerInv(t))
  BY DEF MqInv, RefsCounted
<1>a. ASSUME NEW t \in Thread
      PROVE  /\ del[t] # "idle" => dead[t] \in Service
             /\ act[t] # "idle" => tgt[t] \in Service
             /\ act[t] \in {"grab", "push"} => mail[t] \in Mail
             /\ dropping[t] # None => dropping[t] \in Service
             /\ make[t] # "idle" => new[t] \in Service
             /\ work[t] \in Turn \cup {"grab", "mqrelease"} => cur[t] \in Service
             /\ work[t] \in Turn \cup {"release"} => hold[t] \in Service
             /\ work[t] = "pushback" => nxt[t] \in Service
  BY <1>0, Layered
<1>b. global # <<>> => Head(global) \in Service /\ Tail(global) \in Seq(Service)
  BY <1>0, HeadGlobal
<1>c. total \in Int /\ total + 1 \in Int /\ total - 1 \in Int
  BY <1>0 DEF TypeOK
<1>d. sleep \in Int /\ sleep + 1 \in Int /\ sleep - 1 \in Int
  BY <1>0 DEF TypeOK
<1>e. ASSUME NEW s \in Service PROVE Append(global, s) \in Seq(Service)
  BY <1>0 DEF TypeOK
<1>g. global \in Seq(Service)
  BY <1>0 DEF TypeOK
\* The places of the layers are places.
<1>w. /\ "top" \in WorkPc /\ "grab" \in WorkPc /\ "first" \in WorkPc
      /\ "more" \in WorkPc /\ "handle" \in WorkPc /\ "next" \in WorkPc
      /\ "pushback" \in WorkPc /\ "release" \in WorkPc /\ "mqrelease" \in WorkPc
      /\ "pop" \in WorkPc /\ "return" \in WorkPc /\ "tosleep" \in WorkPc
      /\ "asleep" \in WorkPc /\ "waking" \in WorkPc /\ "ended" \in WorkPc
      /\ "poll" \in WorkPc /\ "wake" \in WorkPc
      /\ "idle" \in MakePc /\ "create" \in MakePc /\ "init" \in MakePc
      /\ "launched" \in MakePc /\ "refused" \in MakePc /\ "mqrelease" \in MakePc
      /\ "idle" \in ActPc /\ "grab" \in ActPc /\ "push" \in ActPc
      /\ "release" \in ActPc
      /\ "sending" \in Fates /\ "boxed" \in Fates /\ "taken" \in Fates
      /\ "handled" \in Fates /\ "dropped" \in Fates /\ "refused" \in Fates
  BY DEF WorkPc, MakePc, ActPc, Fates
<1>t. TypeOK
  BY <1>0
<1> USE DEF mqVars, ctxVars, workVars, makeVars, actVars, delVars, sleepVars,
            mailVars, ActTop, DropTop, MakeTop, WorkTop, Goto, Turn, SomeService
<1>1. ASSUME NEW t \in Thread, MarkRelease(t) PROVE TypeOK'
  BY <1>t, <1>w, <1>a, <1>c, <1>e, <1>1 DEF MarkRelease, TypeOK
<1>2. ASSUME NEW t \in Thread, FreeContext(t) PROVE TypeOK'
  <2>1. total' \in Int
    BY <1>c, <1>2 DEF FreeContext
  <2> QED
    BY <1>t, <1>w, <2>1, <1>2 DEF FreeContext, TypeOK
<1>3. ASSUME NEW t \in Thread, SendGrab(t) PROVE TypeOK'
  BY <1>t, <1>w, <1>a, <1>3 DEF SendGrab, TypeOK
<1>4. ASSUME NEW t \in Thread, SendRefused(t) PROVE TypeOK'
  BY <1>t, <1>w, <1>a, <1>4 DEF SendRefused, TypeOK
<1>5. ASSUME NEW t \in Thread, SendPush(t) PROVE TypeOK'
  BY <1>t, <1>w, <1>a, <1>c, <1>e, <1>5 DEF SendPush, TypeOK
<1>6. ASSUME NEW t \in Thread, ActRelease(t) PROVE TypeOK'
  <2>1. tgt[t] \in Service
    BY <1>a, <1>6 DEF ActRelease, Release
  <2>2. <<"act", t>> \in Holders(tgt[t])
    BY <2>1, <1>6 DEF ActRelease, Release, Holders
  <2>3. ref[tgt[t]] - 1 \in Nat
    BY <2>1, <2>2, Held, <1>0
  <2>4. /\ ref' = [ref EXCEPT ![tgt[t]] = @ - 1]
        /\ \/ /\ del' = [del EXCEPT ![t] = "mark"]
              /\ dead' = [dead EXCEPT ![t] = tgt[t]]
           \/ UNCHANGED delVars
    BY <1>6 DEF ActRelease, Release
  <2>5. ref' \in [Service -> Nat]
    BY <1>t, <2>3, <2>4 DEF TypeOK
  <2>6. /\ del' \in [Thread -> {"idle", "mark", "free"}]
        /\ dead' \in [Thread -> SomeService]
    BY <1>t, <2>1, <2>4 DEF TypeOK
  <2>7. /\ act' \in [Thread -> ActPc] /\ tgt' \in [Thread -> SomeService]
        /\ mail' \in [Thread -> Mail \cup {None}]
    BY <1>t, <1>w, <1>6 DEF ActRelease, TypeOK
  <2>8. UNCHANGED <<mqVars, ctx, slot, total, workVars, makeVars, dropping,
                    sleepVars, mailVars>>
    BY <1>6 DEF ActRelease
  <2> QED
    BY <1>t, <2>5, <2>6, <2>7, <2>8 DEF TypeOK
<1>7. ASSUME NEW t \in Thread, DropMessage(t) PROVE TypeOK'
  <2>1. /\ dropping[t] \in Service
        /\ Head(queue[dropping[t]]) \in Mail
        /\ Tail(queue[dropping[t]]) \in Seq(Mail)
    BY <1>0, <1>7, DropsMail
  <2>2. queue' \in [Service -> Seq(Mail)]
    BY <1>t, <1>w, <2>1, <1>7 DEF DropMessage, TypeOK
  <2>3. fate' \in [Mail -> Fates]
    BY <1>t, <1>w, <1>7 DEF DropMessage, TypeOK
  <2>4. CASE Head(queue[dropping[t]]) \in Msg /\ src[Head(queue[dropping[t]])] # None
    <3>1. ErrorOf(Head(queue[dropping[t]])) \in Mail
      BY <2>4 DEF Mail
    <3>2. src[Head(queue[dropping[t]])] \in Service
      BY <1>t, <2>1, <2>4 DEF TypeOK, SomeService
    <3>4. /\ act' = [act EXCEPT ![t] = "grab"]
          /\ tgt' = [tgt EXCEPT ![t] = src[Head(queue[dropping[t]])]]
          /\ mail' = [mail EXCEPT ![t] = ErrorOf(Head(queue[dropping[t]]))]
          /\ src' = [src EXCEPT ![ErrorOf(Head(queue[dropping[t]]))] = dropping[t]]
      BY <2>4, <1>7 DEF DropMessage
    <3>3. /\ act' \in [Thread -> ActPc] /\ tgt' \in [Thread -> SomeService]
          /\ mail' \in [Thread -> Mail \cup {None}] /\ src' \in [Mail -> SomeService]
      BY <1>t, <1>w, <2>1, <3>1, <3>2, <3>4 DEF TypeOK
    <3> QED
      BY <1>t, <2>2, <2>3, <3>3, <1>7 DEF DropMessage, TypeOK
  <2>5. CASE ~(Head(queue[dropping[t]]) \in Msg /\ src[Head(queue[dropping[t]])] # None)
    BY <1>t, <1>w, <2>1, <2>2, <2>3, <2>5, <1>7 DEF DropMessage, TypeOK
  <2> QED
    BY <2>4, <2>5
<1>8. ASSUME NEW t \in Thread, DropEnd(t) PROVE TypeOK'
  BY <1>t, <1>w, <1>a, <1>8 DEF DropEnd, TypeOK
<1>9. ASSUME NEW t \in Thread, Create(t) PROVE TypeOK'
  BY <1>t, <1>w, <1>a, <1>c, <1>e, <1>9 DEF Create, TypeOK
<1>10. ASSUME NEW t \in Thread, InitDone(t) PROVE TypeOK'
  <2>1. new[t] \in Service
    BY <1>a, <1>10 DEF InitDone, Release
  <2>2. <<"launch", t>> \in Holders(new[t])
    BY <2>1, <1>10 DEF InitDone, Release, Holders
  <2>3. ref[new[t]] - 1 \in Nat
    BY <2>1, <2>2, Held, <1>0
  <2>4. /\ ref' = [ref EXCEPT ![new[t]] = @ - 1]
        /\ \/ /\ del' = [del EXCEPT ![t] = "mark"]
              /\ dead' = [dead EXCEPT ![t] = new[t]]
           \/ UNCHANGED delVars
    BY <1>10 DEF InitDone, Release
  <2>5. make' \in [Thread -> MakePc]
    BY <1>t, <1>w, <1>10 DEF InitDone, Release, TypeOK
  <2> QED
    <3>1. UNCHANGED <<mqVars, ctx, slot, total, workVars, new, dropping, actVars,
                      sleepVars, mailVars>>
      BY <1>10 DEF InitDone
    <3>2. ref' \in [Service -> Nat]
      BY <1>t, <2>3, <2>4 DEF TypeOK
    <3>3. /\ del' \in [Thread -> {"idle", "mark", "free"}]
          /\ dead' \in [Thread -> SomeService]
      BY <1>t, <2>1, <2>4 DEF TypeOK
    <3> QED
      BY <1>t, <2>5, <3>1, <3>2, <3>3 DEF TypeOK
<1>11. ASSUME NEW t \in Thread, Launched(t) PROVE TypeOK'
  BY <1>t, <1>w, <1>a, <1>c, <1>e, <1>11 DEF Launched, TypeOK
<1>12. ASSUME NEW t \in Thread, Refused(t) PROVE TypeOK'
  <2>1. CASE slot[new[t]]
    <3>1. new[t] \in Service
      BY <1>12, <1>a DEF Refused
    <3>2. /\ slot' = slot \/ slot' = [slot EXCEPT ![new[t]] = FALSE]
          /\ act' = act \/ act' = [act EXCEPT ![t] = "release"]
          /\ tgt' = tgt \/ tgt' = [tgt EXCEPT ![t] = new[t]]
      BY <1>12 DEF Refused, Retire
    <3>3. /\ slot' \in [Service -> BOOLEAN] /\ act' \in [Thread -> ActPc]
          /\ tgt' \in [Thread -> SomeService]
      <4>1. /\ slot \in [Service -> BOOLEAN] /\ act \in [Thread -> ActPc]
            /\ tgt \in [Thread -> SomeService]
        BY <1>t DEF TypeOK
      <4>2. slot' \in [Service -> BOOLEAN]
        BY <3>1, <3>2, <4>1
      <4>3. act' \in [Thread -> ActPc]
        BY <1>w, <3>2, <4>1
      <4>4. tgt' \in [Thread -> SomeService]
        BY <3>1, <3>2, <4>1
      <4> QED
        BY <4>2, <4>3, <4>4
    <3>4. make' \in [Thread -> MakePc]
      BY <1>t, <1>w, <1>12 DEF Refused, TypeOK
    <3>5. UNCHANGED <<mqVars, ctx, ref, total, workVars, new, dropping, mail,
                      delVars, sleepVars, mailVars>>
      BY <1>12 DEF Refused
    <3> QED
      BY <1>t, <3>3, <3>4, <3>5 DEF TypeOK
  <2>2. CASE ~slot[new[t]]
    BY <1>t, <1>w, <1>12, <2>2, <1>a DEF Refused, Retire, TypeOK
  <2> QED
    BY <2>1, <2>2
<1>13. ASSUME NEW t \in Thread, RefusedMq(t) PROVE TypeOK'
  <2>1. new[t] \in Service
    BY <1>a, <1>13 DEF RefusedMq, MqRelease
  <2>2. global' \in Seq(Service)
    BY <2>1, <1>e, <1>g, <1>13 DEF RefusedMq, MqRelease
  <2>3. \/ dropping' = dropping
        \/ dropping' = [dropping EXCEPT ![t] = new[t]]
    BY <1>13 DEF RefusedMq, MqRelease
  <2> QED
    BY <1>t, <1>w, <2>1, <2>2, <2>3, <1>13 DEF RefusedMq, MqRelease, TypeOK
<1>14. ASSUME NEW t \in Thread, Top(t) PROVE TypeOK'
  BY <1>t, <1>w, <1>a, <1>14 DEF Top, TypeOK
<1>15. ASSUME NEW t \in Thread, PopGlobal(t) PROVE TypeOK'
  <2>1. CASE global = <<>>
    <3>1. /\ work' = [work EXCEPT ![t] = "tosleep"]
          /\ UNCHANGED <<global, cur, queue, inGlobal, release, mq, ctxVars, nxt, hold,
                         left, hand, makeVars, dropping, actVars, delVars, sleepVars,
                         mailVars>>
      BY <1>15, <2>1 DEF PopGlobal
    <3>2. "tosleep" \in WorkPc /\ work \in [Thread -> WorkPc]
      BY <1>t DEF TypeOK, WorkPc
    <3>3. work' \in [Thread -> WorkPc]
      BY ONLY <3>1, <3>2
    <3> QED
      BY <1>t, <3>1, <3>3 DEF TypeOK
  <2>2. CASE global # <<>>
    <3>1. cur' \in [Thread -> SomeService]
      <4>1. cur' = [cur EXCEPT ![t] = Head(global)]
        BY <1>15, <2>2 DEF PopGlobal
      <4>2. cur \in [Thread -> SomeService]
        BY <1>t DEF TypeOK
      <4> QED
        BY <1>b, <2>2, <4>1, <4>2
    <3>2. global' \in Seq(Service)
      BY <1>15, <2>2, <1>b DEF PopGlobal
    <3>3. work' \in [Thread -> WorkPc]
      <4>1. \E pc \in {"grab", "top"} : work' = [work EXCEPT ![t] = pc]
        BY <1>15, <2>2 DEF PopGlobal
      <4>2. work \in [Thread -> WorkPc]
        BY <1>t DEF TypeOK
      <4> QED
        BY <1>w, <4>1, <4>2
    <3>4. UNCHANGED <<queue, inGlobal, release, mq, ctxVars, nxt, hold, left, hand,
                      makeVars, dropping, actVars, delVars, sleepVars, mailVars>>
      BY <1>15 DEF PopGlobal
    <3> QED
      BY <1>t, <3>1, <3>2, <3>3, <3>4 DEF TypeOK
  <2> QED
    BY <2>1, <2>2
<1>16. ASSUME NEW t \in Thread, Grab(t) PROVE TypeOK'
  <2>1. CASE slot[cur[t]]
    <3>1. cur[t] \in Service /\ ref[cur[t]] + 1 \in Nat
      BY <1>t, <1>a, <1>16 DEF Grab, TypeOK
    <3> QED
      <4>a. /\ ref \in [Service -> Nat] /\ hold \in [Thread -> SomeService]
            /\ work \in [Thread -> WorkPc]
        BY <1>t DEF TypeOK
      <4>b. /\ ref' = [ref EXCEPT ![cur[t]] = @ + 1]
            /\ hold' = [hold EXCEPT ![t] = cur[t]]
            /\ work' = [work EXCEPT ![t] = "first"]
        BY <1>16, <2>1 DEF Grab
      <4>1. ref' \in [Service -> Nat]
        BY <3>1, <4>a, <4>b
      <4>2. hold' \in [Thread -> SomeService]
        BY <3>1, <4>a, <4>b
      <4>3. work' \in [Thread -> WorkPc]
        BY <1>w, <4>a, <4>b
      <4>4. UNCHANGED <<mqVars, ctx, slot, total, cur, nxt, left, hand, makeVars,
                        dropping, actVars, delVars, sleepVars, mailVars>>
        BY <1>16 DEF Grab
      <4> QED
        BY <1>t, <4>1, <4>2, <4>3, <4>4 DEF TypeOK
  <2>2. CASE ~slot[cur[t]]
    BY <1>t, <1>w, <1>16, <2>2, <1>a DEF Grab, TypeOK
  <2> QED
    BY <2>1, <2>2
<1>17. ASSUME NEW t \in Thread, WorkMqRelease(t) PROVE TypeOK'
  <2>1. cur[t] \in Service
    BY <1>a, <1>17 DEF WorkMqRelease, MqRelease
  <2>2. global' \in Seq(Service)
    BY <2>1, <1>e, <1>g, <1>17 DEF WorkMqRelease, MqRelease
  <2>3. \/ dropping' = dropping
        \/ dropping' = [dropping EXCEPT ![t] = cur[t]]
    BY <1>17 DEF WorkMqRelease, MqRelease
  <2> QED
    BY <1>t, <1>w, <2>1, <2>2, <2>3, <1>17 DEF WorkMqRelease, MqRelease, TypeOK
<1>18. ASSUME NEW t \in Thread, PopMail(t) PROVE TypeOK'
  <2>1. /\ cur[t] \in Service
        /\ Head(queue[cur[t]]) \in Mail
        /\ Tail(queue[cur[t]]) \in Seq(Mail)
    BY <1>0, <1>18, PopsMail
  <2>2. queue' \in [Service -> Seq(Mail)]
    BY <1>t, <1>w, <2>1, <1>18 DEF PopMail, TypeOK
  <2>3. fate' \in [Mail -> Fates] /\ hand' \in [Thread -> Mail \cup {None}]
    BY <1>t, <1>w, <2>1, <1>18 DEF PopMail, TypeOK
  <2>4. left' \in [Thread -> Nat]
    <3>1. TurnLeft(t, Tail(queue[cur[t]])) \in Nat
      <4>1. t \in Worker
        BY <1>0, <1>18 DEF LayerInv, PopMail, Thread
      <4>2. Len(Tail(queue[cur[t]])) \in Nat
        BY <2>1
      <4>3. WeightOf[t] # -1 => 2 ^ WeightOf[t] \in Nat \ {0}
        BY <4>1, SkynetMqAssumption
      <4> QED
        BY <4>2, <4>3 DEF TurnLeft
    <3>2. work[t] = "more" => left[t] - 1 \in Nat
      BY <1>0, <1>18 DEF LayerInv, TypeOK
    <3> QED
      BY <1>t, <3>1, <3>2, <1>18 DEF PopMail, TypeOK
  <2> QED
    BY <1>t, <1>w, <2>1, <2>2, <2>3, <2>4, <1>18 DEF PopMail, TypeOK
<1>19. ASSUME NEW t \in Thread, PopEmpty(t) PROVE TypeOK'
  BY <1>t, <1>w, <1>a, <1>19 DEF PopEmpty, TypeOK
<1>20. ASSUME NEW t \in Thread, Handled(t) PROVE TypeOK'
  BY <1>t, <1>w, <1>a, <1>20 DEF Handled, TypeOK
<1>21. ASSUME NEW t \in Thread, NextMq(t) PROVE TypeOK'
  <2>1. CASE global = <<>>
    BY <1>t, <1>w, <1>21, <2>1, <1>b DEF NextMq, TypeOK
  <2>2. CASE global # <<>>
    <3>1. nxt' \in [Thread -> SomeService]
      <4>1. nxt' = [nxt EXCEPT ![t] = Head(global)]
        BY <1>21, <2>2 DEF NextMq
      <4>2. nxt \in [Thread -> SomeService]
        BY <1>t DEF TypeOK
      <4> QED
        BY <1>b, <2>2, <4>1, <4>2
    <3>2. global' \in Seq(Service)
      BY <1>21, <2>2, <1>b DEF NextMq
    <3>3. work' \in [Thread -> WorkPc]
      BY <1>t, <1>w, <1>21, <2>2 DEF NextMq, TypeOK
    <3>4. UNCHANGED <<queue, inGlobal, release, mq, ctxVars, cur, hold, left, hand,
                      makeVars, dropping, actVars, delVars, sleepVars, mailVars>>
      BY <1>21 DEF NextMq
    <3> QED
      BY <1>t, <3>1, <3>2, <3>3, <3>4 DEF TypeOK
  <2> QED
    BY <2>1, <2>2
<1>22. ASSUME NEW t \in Thread, PushBack(t) PROVE TypeOK'
  <2>1. cur[t] \in Service /\ nxt[t] \in Service
    BY <1>a, <1>22 DEF PushBack
  <2>2. global' \in Seq(Service)
    BY <2>1, <1>e, <1>22 DEF PushBack
  <2> QED
    BY <1>t, <1>w, <2>1, <2>2, <1>22 DEF PushBack, TypeOK
<1>23. ASSUME NEW t \in Thread, TurnRelease(t) PROVE TypeOK'
  <2>1. hold[t] \in Service
    BY <1>a, <1>23 DEF TurnRelease, Release
  <2>2. <<"turn", t>> \in Holders(hold[t])
    BY <2>1, <1>23 DEF TurnRelease, Release, Holders
  <2>3. ref[hold[t]] - 1 \in Nat
    BY <2>1, <2>2, Held, <1>0
  <2>4. /\ ref' = [ref EXCEPT ![hold[t]] = @ - 1]
        /\ \/ /\ del' = [del EXCEPT ![t] = "mark"]
              /\ dead' = [dead EXCEPT ![t] = hold[t]]
           \/ UNCHANGED delVars
    BY <1>23 DEF TurnRelease, Release
  <2>5. ref' \in [Service -> Nat]
    BY <1>t, <2>3, <2>4 DEF TypeOK
  <2>6. /\ del' \in [Thread -> {"idle", "mark", "free"}]
        /\ dead' \in [Thread -> SomeService]
    BY <1>t, <2>1, <2>4 DEF TypeOK
  <2>7. hold' \in [Thread -> SomeService]
    BY <1>t, <1>23 DEF TurnRelease, TypeOK
  <2>8. work' \in [Thread -> WorkPc]
    BY <1>t, <1>w, <1>23 DEF TurnRelease, TypeOK
  <2>9. UNCHANGED <<mqVars, ctx, slot, total, cur, nxt, left, hand, makeVars,
                    dropping, actVars, sleepVars, mailVars>>
    BY <1>23 DEF TurnRelease
  <2> QED
    BY <1>t, <2>5, <2>6, <2>7, <2>8, <2>9 DEF TypeOK
<1>24. ASSUME NEW t \in Thread, GoToSleep(t) PROVE TypeOK'
  <2>1. sleep' \in Int
    BY <1>d, <1>24 DEF GoToSleep
  <2>2. work' \in [Thread -> WorkPc]
    BY <1>t, <1>w, <1>24 DEF GoToSleep, TypeOK
  <2>3. UNCHANGED <<mqVars, ctxVars, cur, nxt, hold, left, hand, makeVars,
                    dropping, actVars, delVars, quit, mailVars>>
    BY <1>24 DEF GoToSleep
  <2> QED
    BY <1>t, <2>1, <2>2, <2>3 DEF TypeOK
<1>25. ASSUME NEW t \in Thread, WakeUp(t) PROVE TypeOK'
  <2>1. sleep' \in Int
    BY <1>d, <1>25 DEF WakeUp
  <2>2. work' \in [Thread -> WorkPc]
    BY <1>t, <1>w, <1>25 DEF WakeUp, TypeOK
  <2>3. UNCHANGED <<mqVars, ctxVars, cur, nxt, hold, left, hand, makeVars,
                    dropping, actVars, delVars, quit, mailVars>>
    BY <1>25 DEF WakeUp
  <2> QED
    BY <1>t, <2>1, <2>2, <2>3 DEF TypeOK
<1>26. ASSUME NEW t \in Thread, SocketWake(t) PROVE TypeOK'
  <2>1. [work EXCEPT ![t] = "poll"] \in [Thread -> WorkPc]
    BY <1>t, <1>w DEF TypeOK
  <2>2. \/ work' = [work EXCEPT ![t] = "poll"]
        \/ \E u \in Thread : work' = [[work EXCEPT ![t] = "poll"] EXCEPT ![u] = "waking"]
    BY <1>26 DEF SocketWake, Signal, Thread
  <2>3. work' \in [Thread -> WorkPc]
    BY <1>w, <2>1, <2>2
  <2> QED
    BY <1>t, <1>w, <2>1, <2>2, <2>3, <1>26 DEF SocketWake, Signal, Thread, TypeOK
<1>27. ASSUME NEW t \in Thread, NEW s \in Service, Kill(t, s) PROVE TypeOK'
  BY <1>t, <1>w, <1>a, <1>27 DEF Kill, Retire, TypeOK
<1>28. ASSUME NEW t \in Thread, NEW s \in Service, Register(t, s) PROVE TypeOK'
  BY <1>t, <1>w, <1>a, <1>28 DEF Register, TypeOK
<1>29. ASSUME NEW t \in Thread, NEW s \in Service, NEW m \in Msg, BeginSend(t, s, m)
       PROVE  TypeOK'
  <2>1. s # None /\ m \in Mail /\ Self(t) \in SomeService
    BY <1>t, <1>w, <1>a, SkynetMqAssumption, <1>29 DEF BeginSend, Running, TypeOK,
       Self, Mail
  <2>2. work' \in [Thread -> WorkPc]
    BY <1>t, <1>w, <1>29 DEF BeginSend, Running, TypeOK
  <2> QED
    BY <1>t, <1>w, <2>1, <2>2, <1>29 DEF BeginSend, Running, TypeOK
<1>30. ASSUME Tick PROVE TypeOK'
  <2>1. work \in [Thread -> WorkPc]
    BY <1>t DEF TypeOK
  <2>2. \/ work' = work
        \/ \E t \in Thread : work' = [work EXCEPT ![t] = "waking"]
    BY <1>30 DEF Tick, Signal, Thread
  <2>3. work' \in [Thread -> WorkPc]
    BY <1>w, <2>1, <2>2
  <2>4. UNCHANGED <<mqVars, ctxVars, cur, nxt, hold, left, hand, makeVars,
                    dropping, actVars, delVars, sleepVars, mailVars>>
    BY <1>30 DEF Tick
  <2> QED
    BY <1>t, <2>3, <2>4 DEF TypeOK
<1>31. ASSUME Abort PROVE TypeOK'
  BY <1>t, <1>w, <1>a, <1>31 DEF Abort, TypeOK
<1>32. CASE UNCHANGED vars
  BY <1>t, <1>w, <1>32 DEF vars, TypeOK
<1> QED
  BY NextCases, <1>1, <1>2, <1>3, <1>4, <1>5, <1>6, <1>7, <1>8, <1>9, <1>10,
     <1>11, <1>12, <1>13, <1>14, <1>15, <1>16, <1>17, <1>18, <1>19, <1>20,
     <1>21, <1>22, <1>23, <1>24, <1>25, <1>26, <1>27, <1>28, <1>29, <1>30,
     <1>31, <1>32 DEF ThreadStep
-----------------------------------------------------------------------------
(* References.                                                             *)

LEMMA AddOne ==
  ASSUME NEW H, NEW G, NEW x, IsFiniteSet(H), x \notin H, G = H \cup {x}
  PROVE  Cardinality(G) = Cardinality(H) + 1
BY FS_AddElement

LEMMA TakeOne ==
  ASSUME NEW H, NEW G, NEW x, IsFiniteSet(H), x \in H, G = H \ {x}
  PROVE  Cardinality(G) = Cardinality(H) - 1
BY FS_RemoveElement

LEMMA SwapOne ==
  ASSUME NEW H, NEW G, NEW x, NEW y, IsFiniteSet(H), x \in H, y \notin H,
         G = (H \ {x}) \cup {y}
  PROVE  Cardinality(G) = Cardinality(H)
<1>1. IsFiniteSet(H \ {x}) /\ Cardinality(H \ {x}) = Cardinality(H) - 1
  BY FS_RemoveElement
<1>2. y \notin H \ {x}
  OBVIOUS
<1>3. Cardinality(H) \in Nat
  BY FS_CardinalityType
<1>4. Cardinality(G) = Cardinality(H \ {x}) + 1
  BY <1>1, <1>2, AddOne
<1> QED
  BY <1>1, <1>3, <1>4

\* A service that is being created is in the storage without its handle.
LEMMA NotCreating ==
  ASSUME MqInv, NEW s \in Service
  PROVE  /\ slot[s] => ~Creating(s)
         /\ \A t \in Thread : new[t] = s /\ make[t] # "create" => ~Creating(s)
<1>1. slot[s] => ~Creating(s)
  BY DEF MqInv, LifeInv
<1>2. ASSUME NEW t \in Thread, new[t] = s, make[t] # "create" PROVE ~Creating(s)
  BY <1>2, SkynetMqAssumption DEF MqInv, OnceInv, Creating
<1> QED
  BY <1>1, <1>2

LEMMA CountStep ==
  ASSUME MqInv, [Next]_vars, NEW s \in Service
  PROVE  ref'[s] = Cardinality(Holders(s)')
<1>0. /\ TypeOK /\ (\A t \in Thread : LayerInv(t))
      /\ ref[s] = Cardinality(Holders(s)) /\ IsFiniteSet(Holders(s))
      /\ s # None
  BY HoldersFinite, SkynetMqAssumption DEF MqInv, RefsCounted
<1>a. ASSUME UNCHANGED <<ref, slot, hold, tgt, act, new, make>>
      PROVE  ref'[s] = Cardinality(Holders(s)')
  BY <1>0, <1>a DEF Holders, Creating
<1>b. ASSUME UNCHANGED ref, Holders(s)' = Holders(s)
      PROVE  ref'[s] = Cardinality(Holders(s)')
  BY <1>0, <1>b
<1> USE DEF mqVars, ctxVars, workVars, makeVars, actVars, delVars, sleepVars,
            mailVars, ActTop, DropTop, MakeTop, WorkTop, Goto
<1>1. ASSUME NEW t \in Thread, MarkRelease(t)
      PROVE  ref'[s] = Cardinality(Holders(s)')
  BY <1>a, <1>1 DEF MarkRelease
<1>2. ASSUME NEW t \in Thread, FreeContext(t)
      PROVE  ref'[s] = Cardinality(Holders(s)')
  BY <1>a, <1>2 DEF FreeContext
<1>3. ASSUME NEW t \in Thread, SendGrab(t)
      PROVE  ref'[s] = Cardinality(Holders(s)')
  <2>1. CASE tgt[t] = s
    <3>1. Holders(s)' = Holders(s) \cup {<<"act", t>>}
      BY <1>0, <1>3, <2>1 DEF SendGrab, TypeOK, Holders, Creating
    <3>2. <<"act", t>> \notin Holders(s)
      BY <1>0, <1>3, <2>1 DEF SendGrab, TypeOK, Holders, Creating
    <3>3. ref'[s] = ref[s] + 1
      BY <1>0, <1>3, <2>1 DEF SendGrab, TypeOK
    <3> QED
      BY <1>0, <3>1, <3>2, <3>3, AddOne
  <2>2. CASE tgt[t] # s
    <3>1. Holders(s)' = Holders(s) /\ ref'[s] = ref[s]
      BY <1>0, <1>3, <2>2 DEF SendGrab, TypeOK, Holders, Creating
    <3> QED
      BY <1>0, <3>1
  <2> QED
    BY <2>1, <2>2
<1>4. ASSUME NEW t \in Thread, SendRefused(t)
      PROVE  ref'[s] = Cardinality(Holders(s)')
  BY <1>0, <1>b, <1>4 DEF SendRefused, TypeOK, Holders, Creating
<1>5. ASSUME NEW t \in Thread, SendPush(t)
      PROVE  ref'[s] = Cardinality(Holders(s)')
  BY <1>0, <1>b, <1>5 DEF SendPush, TypeOK, Holders, Creating
<1>6. ASSUME NEW t \in Thread, ActRelease(t)
      PROVE  ref'[s] = Cardinality(Holders(s)')
  <2>1. CASE tgt[t] = s
    <3>1. Holders(s)' = Holders(s) \ {<<"act", t>>}
      BY <1>0, <1>6, <2>1 DEF ActRelease, Release, TypeOK, Holders, Creating
    <3>2. <<"act", t>> \in Holders(s)
      BY <1>0, <1>6, <2>1 DEF ActRelease, Release, TypeOK, Holders, Creating
    <3>3. ref'[s] = ref[s] - 1
      BY <1>0, <1>6, <2>1 DEF ActRelease, Release, TypeOK
    <3> QED
      BY <1>0, <3>1, <3>2, <3>3, TakeOne
  <2>2. CASE tgt[t] # s
    <3>1. Holders(s)' = Holders(s) /\ ref'[s] = ref[s]
      BY <1>0, <1>6, <2>2 DEF ActRelease, Release, TypeOK, Holders, Creating
    <3> QED
      BY <1>0, <3>1
  <2> QED
    BY <2>1, <2>2
<1>7. ASSUME NEW t \in Thread, DropMessage(t)
      PROVE  ref'[s] = Cardinality(Holders(s)')
  BY <1>0, <1>b, <1>7 DEF DropMessage, Mail, TypeOK, Holders, Creating
<1>8. ASSUME NEW t \in Thread, DropEnd(t)
      PROVE  ref'[s] = Cardinality(Holders(s)')
  BY <1>a, <1>8 DEF DropEnd
<1>9. ASSUME NEW t \in Thread, Create(t)
      PROVE  ref'[s] = Cardinality(Holders(s)')
  BY <1>0, <1>b, <1>9 DEF Create, TypeOK, Holders, Creating
<1>10. ASSUME NEW t \in Thread, InitDone(t)
      PROVE  ref'[s] = Cardinality(Holders(s)')
  <2>1. CASE new[t] = s
    <3>1. Holders(s)' = Holders(s) \ {<<"launch", t>>}
      BY <1>0, <1>10, <2>1 DEF InitDone, Release, TypeOK, Holders, Creating
    <3>2. <<"launch", t>> \in Holders(s)
      BY <1>0, <1>10, <2>1 DEF InitDone, Release, TypeOK, Holders, Creating
    <3>3. ref'[s] = ref[s] - 1
      BY <1>0, <1>10, <2>1 DEF InitDone, Release, TypeOK
    <3> QED
      BY <1>0, <3>1, <3>2, <3>3, TakeOne
  <2>2. CASE new[t] # s
    <3>1. Holders(s)' = Holders(s) /\ ref'[s] = ref[s]
      BY <1>0, <1>10, <2>2 DEF InitDone, Release, TypeOK, Holders, Creating
    <3> QED
      BY <1>0, <3>1
  <2> QED
    BY <2>1, <2>2
<1>11. ASSUME NEW t \in Thread, Launched(t)
      PROVE  ref'[s] = Cardinality(Holders(s)')
  BY <1>0, <1>b, <1>11 DEF Launched, TypeOK, Holders, Creating
<1>12. ASSUME NEW t \in Thread, Refused(t)
      PROVE  ref'[s] = Cardinality(Holders(s)')
  <2>1. CASE new[t] = s /\ slot[s]
    <3>1. ~Creating(s) /\ ~Creating(s)'
      BY <1>0, <1>12, <2>1, NotCreating DEF Refused, Retire, TypeOK, Holders,
         Creating
    <3>2. Holders(s)' = (Holders(s) \ {<<"storage", s>>}) \cup {<<"act", t>>}
      BY <1>0, <1>12, <2>1, <3>1 DEF Refused, Retire, TypeOK, Holders, Creating
    <3>3. <<"storage", s>> \in Holders(s) /\ <<"act", t>> \notin Holders(s)
      BY <1>0, <1>12, <2>1 DEF Refused, Retire, Holders, Creating
    <3>4. ref'[s] = ref[s]
      BY <1>12 DEF Refused, Retire
    <3> QED
      BY <1>0, <3>2, <3>3, <3>4, SwapOne
  <2>2. CASE ~(new[t] = s /\ slot[s])
    BY <1>0, <1>b, <1>12, <2>2 DEF Refused, Retire, TypeOK, Holders, Creating
  <2> QED
    BY <2>1, <2>2
<1>13. ASSUME NEW t \in Thread, RefusedMq(t)
      PROVE  ref'[s] = Cardinality(Holders(s)')
  BY <1>0, <1>b, <1>13 DEF RefusedMq, MqRelease, TypeOK, Holders, Creating
<1>14. ASSUME NEW t \in Thread, Top(t)
      PROVE  ref'[s] = Cardinality(Holders(s)')
  BY <1>a, <1>14 DEF Top
<1>15. ASSUME NEW t \in Thread, PopGlobal(t)
      PROVE  ref'[s] = Cardinality(Holders(s)')
  BY <1>a, <1>15 DEF PopGlobal
<1>16. ASSUME NEW t \in Thread, Grab(t)
      PROVE  ref'[s] = Cardinality(Holders(s)')
  <2>1. CASE slot[cur[t]] /\ cur[t] = s
    <3>1. Holders(s)' = Holders(s) \cup {<<"turn", t>>}
      BY <1>0, <1>16, <2>1 DEF Grab, TypeOK, Holders, Creating
    <3>2. <<"turn", t>> \notin Holders(s)
      BY <1>0, <1>16, <2>1, SkynetMqAssumption DEF Grab, LayerInv, Turn, Holders,
         Creating
    <3>3. ref'[s] = ref[s] + 1
      BY <1>0, <1>16, <2>1 DEF Grab, TypeOK
    <3> QED
      BY <1>0, <3>1, <3>2, <3>3, AddOne
  <2>2. CASE ~slot[cur[t]]
    BY <1>a, <1>16, <2>2 DEF Grab
  <2>3. CASE slot[cur[t]] /\ cur[t] # s
    <3>1. hold[t] # s
      BY <1>0, <1>16, SkynetMqAssumption DEF Grab, LayerInv, Turn
    <3>2. Holders(s)' = Holders(s) /\ ref'[s] = ref[s]
      BY <1>0, <1>16, <2>3, <3>1 DEF Grab, TypeOK, Holders, Creating
    <3> QED
      BY <1>0, <3>2
  <2> QED
    BY <2>1, <2>2, <2>3
<1>17. ASSUME NEW t \in Thread, WorkMqRelease(t)
      PROVE  ref'[s] = Cardinality(Holders(s)')
  BY <1>a, <1>17 DEF WorkMqRelease, MqRelease
<1>18. ASSUME NEW t \in Thread, PopMail(t)
      PROVE  ref'[s] = Cardinality(Holders(s)')
  BY <1>a, <1>18 DEF PopMail
<1>19. ASSUME NEW t \in Thread, PopEmpty(t)
      PROVE  ref'[s] = Cardinality(Holders(s)')
  BY <1>a, <1>19 DEF PopEmpty
<1>20. ASSUME NEW t \in Thread, Handled(t)
      PROVE  ref'[s] = Cardinality(Holders(s)')
  BY <1>a, <1>20 DEF Handled
<1>21. ASSUME NEW t \in Thread, NextMq(t)
      PROVE  ref'[s] = Cardinality(Holders(s)')
  BY <1>a, <1>21 DEF NextMq
<1>22. ASSUME NEW t \in Thread, PushBack(t)
      PROVE  ref'[s] = Cardinality(Holders(s)')
  BY <1>a, <1>22 DEF PushBack
<1>23. ASSUME NEW t \in Thread, TurnRelease(t)
      PROVE  ref'[s] = Cardinality(Holders(s)')
  <2>1. CASE hold[t] = s
    <3>1. Holders(s)' = Holders(s) \ {<<"turn", t>>}
      BY <1>0, <1>23, <2>1 DEF TurnRelease, Release, TypeOK, Holders, Creating
    <3>2. <<"turn", t>> \in Holders(s)
      BY <1>0, <1>23, <2>1 DEF TurnRelease, Release, TypeOK, Holders, Creating
    <3>3. ref'[s] = ref[s] - 1
      BY <1>0, <1>23, <2>1 DEF TurnRelease, Release, TypeOK
    <3> QED
      BY <1>0, <3>1, <3>2, <3>3, TakeOne
  <2>2. CASE hold[t] # s
    <3>1. Holders(s)' = Holders(s) /\ ref'[s] = ref[s]
      BY <1>0, <1>23, <2>2 DEF TurnRelease, Release, TypeOK, Holders, Creating
    <3> QED
      BY <1>0, <3>1
  <2> QED
    BY <2>1, <2>2
<1>24. ASSUME NEW t \in Thread, GoToSleep(t)
      PROVE  ref'[s] = Cardinality(Holders(s)')
  BY <1>a, <1>24 DEF GoToSleep
<1>25. ASSUME NEW t \in Thread, WakeUp(t)
      PROVE  ref'[s] = Cardinality(Holders(s)')
  BY <1>a, <1>25 DEF WakeUp
<1>26. ASSUME NEW t \in Thread, SocketWake(t)
      PROVE  ref'[s] = Cardinality(Holders(s)')
  BY <1>a, <1>26 DEF SocketWake, Signal, Thread
<1>27. ASSUME NEW t \in Thread, NEW v \in Service, Kill(t, v)
      PROVE  ref'[s] = Cardinality(Holders(s)')
  <2>1. CASE v = s /\ slot[s]
    <3>1. ~Creating(s) /\ ~Creating(s)'
      BY <1>0, <1>27, <2>1, NotCreating DEF Kill, Retire, Running, TypeOK, Holders,
         Creating
    <3>2. Holders(s)' = (Holders(s) \ {<<"storage", s>>}) \cup {<<"act", t>>}
      BY <1>0, <1>27, <2>1, <3>1 DEF Kill, Retire, Running, TypeOK, Holders,
         Creating
    <3>3. <<"storage", s>> \in Holders(s) /\ <<"act", t>> \notin Holders(s)
      BY <1>0, <1>27, <2>1 DEF Kill, Retire, Running, Holders, Creating
    <3>4. ref'[s] = ref[s]
      BY <1>27 DEF Kill, Retire, Running
    <3> QED
      BY <1>0, <3>2, <3>3, <3>4, SwapOne
  <2>2. CASE ~(v = s /\ slot[s])
    BY <1>0, <1>b, <1>27, <2>2 DEF Kill, Retire, Running, TypeOK, Holders, Creating
  <2> QED
    BY <2>1, <2>2
<1>28. ASSUME NEW t \in Thread, NEW v \in Service, Register(t, v)
      PROVE  ref'[s] = Cardinality(Holders(s)')
  <2>1. CASE v = s
    <3>1. ref[s] = 0 /\ ref'[s] = 2
      BY <1>0, <1>28, <2>1 DEF Register, MqInv, LifeInv, TypeOK
    <3>2. Holders(s) = {}
      BY <1>0, <3>1, FS_EmptySet
    <3>3. Holders(s)' = {<<"storage", s>>, <<"launch", t>>}
      BY <1>0, <1>28, <2>1, <3>2 DEF Register, TypeOK, Holders, Creating
    <3>4. Cardinality({<<"storage", s>>, <<"launch", t>>}) = 2
      <4>1. /\ IsFiniteSet({<<"storage", s>>}) /\ Cardinality({<<"storage", s>>}) = 1
            /\ <<"launch", t>> \notin {<<"storage", s>>}
            /\ {<<"storage", s>>, <<"launch", t>>}
                 = {<<"storage", s>>} \cup {<<"launch", t>>}
        BY FS_Singleton
      <4> QED
        BY <4>1, AddOne, 1 + 1 = 2
    <3> QED
      BY <3>1, <3>3, <3>4
  <2>2. CASE v # s
    <3>1. Holders(s)' = Holders(s) /\ ref'[s] = ref[s]
      BY <1>0, <1>28, <2>2 DEF Register, TypeOK, LayerInv, Holders, Creating
    <3> QED
      BY <1>0, <3>1
  <2> QED
    BY <2>1, <2>2
<1>29. ASSUME NEW t \in Thread, NEW v \in Service, NEW m \in Msg, BeginSend(t, v, m)
      PROVE  ref'[s] = Cardinality(Holders(s)')
  BY <1>0, <1>b, <1>29 DEF BeginSend, Running, TypeOK, Holders, Creating
<1>30. ASSUME Tick
      PROVE  ref'[s] = Cardinality(Holders(s)')
  BY <1>a, <1>30 DEF Tick, Signal, Thread
<1>31. ASSUME Abort
      PROVE  ref'[s] = Cardinality(Holders(s)')
  BY <1>a, <1>31 DEF Abort
<1>32. CASE UNCHANGED vars
  BY <1>a, <1>32 DEF vars
<1> QED
  BY NextCases, <1>1, <1>2, <1>3, <1>4, <1>5, <1>6, <1>7, <1>8, <1>9, <1>10,
     <1>11, <1>12, <1>13, <1>14, <1>15, <1>16, <1>17, <1>18, <1>19, <1>20,
     <1>21, <1>22, <1>23, <1>24, <1>25, <1>26, <1>27, <1>28, <1>29, <1>30,
     <1>31, <1>32 DEF ThreadStep
-----------------------------------------------------------------------------
(* The life of a service.                                                  *)

\* A service that is being launched was registered.
LEMMA NewExists ==
  ASSUME MqInv, NEW s \in Service, NEW t \in Thread, new[t] = s
  PROVE  ctx[s] # "none"
<1>1. CASE make[t] = "create"
  <2>1. <<"launch", t>> \in Holders(s)
    BY <1>1 DEF Holders
  <2> QED
    BY <2>1, Held DEF MqInv, LifeInv
<1>2. CASE make[t] # "create"
  BY <1>2 DEF MqInv, LifeInv
<1> QED
  BY <1>1, <1>2

\* A release that takes the last reference is the first to delete the context.
LEMMA NotDead ==
  ASSUME MqInv, NEW s \in Service, Holders(s) # {}
  PROVE  /\ \A t \in Thread : dead[t] # s
         /\ ctx[s] = "live" /\ mq[s] # "freed" /\ ~release[s]
<1>1. ref[s] \in Nat \ {0}
  BY Held DEF MqInv
<1>2. \A t \in Thread : dead[t] # s
  BY <1>1 DEF MqInv, LifeInv
<1>3. ctx[s] = "live"
  BY <1>1 DEF MqInv, LifeInv, RefsCounted, TypeOK
<1> QED
  BY <1>2, <1>3 DEF MqInv, LifeInv

LEMMA OnceStep ==
  ASSUME MqInv, [Next]_vars
  PROVE  OnceInv'
<1>0. TypeOK /\ (\A t \in Thread : LayerInv(t)) /\ OnceInv /\ None \notin Service
  BY SkynetMqAssumption DEF MqInv, RefsCounted
<1>a. ASSUME UNCHANGED <<new, dead>> PROVE OnceInv'
  BY <1>0, <1>a DEF OnceInv
<1>b. ASSUME NEW t \in Thread, NEW s \in Service, UNCHANGED new,
             Release(t, s), Holders(s) # {}
      PROVE  OnceInv'
  <2>1. \A u \in Thread : dead[u] # s
    BY <1>b, NotDead
  <2>2. \/ dead' = dead
        \/ dead' = [dead EXCEPT ![t] = s]
    BY <1>b DEF Release, delVars
  <2>3. dead \in [Thread -> SomeService] /\ s # None
    BY <1>0 DEF TypeOK
  <2>4. \A u, v \in Thread : dead'[u] = dead'[v] /\ dead'[u] # None => u = v
    <3>1. CASE dead' = dead
      BY <1>0, <3>1 DEF OnceInv
    <3>2. CASE dead' = [dead EXCEPT ![t] = s]
      <4>1. \A u \in Thread : dead'[u] = IF u = t THEN s ELSE dead[u]
        BY <2>3, <3>2
      <4> QED
        BY <1>0, <2>1, <4>1 DEF OnceInv
    <3> QED
      BY <2>2, <3>1, <3>2
  <2> QED
    BY <1>0, <1>b, <2>4 DEF OnceInv
<1> USE DEF mqVars, ctxVars, workVars, makeVars, actVars, delVars, sleepVars,
            mailVars, ActTop, DropTop, MakeTop, WorkTop, Goto
<1>1. ASSUME NEW t \in Thread, MarkRelease(t) PROVE OnceInv'
  BY <1>a, <1>1 DEF MarkRelease
<1>2. ASSUME NEW t \in Thread, FreeContext(t) PROVE OnceInv'
  BY <1>0, <1>2 DEF FreeContext, OnceInv, TypeOK
<1>3. ASSUME NEW t \in Thread, SendGrab(t) PROVE OnceInv'
  BY <1>a, <1>3 DEF SendGrab
<1>4. ASSUME NEW t \in Thread, SendRefused(t) PROVE OnceInv'
  BY <1>a, <1>4 DEF SendRefused
<1>5. ASSUME NEW t \in Thread, SendPush(t) PROVE OnceInv'
  BY <1>a, <1>5 DEF SendPush
<1>6. ASSUME NEW t \in Thread, ActRelease(t) PROVE OnceInv'
  <2>1. tgt[t] \in Service /\ <<"act", t>> \in Holders(tgt[t])
    BY <1>0, <1>6, Layered DEF ActRelease, Holders
  <2> QED
    BY <1>b, <1>6, <2>1 DEF ActRelease
<1>7. ASSUME NEW t \in Thread, DropMessage(t) PROVE OnceInv'
  BY <1>a, <1>7 DEF DropMessage, Mail
<1>8. ASSUME NEW t \in Thread, DropEnd(t) PROVE OnceInv'
  BY <1>a, <1>8 DEF DropEnd
<1>9. ASSUME NEW t \in Thread, Create(t) PROVE OnceInv'
  BY <1>a, <1>9 DEF Create
<1>10. ASSUME NEW t \in Thread, InitDone(t) PROVE OnceInv'
  <2>1. new[t] \in Service /\ <<"launch", t>> \in Holders(new[t])
    BY <1>0, <1>10, Layered DEF InitDone, Holders
  <2> QED
    BY <1>b, <1>10, <2>1 DEF InitDone
<1>11. ASSUME NEW t \in Thread, Launched(t) PROVE OnceInv'
  BY <1>0, <1>11 DEF Launched, OnceInv, TypeOK
<1>12. ASSUME NEW t \in Thread, Refused(t) PROVE OnceInv'
  BY <1>a, <1>12 DEF Refused, Retire
<1>13. ASSUME NEW t \in Thread, RefusedMq(t) PROVE OnceInv'
  BY <1>0, <1>13 DEF RefusedMq, MqRelease, OnceInv, TypeOK
<1>14. ASSUME NEW t \in Thread, Top(t) PROVE OnceInv'
  BY <1>a, <1>14 DEF Top
<1>15. ASSUME NEW t \in Thread, PopGlobal(t) PROVE OnceInv'
  BY <1>a, <1>15 DEF PopGlobal
<1>16. ASSUME NEW t \in Thread, Grab(t) PROVE OnceInv'
  BY <1>a, <1>16 DEF Grab
<1>17. ASSUME NEW t \in Thread, WorkMqRelease(t) PROVE OnceInv'
  BY <1>a, <1>17 DEF WorkMqRelease, MqRelease
<1>18. ASSUME NEW t \in Thread, PopMail(t) PROVE OnceInv'
  BY <1>a, <1>18 DEF PopMail
<1>19. ASSUME NEW t \in Thread, PopEmpty(t) PROVE OnceInv'
  BY <1>a, <1>19 DEF PopEmpty
<1>20. ASSUME NEW t \in Thread, Handled(t) PROVE OnceInv'
  BY <1>a, <1>20 DEF Handled
<1>21. ASSUME NEW t \in Thread, NextMq(t) PROVE OnceInv'
  BY <1>a, <1>21 DEF NextMq
<1>22. ASSUME NEW t \in Thread, PushBack(t) PROVE OnceInv'
  BY <1>a, <1>22 DEF PushBack
<1>23. ASSUME NEW t \in Thread, TurnRelease(t) PROVE OnceInv'
  <2>1. hold[t] \in Service /\ <<"turn", t>> \in Holders(hold[t])
    BY <1>0, <1>23, Layered DEF TurnRelease, Holders
  <2> QED
    BY <1>b, <1>23, <2>1 DEF TurnRelease
<1>24. ASSUME NEW t \in Thread, GoToSleep(t) PROVE OnceInv'
  BY <1>a, <1>24 DEF GoToSleep
<1>25. ASSUME NEW t \in Thread, WakeUp(t) PROVE OnceInv'
  BY <1>a, <1>25 DEF WakeUp
<1>26. ASSUME NEW t \in Thread, SocketWake(t) PROVE OnceInv'
  BY <1>a, <1>26 DEF SocketWake, Signal, Thread
<1>27. ASSUME NEW t \in Thread, NEW s \in Service, Kill(t, s) PROVE OnceInv'
  BY <1>a, <1>27 DEF Kill, Retire, Running
<1>28. ASSUME NEW t \in Thread, NEW s \in Service, Register(t, s) PROVE OnceInv'
  BY <1>0, <1>28, NewExists DEF Register, OnceInv, TypeOK
<1>29. ASSUME NEW t \in Thread, NEW s \in Service, NEW m \in Msg, BeginSend(t, s, m)
       PROVE  OnceInv'
  BY <1>a, <1>29 DEF BeginSend, Running
<1>30. ASSUME Tick PROVE OnceInv'
  BY <1>a, <1>30 DEF Tick, Signal, Thread
<1>31. ASSUME Abort PROVE OnceInv'
  BY <1>a, <1>31 DEF Abort
<1>32. CASE UNCHANGED vars
  BY <1>a, <1>32 DEF vars
<1> QED
  BY NextCases, <1>1, <1>2, <1>3, <1>4, <1>5, <1>6, <1>7, <1>8, <1>9, <1>10,
     <1>11, <1>12, <1>13, <1>14, <1>15, <1>16, <1>17, <1>18, <1>19, <1>20,
     <1>21, <1>22, <1>23, <1>24, <1>25, <1>26, <1>27, <1>28, <1>29, <1>30,
     <1>31, <1>32 DEF ThreadStep

LEMMA LifeStep ==
  ASSUME MqInv, [Next]_vars, NEW s \in Service
  PROVE  LifeInv(s)'
<1>0. /\ TypeOK /\ (\A t \in Thread : LayerInv(t)) /\ LifeInv(s) /\ s # None
      /\ OwnerInv(s) /\ OnceInv
  BY SkynetMqAssumption DEF MqInv, RefsCounted
<1>h. ASSUME NEW v \in Service, NEW h \in Holders(v)
      PROVE  /\ \A u \in Thread : dead[u] # v
             /\ ctx[v] = "live" /\ mq[v] # "freed" /\ ~release[v]
             /\ ref[v] \in Nat \ {0}
  <2>1. Holders(v) # {} /\ RefsCounted
    BY DEF MqInv
  <2> QED
    BY <2>1, NotDead, Held
<1> USE DEF mqVars, ctxVars, workVars, makeVars, actVars, delVars, sleepVars,
            mailVars, ActTop, DropTop, MakeTop, WorkTop, Goto, Creating
<1>1. ASSUME NEW t \in Thread, MarkRelease(t) PROVE LifeInv(s)'
  BY <1>0, <1>1 DEF MarkRelease, LifeInv, TypeOK
<1>2. ASSUME NEW t \in Thread, FreeContext(t) PROVE LifeInv(s)'
  <2>1. dead[t] \in Service
    BY <1>0, <1>2, Layered DEF FreeContext
  <2>2. CASE dead[t] = s
    <3>1. \A u \in Thread : dead'[u] # s
      BY <1>0, <1>2, <2>2 DEF FreeContext, OnceInv, TypeOK
    <3>2. ctx[s] = "live" /\ ctx'[s] = "freed" /\ ref[s] = 0 /\ release[s]
      BY <1>0, <1>2, <2>1, <2>2 DEF FreeContext, LifeInv, TypeOK
    <3> QED
      BY <1>0, <1>2, <3>1, <3>2 DEF FreeContext, LifeInv
  <2>3. CASE dead[t] # s
    <3>1. ctx'[s] = ctx[s]
      BY <1>0, <1>2, <2>3 DEF FreeContext, TypeOK
    <3>2. \A u \in Thread : dead'[u] = s <=> dead[u] = s
      BY <1>0, <1>2, <2>3 DEF FreeContext, TypeOK
    <3>3. \A u \in Thread : dead[u] = s => del'[u] = del[u]
      BY <1>0, <1>2, <2>3 DEF FreeContext, TypeOK
    <3> QED
      BY <1>0, <1>2, <3>1, <3>2, <3>3 DEF FreeContext, LifeInv
  <2> QED
    BY <2>2, <2>3
<1>3. ASSUME NEW t \in Thread, SendGrab(t) PROVE LifeInv(s)'
  <2>1. tgt[t] \in Service
    BY <1>0, <1>3, Layered DEF SendGrab
  <2>2. CASE slot[tgt[t]]
    <3>1. <<"storage", tgt[t]>> \in Holders(tgt[t])
      BY <2>2 DEF Holders
    <3>2. (\A u \in Thread : dead[u] # tgt[t]) /\ ctx[tgt[t]] = "live" /\ ref[tgt[t]] \in Nat
      BY <1>h, <2>1, <3>1
    <3>3. ref'[tgt[t]] # 0 /\ (s # tgt[t] => ref'[s] = ref[s])
      BY <1>0, <1>3, <2>1, <2>2, <3>2 DEF SendGrab, TypeOK
    <3> QED
      BY <1>0, <1>3, <2>1, <2>2, <3>2, <3>3 DEF SendGrab, LifeInv, TypeOK
  <2> QED
    BY <1>3, <2>2 DEF SendGrab
<1>4. ASSUME NEW t \in Thread, SendRefused(t) PROVE LifeInv(s)'
  BY <1>0, <1>4 DEF SendRefused, LifeInv, TypeOK
<1>5. ASSUME NEW t \in Thread, SendPush(t) PROVE LifeInv(s)'
  <2>1. tgt[t] \in Service /\ <<"act", t>> \in Holders(tgt[t])
    BY <1>0, <1>5, Layered DEF SendPush, Holders
  <2>2. mq[tgt[t]] # "freed"
    BY <1>h, <2>1
  <2>3. s # tgt[t] => queue'[s] = queue[s]
    BY <1>0, <1>5 DEF SendPush, TypeOK
  <2> QED
    BY <1>0, <1>5, <2>1, <2>2, <2>3 DEF SendPush, LifeInv, TypeOK
<1>6. ASSUME NEW t \in Thread, ActRelease(t) PROVE LifeInv(s)'
  <2>1. tgt[t] \in Service /\ <<"act", t>> \in Holders(tgt[t])
    BY <1>0, <1>6, Layered DEF ActRelease, Holders
  <2>2. tgt[t] = s => mq[s] # "none"
    BY <1>0, <1>6 DEF ActRelease, LifeInv, TypeOK
  <2>3. (\A u \in Thread : dead[u] # tgt[t]) /\ ctx[tgt[t]] = "live" /\ ref[tgt[t]] \in Nat \ {0}
    BY <1>h, <2>1
  <2>4. /\ UNCHANGED <<mq, ctx, slot, release, queue>>
        /\ \A u \in Thread :
             /\ hold'[u] = s => hold[u] = s
             /\ new'[u] = s => new[u] = s /\ (make'[u] = "create" <=> make[u] = "create")
             /\ new[u] = s => new'[u] = s
             /\ tgt'[u] = s /\ act'[u] \in {"push", "release"} =>
                  tgt[u] = s /\ act[u] = act'[u]
    BY <1>0, <1>6 DEF ActRelease, TypeOK
  <2>5. CASE tgt[t] = s /\ ref[s] = 1
    <3>1. ref'[s] = 0 /\ dead'[t] = s /\ del'[t] = "mark"
      BY <1>0, <1>6, <2>1, <2>5 DEF ActRelease, Release, TypeOK
    <3>2. \A u \in Thread : dead'[u] = s => u = t
      BY <1>0, <1>6, <2>3, <2>5 DEF ActRelease, Release, TypeOK
    <3> QED
      BY <1>0, <2>2, <2>3, <2>4, <2>5, <3>1, <3>2 DEF LifeInv
  <2>6. CASE ~(tgt[t] = s /\ ref[s] = 1)
    <3>1. tgt[t] = s => ref'[s] # 0 /\ ref[s] # 0
      BY <1>0, <1>6, <2>1, <2>3, <2>6 DEF ActRelease, Release, TypeOK
    <3>2. tgt[t] # s => ref'[s] = ref[s]
      BY <1>0, <1>6 DEF ActRelease, Release, TypeOK
    <3>3. dead[t] # s /\ dead'[t] # s
      BY <1>0, <1>6, <2>1, <2>3, <2>6 DEF ActRelease, Release, LifeInv, LayerInv,
         TypeOK
    <3>4. \A u \in Thread : u # t => dead'[u] = dead[u] /\ del'[u] = del[u]
      BY <1>0, <1>6 DEF ActRelease, Release, TypeOK
    <3>5. \A u \in Thread :
            /\ dead'[u] = s <=> dead[u] = s
            /\ dead[u] = s => del'[u] = del[u]
      BY <3>3, <3>4
    <3> QED
      BY <1>0, <2>2, <2>3, <2>4, <3>1, <3>2, <3>5 DEF LifeInv
  <2> QED
    BY <2>5, <2>6
<1>7. ASSUME NEW t \in Thread, DropMessage(t) PROVE LifeInv(s)'
  <2>1. mq[s] = "freed" => queue'[s] = queue[s]
    BY <1>0, <1>7 DEF DropMessage, Mail, LifeInv, TypeOK
  <2>2. \A u \in Thread : act'[u] \in {"push", "release"} => act[u] = act'[u] /\ tgt'[u] = tgt[u]
    BY <1>0, <1>7 DEF DropMessage, Mail, TypeOK
  <2>3. UNCHANGED <<mq, ctx, ref, slot, hold, new, make, dead, del, release>>
    BY <1>7 DEF DropMessage, Mail
  <2> QED
    BY <1>0, <2>1, <2>2, <2>3 DEF LifeInv
<1>8. ASSUME NEW t \in Thread, DropEnd(t) PROVE LifeInv(s)'
  <2>1. ASSUME dropping[t] = s PROVE release[s] /\ mq[s] = "live"
    <3>1. <<"dropping", t>> \in Hands(s)
      BY <2>1 DEF Hands
    <3> QED
      BY <1>0, <2>1, <3>1 DEF OwnerInv
  <2>2. mq'[s] = IF dropping[t] = s THEN "freed" ELSE mq[s]
    BY <1>0, <1>8 DEF DropEnd, TypeOK
  <2> QED
    BY <1>0, <1>8, <2>1, <2>2 DEF DropEnd, LifeInv
<1>9. ASSUME NEW t \in Thread, Create(t) PROVE LifeInv(s)'
  <2>1. new[t] \in Service
    BY <1>0, <1>9, Layered DEF Create
  <2>2. CASE new[t] = s
    <3>1. \A u \in Thread : ~(new'[u] = s /\ make'[u] = "create")
      BY <1>0, <1>9, <2>2 DEF Create, OnceInv, TypeOK
    <3>2. ctx[s] # "none" /\ mq'[s] = "live" /\ mq[s] = "none"
      BY <1>0, <1>9, <2>1, <2>2, NewExists DEF Create, LifeInv, TypeOK
    <3>3. UNCHANGED <<ctx, ref, release, queue, dead, del>>
      BY <1>9 DEF Create
    <3> QED
      BY <1>0, <3>1, <3>2, <3>3 DEF LifeInv
  <2>3. CASE new[t] # s
    <3>1. mq'[s] = mq[s] /\ slot'[s] = slot[s]
      BY <1>0, <1>9, <2>3 DEF Create, TypeOK
    <3>2. \A u \in Thread : new[u] = s => make'[u] = make[u]
      BY <1>0, <1>9, <2>3 DEF Create, TypeOK
    <3> QED
      <4>1. UNCHANGED <<ctx, ref, release, queue, dead, del, hold, tgt, act, new>>
        BY <1>9 DEF Create
      <4> QED
        BY <1>0, <3>1, <3>2, <4>1 DEF LifeInv
  <2> QED
    BY <2>2, <2>3
<1>10. ASSUME NEW t \in Thread, InitDone(t) PROVE LifeInv(s)'
  <2>1. new[t] \in Service /\ <<"launch", t>> \in Holders(new[t])
    BY <1>0, <1>10, Layered DEF InitDone, Holders
  <2>2. new[t] = s => mq[s] # "none"
    BY <1>0, <1>10 DEF InitDone, LifeInv, TypeOK
  <2>3. (\A u \in Thread : dead[u] # new[t]) /\ ctx[new[t]] = "live" /\ ref[new[t]] \in Nat \ {0}
    BY <1>h, <2>1
  <2>4. /\ UNCHANGED <<mq, ctx, slot, release, queue>>
        /\ \A u \in Thread :
             /\ hold'[u] = s => hold[u] = s
             /\ new'[u] = s => new[u] = s /\ (make'[u] = "create" <=> make[u] = "create")
             /\ new[u] = s => new'[u] = s
             /\ tgt'[u] = s /\ act'[u] \in {"push", "release"} =>
                  tgt[u] = s /\ act[u] = act'[u]
    BY <1>0, <1>10 DEF InitDone, TypeOK
  <2>5. CASE new[t] = s /\ ref[s] = 1
    <3>1. ref'[s] = 0 /\ dead'[t] = s /\ del'[t] = "mark"
      BY <1>0, <1>10, <2>1, <2>5 DEF InitDone, Release, TypeOK
    <3>2. \A u \in Thread : dead'[u] = s => u = t
      BY <1>0, <1>10, <2>3, <2>5 DEF InitDone, Release, TypeOK
    <3> QED
      BY <1>0, <2>2, <2>3, <2>4, <2>5, <3>1, <3>2 DEF LifeInv
  <2>6. CASE ~(new[t] = s /\ ref[s] = 1)
    <3>1. new[t] = s => ref'[s] # 0 /\ ref[s] # 0
      BY <1>0, <1>10, <2>1, <2>3, <2>6 DEF InitDone, Release, TypeOK
    <3>2. new[t] # s => ref'[s] = ref[s]
      BY <1>0, <1>10 DEF InitDone, Release, TypeOK
    <3>3. dead[t] # s /\ dead'[t] # s
      BY <1>0, <1>10, <2>1, <2>3, <2>6 DEF InitDone, Release, LifeInv, LayerInv,
         TypeOK
    <3>4. \A u \in Thread : u # t => dead'[u] = dead[u] /\ del'[u] = del[u]
      BY <1>0, <1>10 DEF InitDone, Release, TypeOK
    <3>5. \A u \in Thread :
            /\ dead'[u] = s <=> dead[u] = s
            /\ dead[u] = s => del'[u] = del[u]
      BY <3>3, <3>4
    <3> QED
      BY <1>0, <2>2, <2>3, <2>4, <3>1, <3>2, <3>5 DEF LifeInv
  <2> QED
    BY <2>5, <2>6
<1>11. ASSUME NEW t \in Thread, Launched(t) PROVE LifeInv(s)'
  BY <1>0, <1>11 DEF Launched, LifeInv, TypeOK
<1>12. ASSUME NEW t \in Thread, Refused(t) PROVE LifeInv(s)'
  BY <1>0, <1>12 DEF Refused, Retire, LifeInv, TypeOK
<1>13. ASSUME NEW t \in Thread, RefusedMq(t) PROVE LifeInv(s)'
  BY <1>0, <1>13 DEF RefusedMq, MqRelease, LifeInv, TypeOK
<1>14. ASSUME NEW t \in Thread, Top(t) PROVE LifeInv(s)'
  BY <1>0, <1>14 DEF Top, LifeInv, TypeOK
<1>15. ASSUME NEW t \in Thread, PopGlobal(t) PROVE LifeInv(s)'
  BY <1>0, <1>15 DEF PopGlobal, LifeInv, TypeOK
<1>16. ASSUME NEW t \in Thread, Grab(t) PROVE LifeInv(s)'
  <2>1. cur[t] \in Service
    BY <1>0, <1>16, Layered DEF Grab
  <2>2. CASE slot[cur[t]]
    <3>1. <<"storage", cur[t]>> \in Holders(cur[t])
      BY <2>2 DEF Holders
    <3>2. (\A u \in Thread : dead[u] # cur[t]) /\ ctx[cur[t]] = "live" /\ ref[cur[t]] \in Nat
      BY <1>h, <2>1, <3>1
    <3>3. ref'[cur[t]] # 0 /\ (s # cur[t] => ref'[s] = ref[s])
      BY <1>0, <1>16, <2>1, <2>2, <3>2 DEF Grab, TypeOK
    <3> QED
      BY <1>0, <1>16, <2>1, <2>2, <3>2, <3>3 DEF Grab, LifeInv, TypeOK
  <2>3. CASE ~slot[cur[t]]
    BY <1>0, <1>16, <2>1, <2>3 DEF Grab, LifeInv, TypeOK
  <2> QED
    BY <1>16, <2>2, <2>3
<1>17. ASSUME NEW t \in Thread, WorkMqRelease(t) PROVE LifeInv(s)'
  BY <1>0, <1>17 DEF WorkMqRelease, MqRelease, LifeInv, TypeOK
<1>18. ASSUME NEW t \in Thread, PopMail(t) PROVE LifeInv(s)'
  BY <1>0, <1>18 DEF PopMail, LifeInv, TypeOK
<1>19. ASSUME NEW t \in Thread, PopEmpty(t) PROVE LifeInv(s)'
  BY <1>0, <1>19 DEF PopEmpty, LifeInv, TypeOK
<1>20. ASSUME NEW t \in Thread, Handled(t) PROVE LifeInv(s)'
  BY <1>0, <1>20 DEF Handled, LifeInv, TypeOK
<1>21. ASSUME NEW t \in Thread, NextMq(t) PROVE LifeInv(s)'
  BY <1>0, <1>21 DEF NextMq, LifeInv, TypeOK
<1>22. ASSUME NEW t \in Thread, PushBack(t) PROVE LifeInv(s)'
  BY <1>0, <1>22 DEF PushBack, LifeInv, TypeOK
<1>23. ASSUME NEW t \in Thread, TurnRelease(t) PROVE LifeInv(s)'
  <2>1. hold[t] \in Service /\ <<"turn", t>> \in Holders(hold[t])
    BY <1>0, <1>23, Layered DEF TurnRelease, Holders
  <2>2. hold[t] = s => mq[s] # "none"
    BY <1>0, <1>23 DEF TurnRelease, LifeInv, TypeOK
  <2>3. (\A u \in Thread : dead[u] # hold[t]) /\ ctx[hold[t]] = "live" /\ ref[hold[t]] \in Nat \ {0}
    BY <1>h, <2>1
  <2>4. /\ UNCHANGED <<mq, ctx, slot, release, queue>>
        /\ \A u \in Thread :
             /\ hold'[u] = s => hold[u] = s
             /\ new'[u] = s => new[u] = s /\ (make'[u] = "create" <=> make[u] = "create")
             /\ new[u] = s => new'[u] = s
             /\ tgt'[u] = s /\ act'[u] \in {"push", "release"} =>
                  tgt[u] = s /\ act[u] = act'[u]
    BY <1>0, <1>23 DEF TurnRelease, TypeOK
  <2>5. CASE hold[t] = s /\ ref[s] = 1
    <3>1. ref'[s] = 0 /\ dead'[t] = s /\ del'[t] = "mark"
      BY <1>0, <1>23, <2>1, <2>5 DEF TurnRelease, Release, TypeOK
    <3>2. \A u \in Thread : dead'[u] = s => u = t
      BY <1>0, <1>23, <2>3, <2>5 DEF TurnRelease, Release, TypeOK
    <3> QED
      BY <1>0, <2>2, <2>3, <2>4, <2>5, <3>1, <3>2 DEF LifeInv
  <2>6. CASE ~(hold[t] = s /\ ref[s] = 1)
    <3>1. hold[t] = s => ref'[s] # 0 /\ ref[s] # 0
      BY <1>0, <1>23, <2>1, <2>3, <2>6 DEF TurnRelease, Release, TypeOK
    <3>2. hold[t] # s => ref'[s] = ref[s]
      BY <1>0, <1>23 DEF TurnRelease, Release, TypeOK
    <3>3. dead[t] # s /\ dead'[t] # s
      BY <1>0, <1>23, <2>1, <2>3, <2>6 DEF TurnRelease, Release, LifeInv, LayerInv,
         TypeOK
    <3>4. \A u \in Thread : u # t => dead'[u] = dead[u] /\ del'[u] = del[u]
      BY <1>0, <1>23 DEF TurnRelease, Release, TypeOK
    <3>5. \A u \in Thread :
            /\ dead'[u] = s <=> dead[u] = s
            /\ dead[u] = s => del'[u] = del[u]
      BY <3>3, <3>4
    <3> QED
      BY <1>0, <2>2, <2>3, <2>4, <3>1, <3>2, <3>5 DEF LifeInv
  <2> QED
    BY <2>5, <2>6
<1>24. ASSUME NEW t \in Thread, GoToSleep(t) PROVE LifeInv(s)'
  BY <1>0, <1>24 DEF GoToSleep, LifeInv, TypeOK
<1>25. ASSUME NEW t \in Thread, WakeUp(t) PROVE LifeInv(s)'
  BY <1>0, <1>25 DEF WakeUp, LifeInv, TypeOK
<1>26. ASSUME NEW t \in Thread, SocketWake(t) PROVE LifeInv(s)'
  BY <1>0, <1>26 DEF SocketWake, Signal, Thread, LifeInv, TypeOK
<1>27. ASSUME NEW t \in Thread, NEW v \in Service, Kill(t, v) PROVE LifeInv(s)'
  BY <1>0, <1>27 DEF Kill, Retire, Running, LifeInv, TypeOK
<1>28. ASSUME NEW t \in Thread, NEW v \in Service, Register(t, v) PROVE LifeInv(s)'
  BY <1>0, <1>28 DEF Register, LifeInv, TypeOK
<1>29. ASSUME NEW t \in Thread, NEW v \in Service, NEW m \in Msg, BeginSend(t, v, m)
       PROVE  LifeInv(s)'
  BY <1>0, <1>29 DEF BeginSend, Running, LifeInv, TypeOK
<1>30. ASSUME Tick PROVE LifeInv(s)'
  BY <1>0, <1>30 DEF Tick, Signal, Thread, LifeInv, TypeOK
<1>31. ASSUME Abort PROVE LifeInv(s)'
  BY <1>0, <1>31 DEF Abort, LifeInv, TypeOK
<1>32. CASE UNCHANGED vars
  BY <1>0, <1>32 DEF vars, LifeInv
<1> QED
  BY NextCases, <1>1, <1>2, <1>3, <1>4, <1>5, <1>6, <1>7, <1>8, <1>9, <1>10,
     <1>11, <1>12, <1>13, <1>14, <1>15, <1>16, <1>17, <1>18, <1>19, <1>20,
     <1>21, <1>22, <1>23, <1>24, <1>25, <1>26, <1>27, <1>28, <1>29, <1>30,
     <1>31, <1>32 DEF ThreadStep
-----------------------------------------------------------------------------
(* The owner of a mailbox.                                                 *)

\* What is in a sequence, and that it is there once.
InSeq(q) == {q[i] : i \in DOMAIN q}
Once(q) == \A i, j \in DOMAIN q : q[i] = q[j] => i = j

LEMMA SeqAppend ==
  ASSUME NEW S, NEW q \in Seq(S), NEW e \in S
  PROVE  /\ InSeq(Append(q, e)) = InSeq(q) \cup {e}
         /\ Once(q) /\ e \notin InSeq(q) => Once(Append(q, e))
<1>1. /\ DOMAIN q = 1 .. Len(q) /\ DOMAIN Append(q, e) = 1 .. Len(q) + 1
      /\ \A i \in 1 .. Len(q) : Append(q, e)[i] = q[i]
      /\ Append(q, e)[Len(q) + 1] = e
      /\ Len(q) \in Nat
  OBVIOUS
<1>2. \A x : x \in InSeq(Append(q, e)) <=> x \in InSeq(q) \/ x = e
  BY <1>1 DEF InSeq
<1>3. ASSUME Once(q), e \notin InSeq(q) PROVE Once(Append(q, e))
  BY <1>1, <1>3 DEF Once, InSeq
<1> QED
  BY <1>2, <1>3

LEMMA SeqTail ==
  ASSUME NEW S, NEW q \in Seq(S), q # <<>>, Once(q)
  PROVE  /\ InSeq(Tail(q)) = InSeq(q) \ {Head(q)}
         /\ Head(q) \in InSeq(q)
         /\ Once(Tail(q))
<1>1. /\ DOMAIN q = 1 .. Len(q) /\ DOMAIN Tail(q) = 1 .. Len(q) - 1
      /\ \A i \in 1 .. Len(q) - 1 : Tail(q)[i] = q[i + 1]
      /\ Head(q) = q[1]
      /\ Len(q) \in Nat \ {0}
  OBVIOUS
<1>2. ASSUME NEW x \in InSeq(Tail(q)) PROVE x \in InSeq(q) \ {Head(q)}
  <2>1. PICK i \in 1 .. Len(q) - 1 : x = q[i + 1]
    BY <1>1 DEF InSeq
  <2>2. i + 1 \in DOMAIN q /\ 1 \in DOMAIN q /\ i + 1 # 1
    BY <1>1
  <2> QED
    BY <1>1, <2>1, <2>2 DEF InSeq, Once
<1>3. ASSUME NEW x \in InSeq(q), x # Head(q) PROVE x \in InSeq(Tail(q))
  <2>1. PICK i \in DOMAIN q : x = q[i]
    BY DEF InSeq
  <2>2. i \in 1 .. Len(q) /\ i # 1
    BY <1>1, <1>3, <2>1
  <2>3. i - 1 \in 1 .. Len(q) - 1 /\ (i - 1) + 1 = i
    BY <1>1, <2>2
  <2> QED
    BY <1>1, <2>1, <2>3 DEF InSeq
<1>4. Once(Tail(q))
  <2> SUFFICES ASSUME NEW i \in DOMAIN Tail(q), NEW j \in DOMAIN Tail(q),
                      Tail(q)[i] = Tail(q)[j]
               PROVE  i = j
    BY DEF Once
  <2>1. i + 1 \in DOMAIN q /\ j + 1 \in DOMAIN q /\ q[i + 1] = q[j + 1]
    BY <1>1
  <2>2. i + 1 = j + 1
    BY <2>1 DEF Once
  <2> QED
    BY <1>1, <2>2
<1>5. Head(q) \in InSeq(q)
  BY <1>1 DEF InSeq
<1> QED
  BY <1>2, <1>3, <1>4, <1>5

LEMMA QueuedAppend ==
  ASSUME MqInv, NEW v \in Service, global' = Append(global, v)
  PROVE  /\ Queued' = Queued \cup {v}
         /\ v \notin Queued => QueuedOnce'
<1>1. global \in Seq(Service) /\ QueuedOnce
  BY DEF MqInv, RefsCounted, TypeOK
<1> QED
  BY <1>1, SeqAppend DEF Queued, QueuedOnce, InSeq, Once

LEMMA QueuedTail ==
  ASSUME MqInv, global # <<>>, global' = Tail(global)
  PROVE  /\ Queued' = Queued \ {Head(global)}
         /\ Head(global) \in Queued
         /\ QueuedOnce'
<1>1. global \in Seq(Service) /\ QueuedOnce
  BY DEF MqInv, RefsCounted, TypeOK
<1> QED
  BY <1>1, SeqTail DEF Queued, QueuedOnce, InSeq, Once

\* A thread that owns a mailbox is its only owner.
LEMMA OnlyHand ==
  ASSUME MqInv, NEW v \in Service, NEW h \in Hands(v)
  PROVE  /\ Hands(v) = {h}
         /\ v \notin Queued
         /\ mq[v] = "live"
         /\ inGlobal[v] \/ release[v]
BY DEF MqInv, OwnerInv

\* The mailbox of a context that is about to be marked is live and not marked.
LEMMA Unmarked ==
  ASSUME MqInv, NEW t \in Thread, del[t] = "mark"
  PROVE  dead[t] \in Service /\ mq[dead[t]] = "live" /\ ~release[dead[t]]
<1>0. TypeOK /\ LayerInv(t) /\ OnceInv /\ RefsCounted
  BY DEF MqInv, RefsCounted
<1>1. dead[t] \in Service
  BY <1>0, Layered
<1>2. ctx[dead[t]] = "live" /\ ref[dead[t]] = 0
  BY <1>1 DEF MqInv, LifeInv
<1>3. ~release[dead[t]]
  BY <1>0, <1>1, <1>2, SkynetMqAssumption DEF MqInv, LifeInv, OnceInv
<1>4. ~Creating(dead[t])
  <2>1. Creating(dead[t]) => Holders(dead[t]) # {}
    BY DEF Holders
  <2> QED
    BY <1>0, <1>1, <1>2, <2>1, Held
<1>5. mq[dead[t]] # "none" /\ mq[dead[t]] # "freed"
  BY <1>1, <1>2, <1>3, <1>4 DEF MqInv, LifeInv
<1> QED
  BY <1>0, <1>1, <1>3, <1>5 DEF TypeOK

LEMMA OwnerStep ==
  ASSUME MqInv, [Next]_vars
  PROVE  QueuedOnce' /\ \A s \in Service : OwnerInv(s)'
<1>0. /\ TypeOK /\ (\A t \in Thread : LayerInv(t)) /\ OnceInv
      /\ QueuedOnce /\ (\A s \in Service : OwnerInv(s)) /\ None \notin Service
  BY SkynetMqAssumption DEF MqInv, RefsCounted
\* A service whose mailbox does not move.
<1>a. ASSUME NEW s \in Service,
             mq'[s] = mq[s], inGlobal'[s] = inGlobal[s], release'[s] = release[s],
             s \in Queued' <=> s \in Queued, Hands(s)' = Hands(s),
             queue[s] = <<>> => queue'[s] = <<>>
      PROVE  OwnerInv(s)'
  <2>1. ASSUME NEW t \in Thread, dropping'[t] = s PROVE dropping[t] = s
    <3>1. <<"dropping", t>> \in Hands(s)'
      BY <2>1 DEF Hands
    <3> QED
      BY <1>a, <3>1 DEF Hands
  <2> QED
    BY <1>0, <1>a, <2>1 DEF OwnerInv
\* A mailbox that changes hands, or is taken from or put into the global queue.
<1>b. ASSUME NEW s \in Service, mq[s] = "live", inGlobal[s] \/ release[s],
             mq'[s] = mq[s], inGlobal'[s] = inGlobal[s], release'[s] = release[s],
             queue'[s] = queue[s],
             \/ s \in Queued' /\ Hands(s)' = {}
             \/ s \notin Queued' /\ \E h : Hands(s)' = {h},
             \A t \in Thread : dropping'[t] = s => release[s]
      PROVE  OwnerInv(s)'
  BY <1>0, <1>b DEF OwnerInv
\* A step that leaves the global queue and the owners alone.
<1>c. ASSUME UNCHANGED <<global, cur, nxt, dropping, mq, inGlobal, release>>,
             \A t \in Thread, s \in Service :
               new'[t] = s /\ make'[t] # "create" <=> new[t] = s /\ make[t] # "create",
             \A s \in Service : queue[s] = <<>> => queue'[s] = <<>>
      PROVE  QueuedOnce' /\ \A s \in Service : OwnerInv(s)'
  <2>1. ASSUME NEW s \in Service PROVE Hands(s)' = Hands(s)
    BY <1>c DEF Hands
  <2> QED
    BY <1>0, <1>a, <1>c, <2>1 DEF Queued, QueuedOnce
<1>d. ASSUME NEW s \in Service, NEW t \in Thread, dropping'[t] = s
      PROVE  <<"dropping", t>> \in Hands(s)'
  BY <1>d DEF Hands
<1> USE DEF mqVars, ctxVars, workVars, makeVars, actVars, delVars, sleepVars,
            mailVars, ActTop, DropTop, MakeTop, WorkTop, Goto
<1>1. ASSUME NEW t \in Thread, MarkRelease(t)
      PROVE  QueuedOnce' /\ \A s \in Service : OwnerInv(s)'
  <2>1. dead[t] \in Service /\ mq[dead[t]] = "live" /\ ~release[dead[t]]
    BY <1>1, Unmarked DEF MarkRelease
  <2>2. \A s \in Service : Hands(s)' = Hands(s)
    BY <1>1 DEF MarkRelease, Hands
  <2>3. CASE inGlobal[dead[t]]
    <3>1. dead[t] \in Queued \/ Hands(dead[t]) # {}
      BY <1>0, <2>1, <2>3 DEF OwnerInv
    <3>2. Queued' = Queued /\ QueuedOnce'
      BY <1>0, <1>1, <2>3 DEF MarkRelease, Queued, QueuedOnce
    <3>3. ASSUME NEW s \in Service, s = dead[t] PROVE OwnerInv(s)'
      <4>1. /\ mq'[s] = "live" /\ release'[s]
            /\ queue'[s] = queue[s] /\ inGlobal' = inGlobal
        BY <3>3, <1>0, <1>1, <2>1 DEF MarkRelease, TypeOK
      <4> QED
        BY <3>3, <1>0, <2>1, <2>2, <3>1, <3>2, <4>1 DEF OwnerInv
    <3>4. ASSUME NEW s \in Service, s # dead[t] PROVE OwnerInv(s)'
      BY <1>0, <1>a, <1>1, <2>2, <3>2, <3>4 DEF MarkRelease, TypeOK
    <3> QED
      BY <3>2, <3>3, <3>4
  <2>4. CASE ~inGlobal[dead[t]]
    <3>1. dead[t] \notin Queued /\ Hands(dead[t]) = {}
      BY <1>0, <2>1, <2>4 DEF OwnerInv
    <3>2. Queued' = Queued \cup {dead[t]} /\ QueuedOnce'
      BY <1>1, <2>1, <2>4, <3>1, QueuedAppend DEF MarkRelease
    <3>3. ASSUME NEW s \in Service, s = dead[t] PROVE OwnerInv(s)'
      <4>1. /\ mq'[s] = "live" /\ release'[s]
            /\ queue'[s] = queue[s] /\ inGlobal' = inGlobal
        BY <3>3, <1>0, <1>1, <2>1 DEF MarkRelease, TypeOK
      <4> QED
        BY <3>3, <1>0, <2>1, <2>2, <3>1, <3>2, <4>1 DEF OwnerInv
    <3>4. ASSUME NEW s \in Service, s # dead[t] PROVE OwnerInv(s)'
      BY <1>0, <1>a, <1>1, <2>2, <3>2, <3>4 DEF MarkRelease, TypeOK
    <3> QED
      BY <3>2, <3>3, <3>4
  <2> QED
    BY <2>3, <2>4
<1>2. ASSUME NEW t \in Thread, FreeContext(t)
      PROVE  QueuedOnce' /\ \A s \in Service : OwnerInv(s)'
  BY <1>c, <1>2 DEF FreeContext
<1>3. ASSUME NEW t \in Thread, SendGrab(t)
      PROVE  QueuedOnce' /\ \A s \in Service : OwnerInv(s)'
  BY <1>c, <1>3 DEF SendGrab
<1>4. ASSUME NEW t \in Thread, SendRefused(t)
      PROVE  QueuedOnce' /\ \A s \in Service : OwnerInv(s)'
  BY <1>c, <1>4 DEF SendRefused
<1>5. ASSUME NEW t \in Thread, SendPush(t)
      PROVE  QueuedOnce' /\ \A s \in Service : OwnerInv(s)'
  <2>1. tgt[t] \in Service /\ <<"act", t>> \in Holders(tgt[t])
    BY <1>0, <1>5, Layered DEF SendPush, Holders
  <2>2. mq[tgt[t]] = "live" /\ ~release[tgt[t]]
    <3>1. mq[tgt[t]] # "none"
      BY <1>5, <2>1 DEF SendPush, MqInv, LifeInv
    <3> QED
      BY <1>0, <2>1, <3>1, NotDead DEF TypeOK
  <2>3. \A s \in Service : Hands(s)' = Hands(s)
    BY <1>5 DEF SendPush, Hands
  <2>4. /\ mq'[tgt[t]] = "live" /\ inGlobal'[tgt[t]] /\ release' = release
        /\ \A s \in Service \ {tgt[t]} :
             mq'[s] = mq[s] /\ inGlobal'[s] = inGlobal[s] /\ queue'[s] = queue[s]
    BY <1>0, <1>5, <2>1, <2>2 DEF SendPush, TypeOK
  <2>5. CASE inGlobal[tgt[t]]
    <3>1. ASSUME NEW s \in Service, s = tgt[t] PROVE OwnerInv(s)'
      BY <3>1, <1>0, <1>5, <2>1, <2>2, <2>3, <2>4, <2>5 DEF SendPush, OwnerInv,
         Queued
    <3>2. ASSUME NEW s \in Service, s # tgt[t] PROVE OwnerInv(s)'
      BY <1>0, <1>a, <1>5, <2>3, <2>4, <2>5, <3>2 DEF SendPush, Queued
    <3> QED
      BY <1>0, <1>5, <2>5, <3>1, <3>2 DEF SendPush, QueuedOnce
  <2>6. CASE ~inGlobal[tgt[t]]
    <3>1. tgt[t] \notin Queued /\ Hands(tgt[t]) = {}
      BY <1>0, <2>1, <2>2, <2>6 DEF OwnerInv
    <3>2. Queued' = Queued \cup {tgt[t]} /\ QueuedOnce'
      BY <1>5, <2>1, <2>6, <3>1, QueuedAppend DEF SendPush
    <3>3. ASSUME NEW s \in Service, s = tgt[t] PROVE OwnerInv(s)'
      BY <3>3, <1>0, <1>5, <2>1, <2>2, <2>3, <2>4, <3>1, <3>2 DEF SendPush, OwnerInv
    <3>4. ASSUME NEW s \in Service, s # tgt[t] PROVE OwnerInv(s)'
      BY <1>0, <1>a, <1>5, <2>3, <2>4, <3>2, <3>4
    <3> QED
      BY <3>2, <3>3, <3>4
  <2> QED
    BY <2>5, <2>6
<1>6. ASSUME NEW t \in Thread, ActRelease(t)
      PROVE  QueuedOnce' /\ \A s \in Service : OwnerInv(s)'
  BY <1>c, <1>6 DEF ActRelease, Release
<1>7. ASSUME NEW t \in Thread, DropMessage(t)
      PROVE  QueuedOnce' /\ \A s \in Service : OwnerInv(s)'
  <2>1. \A s \in Service : queue[s] = <<>> => queue'[s] = <<>>
    BY <1>0, <1>7 DEF DropMessage, TypeOK
  <2> QED
    BY <1>c, <1>7, <2>1 DEF DropMessage
<1>8. ASSUME NEW t \in Thread, DropEnd(t)
      PROVE  QueuedOnce' /\ \A s \in Service : OwnerInv(s)'
  <2>1. dropping[t] \in Service /\ <<"dropping", t>> \in Hands(dropping[t])
    BY <1>0, <1>8, Layered DEF DropEnd, Hands
  <2>2. Hands(dropping[t]) = {<<"dropping", t>>} /\ dropping[t] \notin Queued
    BY <2>1, OnlyHand
  <2>3. Queued' = Queued /\ QueuedOnce'
    BY <1>0, <1>8 DEF DropEnd, Queued, QueuedOnce
  <2>4. ASSUME NEW s \in Service, s = dropping[t] PROVE OwnerInv(s)'
    <3>1. Hands(s)' = {}
      BY <2>4, <1>0, <1>8, <2>1, <2>2 DEF DropEnd, Hands, TypeOK
    <3>2. /\ mq'[s] = "freed" /\ ~inGlobal'[s]
          /\ queue'[s] = <<>>
      BY <2>4, <1>0, <1>8, <2>1 DEF DropEnd, TypeOK
    <3>3. \A u \in Thread : dropping'[u] # s
      BY <1>d, <3>1
    <3> QED
      BY <2>4, <2>1, <2>2, <2>3, <3>1, <3>2, <3>3 DEF OwnerInv
  <2>5. ASSUME NEW s \in Service, s # dropping[t] PROVE OwnerInv(s)'
    <3>1. Hands(s)' = Hands(s)
      BY <1>0, <1>8, <2>5 DEF DropEnd, Hands, TypeOK
    <3> QED
      BY <1>0, <1>a, <1>8, <2>3, <2>5, <3>1 DEF DropEnd, TypeOK
  <2> QED
    BY <2>3, <2>4, <2>5
<1>9. ASSUME NEW t \in Thread, Create(t)
      PROVE  QueuedOnce' /\ \A s \in Service : OwnerInv(s)'
  <2>1. new[t] \in Service /\ mq[new[t]] = "none" /\ ~release[new[t]]
    <3>1. new[t] \in Service /\ <<"launch", t>> \in Holders(new[t])
      BY <1>0, <1>9, Layered DEF Create, Holders
    <3>2. Creating(new[t])
      BY <1>9 DEF Create, Creating
    <3> QED
      BY <3>1, <3>2, NotDead DEF MqInv, LifeInv
  <2>2. Hands(new[t]) = {} /\ new[t] \notin Queued
    BY <1>0, <2>1 DEF OwnerInv
  <2>3. Queued' = Queued /\ QueuedOnce'
    BY <1>0, <1>9 DEF Create, Queued, QueuedOnce
  <2>4. ASSUME NEW s \in Service, s = new[t] PROVE OwnerInv(s)'
    <3>1. Hands(s)' = {<<"new", t>>}
      BY <2>4, <1>0, <1>9, <2>1, <2>2 DEF Create, Hands, OnceInv, TypeOK
    <3>2. /\ mq'[s] = "live" /\ inGlobal'[s] /\ ~release'[s]
      BY <2>4, <1>0, <1>9, <2>1 DEF Create, TypeOK
    <3>3. \A u \in Thread : dropping'[u] # s
      BY <1>d, <3>1
    <3> QED
      BY <2>4, <2>1, <2>2, <2>3, <3>1, <3>2, <3>3 DEF OwnerInv
  <2>5. ASSUME NEW s \in Service, s # new[t] PROVE OwnerInv(s)'
    <3>1. Hands(s)' = Hands(s)
      BY <1>0, <1>9, <2>5 DEF Create, Hands, TypeOK
    <3> QED
      BY <1>0, <1>a, <1>9, <2>3, <2>5, <3>1 DEF Create, TypeOK
  <2> QED
    BY <2>3, <2>4, <2>5
<1>10. ASSUME NEW t \in Thread, InitDone(t)
      PROVE  QueuedOnce' /\ \A s \in Service : OwnerInv(s)'
  BY <1>0, <1>c, <1>10 DEF InitDone, Release, TypeOK
<1>11. ASSUME NEW t \in Thread, Launched(t)
      PROVE  QueuedOnce' /\ \A s \in Service : OwnerInv(s)'
  <2>1. new[t] \in Service /\ <<"new", t>> \in Hands(new[t])
    BY <1>0, <1>11, Layered DEF Launched, Hands
  <2>2. Hands(new[t]) = {<<"new", t>>} /\ new[t] \notin Queued
    BY <2>1, OnlyHand
  <2>3. Queued' = Queued \cup {new[t]} /\ QueuedOnce'
    BY <1>11, <2>1, <2>2, QueuedAppend DEF Launched
  <2>4. ASSUME NEW s \in Service, s = new[t] PROVE OwnerInv(s)'
    <3>1. Hands(s)' = {}
      BY <2>4, <1>0, <1>11, <2>1, <2>2 DEF Launched, Hands, TypeOK
    <3>2. \A u \in Thread : dropping'[u] # s
      BY <1>d, <3>1
    <3>3. mq[s] = "live" /\ (inGlobal[s] \/ release[s])
      BY <2>4, <2>1, OnlyHand
    <3> QED
      BY <2>4, <1>b, <1>11, <2>1, <2>3, <3>1, <3>2, <3>3 DEF Launched
  <2>5. ASSUME NEW s \in Service, s # new[t] PROVE OwnerInv(s)'
    <3>1. Hands(s)' = Hands(s)
      BY <1>0, <1>11, <2>5 DEF Launched, Hands, TypeOK
    <3> QED
      BY <1>0, <1>a, <1>11, <2>3, <2>5, <3>1 DEF Launched
  <2> QED
    BY <2>3, <2>4, <2>5
<1>12. ASSUME NEW t \in Thread, Refused(t)
      PROVE  QueuedOnce' /\ \A s \in Service : OwnerInv(s)'
  BY <1>0, <1>c, <1>12 DEF Refused, Retire, TypeOK
<1>13. ASSUME NEW t \in Thread, RefusedMq(t)
      PROVE  QueuedOnce' /\ \A s \in Service : OwnerInv(s)'
  <2>1. new[t] \in Service /\ <<"new", t>> \in Hands(new[t])
    BY <1>0, <1>13, Layered DEF RefusedMq, Hands
  <2>2. CASE ~release[new[t]]
    <3>1. new[t] \in Service /\ <<"new", t>> \in Hands(new[t])
      BY <2>1
    <3>2. Hands(new[t]) = {<<"new", t>>} /\ new[t] \notin Queued
      BY <3>1, OnlyHand
    <3>3. Queued' = Queued \cup {new[t]} /\ QueuedOnce'
      BY <1>13, <2>2, <3>1, <3>2, QueuedAppend DEF RefusedMq, MqRelease
    <3>4. ASSUME NEW s \in Service, s = new[t] PROVE OwnerInv(s)'
      <4>1. Hands(s)' = {}
        BY <3>4, <1>0, <1>13, <2>2, <3>1, <3>2 DEF RefusedMq, MqRelease, Hands,
           TypeOK
      <4>2. \A u \in Thread : dropping'[u] # s
        BY <1>d, <4>1
      <4>3. mq[s] = "live" /\ (inGlobal[s] \/ release[s])
        BY <3>4, <3>1, OnlyHand
      <4> QED
        BY <3>4, <1>b, <1>13, <3>1, <3>3, <4>1, <4>2, <4>3 DEF RefusedMq, MqRelease
    <3>5. ASSUME NEW s \in Service, s # new[t] PROVE OwnerInv(s)'
      <4>1. Hands(s)' = Hands(s)
        BY <1>0, <1>13, <2>2, <3>5 DEF RefusedMq, MqRelease, Hands, TypeOK
      <4> QED
        BY <1>0, <1>a, <1>13, <3>3, <3>5, <4>1 DEF RefusedMq, MqRelease
    <3> QED
      BY <3>3, <3>4, <3>5
  <2>3. CASE release[new[t]]
    <3>1. Hands(new[t]) = {<<"new", t>>} /\ new[t] \notin Queued
      BY <2>1, OnlyHand
    <3>2. Queued' = Queued /\ QueuedOnce'
      BY <1>0, <1>13, <2>3 DEF RefusedMq, MqRelease, Queued, QueuedOnce
    <3>3. ASSUME NEW s \in Service, s = new[t] PROVE OwnerInv(s)'
      <4>1. Hands(s)' = {<<"dropping", t>>}
        BY <3>3, <1>0, <1>13, <2>1, <2>3, <3>1 DEF RefusedMq, MqRelease, Hands,
           TypeOK
      <4>2. mq[s] = "live" /\ (inGlobal[s] \/ release[s])
        BY <3>3, <2>1, OnlyHand
      <4> QED
        BY <3>3, <1>b, <1>13, <2>1, <2>3, <3>1, <3>2, <4>1, <4>2 DEF RefusedMq
    <3>4. ASSUME NEW s \in Service, s # new[t] PROVE OwnerInv(s)'
      <4>1. dropping[t] # s /\ dropping'[t] # s
        BY <1>0, <1>13, <2>3, <3>4 DEF RefusedMq, MqRelease, TypeOK
      <4>2. Hands(s)' = Hands(s)
        BY <1>0, <1>13, <2>3, <3>4, <4>1 DEF RefusedMq, MqRelease, Hands, TypeOK
      <4> QED
        BY <1>0, <1>a, <1>13, <3>2, <3>4, <4>2 DEF RefusedMq
    <3> QED
      BY <3>2, <3>3, <3>4
  <2> QED
    BY <2>2, <2>3
<1>14. ASSUME NEW t \in Thread, Top(t)
      PROVE  QueuedOnce' /\ \A s \in Service : OwnerInv(s)'
  BY <1>c, <1>14 DEF Top
<1>15. ASSUME NEW t \in Thread, PopGlobal(t)
      PROVE  QueuedOnce' /\ \A s \in Service : OwnerInv(s)'
  <2>1. CASE global = <<>>
    BY <1>c, <1>15, <2>1 DEF PopGlobal
  <2>2. CASE global # <<>>
    <3>1. Head(global) \in Service /\ cur[t] = None
      BY <1>0, <1>15, <2>2, HeadGlobal DEF PopGlobal, LayerInv
    <3>2. /\ Queued' = Queued \ {Head(global)} /\ Head(global) \in Queued
          /\ QueuedOnce'
      BY <1>15, <2>2, QueuedTail DEF PopGlobal
    <3>3. ASSUME NEW s \in Service, s = Head(global) PROVE OwnerInv(s)'
      <4>1. Hands(s) = {} /\ mq[s] = "live"
            /\ (inGlobal[s] \/ release[s])
        BY <3>3, <1>0, <3>1, <3>2 DEF OwnerInv
      <4>2. Hands(s)' = {<<"cur", t>>}
        BY <3>3, <1>0, <1>15, <2>2, <3>1, <4>1 DEF PopGlobal, Hands, TypeOK
      <4>3. \A u \in Thread : dropping'[u] # s
        BY <1>d, <4>2
      <4> QED
        BY <3>3, <1>b, <1>15, <3>1, <3>2, <4>1, <4>2, <4>3 DEF PopGlobal
    <3>4. ASSUME NEW s \in Service, s # Head(global) PROVE OwnerInv(s)'
      <4>1. Hands(s)' = Hands(s)
        BY <1>0, <1>15, <2>2, <3>1, <3>4 DEF PopGlobal, Hands, TypeOK
      <4> QED
        BY <1>0, <1>a, <1>15, <3>2, <3>4, <4>1 DEF PopGlobal
    <3> QED
      BY <3>2, <3>3, <3>4
  <2> QED
    BY <2>1, <2>2
<1>16. ASSUME NEW t \in Thread, Grab(t)
      PROVE  QueuedOnce' /\ \A s \in Service : OwnerInv(s)'
  BY <1>c, <1>16 DEF Grab
<1>17. ASSUME NEW t \in Thread, WorkMqRelease(t)
      PROVE  QueuedOnce' /\ \A s \in Service : OwnerInv(s)'
  <2>1. cur[t] \in Service /\ <<"cur", t>> \in Hands(cur[t])
    BY <1>0, <1>17, Layered DEF WorkMqRelease, Hands
  <2>2. CASE ~release[cur[t]]
    <3>1. cur[t] \in Service /\ <<"cur", t>> \in Hands(cur[t])
      BY <2>1
    <3>2. Hands(cur[t]) = {<<"cur", t>>} /\ cur[t] \notin Queued
      BY <3>1, OnlyHand
    <3>3. Queued' = Queued \cup {cur[t]} /\ QueuedOnce'
      BY <1>17, <2>2, <3>1, <3>2, QueuedAppend DEF WorkMqRelease, MqRelease
    <3>4. ASSUME NEW s \in Service, s = cur[t] PROVE OwnerInv(s)'
      <4>1. Hands(s)' = {}
        BY <3>4, <1>0, <1>17, <2>2, <3>1, <3>2 DEF WorkMqRelease, MqRelease, Hands,
           TypeOK
      <4>2. \A u \in Thread : dropping'[u] # s
        BY <1>d, <4>1
      <4>3. mq[s] = "live" /\ (inGlobal[s] \/ release[s])
        BY <3>4, <3>1, OnlyHand
      <4> QED
        BY <3>4, <1>b, <1>17, <3>1, <3>3, <4>1, <4>2, <4>3 DEF WorkMqRelease,
           MqRelease
    <3>5. ASSUME NEW s \in Service, s # cur[t] PROVE OwnerInv(s)'
      <4>1. Hands(s)' = Hands(s)
        BY <1>0, <1>17, <2>2, <3>5 DEF WorkMqRelease, MqRelease, Hands, TypeOK
      <4> QED
        BY <1>0, <1>a, <1>17, <3>3, <3>5, <4>1 DEF WorkMqRelease, MqRelease
    <3> QED
      BY <3>3, <3>4, <3>5
  <2>3. CASE release[cur[t]]
    <3>1. Hands(cur[t]) = {<<"cur", t>>} /\ cur[t] \notin Queued
      BY <2>1, OnlyHand
    <3>2. Queued' = Queued /\ QueuedOnce'
      BY <1>0, <1>17, <2>3 DEF WorkMqRelease, MqRelease, Queued, QueuedOnce
    <3>3. ASSUME NEW s \in Service, s = cur[t] PROVE OwnerInv(s)'
      <4>1. Hands(s)' = {<<"dropping", t>>}
        BY <3>3, <1>0, <1>17, <2>1, <2>3, <3>1 DEF WorkMqRelease, MqRelease, Hands,
           TypeOK
      <4>2. mq[s] = "live" /\ (inGlobal[s] \/ release[s])
        BY <3>3, <2>1, OnlyHand
      <4> QED
        BY <3>3, <1>b, <1>17, <2>1, <2>3, <3>1, <3>2, <4>1, <4>2 DEF WorkMqRelease
    <3>4. ASSUME NEW s \in Service, s # cur[t] PROVE OwnerInv(s)'
      <4>1. dropping[t] # s /\ dropping'[t] # s
        BY <1>0, <1>17, <2>3, <3>4 DEF WorkMqRelease, MqRelease, TypeOK, LayerInv
      <4>2. Hands(s)' = Hands(s)
        BY <1>0, <1>17, <2>3, <3>4, <4>1 DEF WorkMqRelease, MqRelease, Hands, TypeOK
      <4> QED
        BY <1>0, <1>a, <1>17, <3>2, <3>4, <4>2 DEF WorkMqRelease
    <3> QED
      BY <3>2, <3>3, <3>4
  <2> QED
    BY <2>2, <2>3
<1>18. ASSUME NEW t \in Thread, PopMail(t)
      PROVE  QueuedOnce' /\ \A s \in Service : OwnerInv(s)'
  <2>1. \A s \in Service : queue[s] = <<>> => queue'[s] = <<>>
    BY <1>0, <1>18 DEF PopMail, TypeOK
  <2> QED
    BY <1>c, <1>18, <2>1 DEF PopMail
<1>19. ASSUME NEW t \in Thread, PopEmpty(t)
      PROVE  QueuedOnce' /\ \A s \in Service : OwnerInv(s)'
  <2>1. /\ cur[t] \in Service /\ <<"cur", t>> \in Hands(cur[t])
        /\ <<"turn", t>> \in Holders(cur[t])
    BY <1>0, <1>19, Layered DEF PopEmpty, Hands, Holders, LayerInv, Turn
  <2>2. Hands(cur[t]) = {<<"cur", t>>} /\ cur[t] \notin Queued /\ mq[cur[t]] = "live"
    BY <2>1, OnlyHand
  <2>3. Queued' = Queued /\ QueuedOnce'
    BY <1>0, <1>19 DEF PopEmpty, Queued, QueuedOnce
  <2>4. ASSUME NEW s \in Service, s = cur[t] PROVE OwnerInv(s)'
    <3>1. Hands(s)' = {}
      BY <2>4, <1>0, <1>19, <2>1, <2>2 DEF PopEmpty, Hands, TypeOK
    <3>2. ~release[s]
      BY <2>4, <2>1, NotDead
    <3>3. /\ mq'[s] = "live" /\ ~inGlobal'[s] /\ ~release'[s]
          /\ queue'[s] = <<>>
      BY <2>4, <1>0, <1>19, <2>1, <2>2, <3>2 DEF PopEmpty, TypeOK
    <3>4. \A u \in Thread : dropping'[u] # s
      BY <1>d, <3>1
    <3> QED
      BY <2>4, <2>1, <2>2, <2>3, <3>1, <3>3, <3>4 DEF OwnerInv
  <2>5. ASSUME NEW s \in Service, s # cur[t] PROVE OwnerInv(s)'
    <3>1. Hands(s)' = Hands(s)
      BY <1>0, <1>19, <2>5 DEF PopEmpty, Hands, TypeOK
    <3> QED
      BY <1>0, <1>a, <1>19, <2>3, <2>5, <3>1 DEF PopEmpty, TypeOK
  <2> QED
    BY <2>3, <2>4, <2>5
<1>20. ASSUME NEW t \in Thread, Handled(t)
      PROVE  QueuedOnce' /\ \A s \in Service : OwnerInv(s)'
  BY <1>c, <1>20 DEF Handled
<1>21. ASSUME NEW t \in Thread, NextMq(t)
      PROVE  QueuedOnce' /\ \A s \in Service : OwnerInv(s)'
  <2>1. CASE global = <<>>
    BY <1>c, <1>21, <2>1 DEF NextMq
  <2>2. CASE global # <<>>
    <3>1. Head(global) \in Service /\ nxt[t] = None
      BY <1>0, <1>21, <2>2, HeadGlobal DEF NextMq, LayerInv
    <3>2. /\ Queued' = Queued \ {Head(global)} /\ Head(global) \in Queued
          /\ QueuedOnce'
      BY <1>21, <2>2, QueuedTail DEF NextMq
    <3>3. ASSUME NEW s \in Service, s = Head(global) PROVE OwnerInv(s)'
      <4>1. Hands(s) = {} /\ mq[s] = "live"
            /\ (inGlobal[s] \/ release[s])
        BY <3>3, <1>0, <3>1, <3>2 DEF OwnerInv
      <4>2. Hands(s)' = {<<"nxt", t>>}
        BY <3>3, <1>0, <1>21, <2>2, <3>1, <4>1 DEF NextMq, Hands, TypeOK
      <4>3. \A u \in Thread : dropping'[u] # s
        BY <1>d, <4>2
      <4> QED
        BY <3>3, <1>b, <1>21, <3>1, <3>2, <4>1, <4>2, <4>3 DEF NextMq
    <3>4. ASSUME NEW s \in Service, s # Head(global) PROVE OwnerInv(s)'
      <4>1. Hands(s)' = Hands(s)
        BY <1>0, <1>21, <2>2, <3>1, <3>4 DEF NextMq, Hands, TypeOK
      <4> QED
        BY <1>0, <1>a, <1>21, <3>2, <3>4, <4>1 DEF NextMq
    <3> QED
      BY <3>2, <3>3, <3>4
  <2> QED
    BY <2>1, <2>2
<1>22. ASSUME NEW t \in Thread, PushBack(t)
      PROVE  QueuedOnce' /\ \A s \in Service : OwnerInv(s)'
  <2>1. /\ cur[t] \in Service /\ <<"cur", t>> \in Hands(cur[t])
        /\ nxt[t] \in Service /\ <<"nxt", t>> \in Hands(nxt[t])
    BY <1>0, <1>22, Layered DEF PushBack, Hands, Turn
  <2>2. /\ Hands(cur[t]) = {<<"cur", t>>} /\ cur[t] \notin Queued
        /\ Hands(nxt[t]) = {<<"nxt", t>>} /\ nxt[t] \notin Queued
    BY <2>1, OnlyHand
  <2>3. cur[t] # nxt[t]
    <3>1. <<"cur", t>> # <<"nxt", t>>
      OBVIOUS
    <3> QED
      BY <2>2, <3>1
  <2>4. Queued' = Queued \cup {cur[t]} /\ QueuedOnce'
    BY <1>22, <2>1, <2>2, QueuedAppend DEF PushBack
  <2>5. ASSUME NEW s \in Service, s = cur[t] PROVE OwnerInv(s)'
    <3>1. Hands(s)' = {}
      BY <2>5, <1>0, <1>22, <2>1, <2>2, <2>3 DEF PushBack, Hands, TypeOK
    <3>2. \A u \in Thread : dropping'[u] # s
      BY <1>d, <3>1
    <3>3. mq[s] = "live" /\ (inGlobal[s] \/ release[s])
      BY <2>5, <2>1, OnlyHand
    <3> QED
      BY <2>5, <1>b, <1>22, <2>1, <2>4, <3>1, <3>2, <3>3 DEF PushBack
  <2>6. ASSUME NEW s \in Service, s = nxt[t] PROVE OwnerInv(s)'
    <3>1. Hands(s)' = {<<"cur", t>>}
      BY <2>6, <1>0, <1>22, <2>1, <2>2, <2>3 DEF PushBack, Hands, TypeOK
    <3>2. \A u \in Thread : dropping'[u] # s
      BY <1>d, <3>1
    <3>3. mq[s] = "live" /\ (inGlobal[s] \/ release[s])
      BY <2>6, <2>1, OnlyHand
    <3> QED
      BY <2>6, <1>b, <1>22, <2>1, <2>2, <2>3, <2>4, <3>1, <3>2, <3>3 DEF PushBack
  <2>7. ASSUME NEW s \in Service, s # cur[t], s # nxt[t] PROVE OwnerInv(s)'
    <3>1. Hands(s)' = Hands(s)
      BY <1>0, <1>22, <2>7 DEF PushBack, Hands, TypeOK
    <3> QED
      BY <1>0, <1>a, <1>22, <2>4, <2>7, <3>1 DEF PushBack
  <2> QED
    BY <2>4, <2>5, <2>6, <2>7
<1>23. ASSUME NEW t \in Thread, TurnRelease(t)
      PROVE  QueuedOnce' /\ \A s \in Service : OwnerInv(s)'
  BY <1>c, <1>23 DEF TurnRelease, Release
<1>24. ASSUME NEW t \in Thread, GoToSleep(t)
      PROVE  QueuedOnce' /\ \A s \in Service : OwnerInv(s)'
  BY <1>c, <1>24 DEF GoToSleep
<1>25. ASSUME NEW t \in Thread, WakeUp(t)
      PROVE  QueuedOnce' /\ \A s \in Service : OwnerInv(s)'
  BY <1>c, <1>25 DEF WakeUp
<1>26. ASSUME NEW t \in Thread, SocketWake(t)
      PROVE  QueuedOnce' /\ \A s \in Service : OwnerInv(s)'
  BY <1>c, <1>26 DEF SocketWake, Signal, Thread
<1>27. ASSUME NEW t \in Thread, NEW v \in Service, Kill(t, v)
      PROVE  QueuedOnce' /\ \A s \in Service : OwnerInv(s)'
  BY <1>c, <1>27 DEF Kill, Retire, Running
<1>28. ASSUME NEW t \in Thread, NEW v \in Service, Register(t, v)
      PROVE  QueuedOnce' /\ \A s \in Service : OwnerInv(s)'
  BY <1>0, <1>c, <1>28 DEF Register, LayerInv, TypeOK
<1>29. ASSUME NEW t \in Thread, NEW v \in Service, NEW m \in Msg, BeginSend(t, v, m)
      PROVE  QueuedOnce' /\ \A s \in Service : OwnerInv(s)'
  BY <1>c, <1>29 DEF BeginSend, Running
<1>30. ASSUME Tick
      PROVE  QueuedOnce' /\ \A s \in Service : OwnerInv(s)'
  BY <1>c, <1>30 DEF Tick, Signal, Thread
<1>31. ASSUME Abort
      PROVE  QueuedOnce' /\ \A s \in Service : OwnerInv(s)'
  BY <1>c, <1>31 DEF Abort
<1>32. CASE UNCHANGED vars
  BY <1>c, <1>32 DEF vars
<1> QED
  BY NextCases, <1>1, <1>2, <1>3, <1>4, <1>5, <1>6, <1>7, <1>8, <1>9, <1>10,
     <1>11, <1>12, <1>13, <1>14, <1>15, <1>16, <1>17, <1>18, <1>19, <1>20,
     <1>21, <1>22, <1>23, <1>24, <1>25, <1>26, <1>27, <1>28, <1>29, <1>30,
     <1>31, <1>32 DEF ThreadStep
-----------------------------------------------------------------------------
(* The theorems.                                                           *)

LEMMA MqInit == Init => MqInv
<1> SUFFICES ASSUME Init PROVE MqInv
  OBVIOUS
<1>0. TypeOK /\ None \notin Service /\ Boot \in Seq(Service)
  BY TypeInit, SkynetMqAssumption
<1>1. \A t \in Thread : LayerInv(t)
  BY LayerInit
<1>2. ASSUME NEW s \in Service PROVE ref[s] = Cardinality(Holders(s))
  <2>1. Holders(s) = IF s \in Booted THEN {<<"storage", s>>} ELSE {}
    BY <1>0 DEF Init, Holders, Creating
  <2> QED
    BY <2>1, FS_EmptySet, FS_Singleton DEF Init
<1>3. ASSUME NEW s \in Service PROVE LifeInv(s)
  <2>1. \A t \in Thread : hold[t] # s /\ new[t] # s /\ tgt[t] # s /\ dead[t] # s
    BY <1>0 DEF Init
  <2>2. ~release[s] /\ ~Creating(s)
    BY <1>0 DEF Init, Creating
  <2>3. CASE s \in Booted
    <3>1. mq[s] = "live" /\ ctx[s] = "live" /\ ref[s] = 1
      BY <2>3 DEF Init
    <3> QED
      BY <2>1, <2>2, <3>1 DEF LifeInv
  <2>4. CASE s \notin Booted
    <3>1. mq[s] = "none" /\ ctx[s] = "none" /\ ref[s] = 0 /\ ~slot[s]
      BY <2>4 DEF Init
    <3> QED
      BY <2>1, <2>2, <3>1 DEF LifeInv
  <2> QED
    BY <2>3, <2>4
<1>4. Queued = Booted
  BY DEF Init, Queued, Booted
<1>5. ASSUME NEW s \in Service PROVE OwnerInv(s)
  <2>1. Hands(s) = {}
    BY <1>0 DEF Init, Hands
  <2>2. \A t \in Thread : dropping[t] # s
    BY <1>0 DEF Init
  <2> QED
    BY <1>4, <2>1, <2>2 DEF Init, OwnerInv
<1>6. OnceInv /\ QueuedOnce
  BY SkynetMqAssumption DEF Init, OnceInv, QueuedOnce
<1> QED
  BY <1>0, <1>1, <1>2, <1>3, <1>5, <1>6 DEF MqInv, RefsCounted

LEMMA MqStep == MqInv /\ [Next]_vars => MqInv'
<1> SUFFICES ASSUME MqInv, [Next]_vars PROVE MqInv'
  OBVIOUS
<1>1. RefsCounted'
  BY TypeStep, CountStep DEF RefsCounted
<1>2. (\A t \in Thread : LayerInv(t)')
  BY LayerStep
<1>3. \A s \in Service : LifeInv(s)' /\ OwnerInv(s)'
  BY LifeStep, OwnerStep
<1> QED
  BY <1>1, <1>2, <1>3, OnceStep, OwnerStep DEF MqInv

\* The invariant of the skynet core: the layers of every thread fit together,
\* and every service and mailbox is at one place of its life, whatever the
\* threads do (skynet_mq.c, skynet_server.c, skynet_start.c).
THEOREM Inductive == Spec => []MqInv
<1>1. MqInv /\ UNCHANGED vars => MqInv'
  BY MqStep
<1> QED
  BY MqInit, MqStep, <1>1, PTL DEF Spec

\* The variables have their types and the count of references of every context
\* is exact, with any number of threads and services (skynet_server.c:139, 221,
\* 307-349).
THEOREM Counted == Spec => []RefsCounted
<1>1. MqInv => RefsCounted
  BY DEF MqInv
<1> QED
  BY Inductive, <1>1, PTL

LEMMA OwnersSplit ==
  ASSUME NEW s
  PROVE  /\ Owners(s) = ({"global"} \X {i \in DOMAIN global : global[i] = s})
                          \cup Hands(s)
         /\ s \in Queued <=> \E i \in DOMAIN global : global[i] = s
<1>1. Owners(s) = ({"global"} \X {i \in DOMAIN global : global[i] = s}) \cup Hands(s)
  BY DEF Owners, Hands
<1>2. s \in Queued <=> \E i \in DOMAIN global : global[i] = s
  BY DEF Queued
<1> QED
  BY <1>1, <1>2

\* A mailbox never has two owners: no two workers dispatch one service, and
\* only its owner frees it (skynet_mq.c:165, 203, 224, 243).
THEOREM OwnedOnce == Spec => []OneOwner
<1>1. ASSUME MqInv PROVE OneOwner
  <2> SUFFICES ASSUME NEW s \in Service, NEW o \in Owners(s), NEW p \in Owners(s)
               PROVE  o = p
    BY DEF OneOwner
  <2>1. /\ s \in Queued => Hands(s) = {}
        /\ \A h, k \in Hands(s) : h = k
        /\ QueuedOnce
    BY <1>1 DEF MqInv, OwnerInv
  <2>2. CASE s \in Queued
    BY <2>1, <2>2, OwnersSplit DEF QueuedOnce
  <2>3. CASE s \notin Queued
    <3>1. o \in Hands(s) /\ p \in Hands(s)
      BY <2>3, OwnersSplit
    <3> QED
      BY <2>1, <3>1
  <2> QED
    BY <2>2, <2>3
<1> QED
  BY Inductive, <1>1, PTL

\* A mailbox with messages, or one that waits to be freed, is never without an
\* owner: no push, last pop or last release leaves it behind (skynet_mq.c:165,
\* 203, 224).
THEOREM NeverStranded == Spec => []NoneStranded
<1>1. ASSUME MqInv PROVE NoneStranded
  <2> SUFFICES ASSUME NEW s \in Service, mq[s] = "live",
                      queue[s] # <<>> \/ release[s]
               PROVE  Owners(s) # {}
    BY DEF NoneStranded
  <2>1. s \in Queued \/ Hands(s) # {}
    BY <1>1 DEF MqInv, OwnerInv
  <2>2. CASE s \in Queued
    <3>1. PICK i \in DOMAIN global : global[i] = s
      BY <2>2, OwnersSplit
    <3>2. <<"global", i>> \in Owners(s)
      BY <3>1 DEF Owners
    <3> QED
      BY <3>2
  <2> QED
    BY <2>1, <2>2, OwnersSplit
<1> QED
  BY Inductive, <1>1, PTL

\* No thread uses a context or a mailbox that was freed, however its service is
\* killed (skynet_server.c:221-241, skynet_mq.c:224-248).
THEOREM NeverAfterFree == Spec => []NoUseAfterFree
<1>1. ASSUME MqInv PROVE NoUseAfterFree
  <2>0. TypeOK /\ \A t \in Thread : LayerInv(t)
    BY <1>1 DEF MqInv, RefsCounted
  <2>1. ASSUME NEW s \in Service, Holders(s) # {} PROVE ctx[s] = "live"
    BY <1>1, <2>1, NotDead
  <2>2. ASSUME NEW s \in Service, Owners(s) # {} PROVE mq[s] = "live"
    <3>1. s \in Queued \/ Hands(s) # {}
      BY <2>2, OwnersSplit
    <3> QED
      BY <1>1, <3>1 DEF MqInv, OwnerInv
  <2>3. ASSUME NEW t \in Thread, act[t] = "push" PROVE mq[tgt[t]] = "live"
    <3>1. tgt[t] \in Service /\ <<"act", t>> \in Holders(tgt[t])
      BY <2>0, <2>3, Layered DEF Holders
    <3>2. mq[tgt[t]] # "freed"
      BY <1>1, <3>1, NotDead
    <3>3. mq[tgt[t]] # "none"
      BY <1>1, <2>3, <3>1 DEF MqInv, LifeInv
    <3> QED
      BY <2>0, <3>1, <3>2, <3>3 DEF TypeOK
  <2>4. ASSUME NEW t \in Thread, del[t] # "idle" PROVE ctx[dead[t]] = "live"
    <3>1. dead[t] \in Service
      BY <2>0, <2>4, Layered
    <3> QED
      BY <1>1, <3>1 DEF MqInv, LifeInv
  <2>5. ASSUME NEW t \in Thread, del[t] = "mark" PROVE mq[dead[t]] = "live"
    BY <1>1, <2>5, Unmarked
  <2> QED
    BY <2>1, <2>2, <2>3, <2>4, <2>5 DEF NoUseAfterFree
<1> QED
  BY Inductive, <1>1, PTL
-----------------------------------------------------------------------------
(* A service is an actor.                                                  *)

Lives == [s \in Service |-> Life(s)]
Served == [s \in Service |-> Serving(s)]

\* The message that Serving names: a mailbox has one owner.
LEMMA ServesNone ==
  ASSUME NEW s
  PROVE  /\ (\A u \in Thread : ~(cur[u] = s /\ hand[u] # None)) => Serving(s) = None
         /\ (\A u \in Thread : ~(cur'[u] = s /\ hand'[u] # None)) => Serving(s)' = None
<1>1. ASSUME \A u \in Thread : ~(cur[u] = s /\ hand[u] # None)
      PROVE  Serving(s) = None
  <2>1. {u \in Thread : cur[u] = s /\ hand[u] # None} = {}
    BY <1>1
  <2> QED
    BY <2>1 DEF Serving
<1>2. ASSUME \A u \in Thread : ~(cur'[u] = s /\ hand'[u] # None)
      PROVE  Serving(s)' = None
  <2>1. {u \in Thread : cur'[u] = s /\ hand'[u] # None} = {}
    BY <1>2
  <2> QED
    BY <2>1 DEF Serving
<1> QED
  BY <1>1, <1>2

LEMMA ServesOne ==
  ASSUME NEW s, NEW t \in Thread
  PROVE  /\ (\A u \in Thread : cur[u] = s /\ hand[u] # None <=> u = t)
              => Serving(s) = hand[t]
         /\ (\A u \in Thread : cur'[u] = s /\ hand'[u] # None <=> u = t)
              => Serving(s)' = hand'[t]
<1>1. (CHOOSE u \in {t} : TRUE) = t
  OBVIOUS
<1>2. ASSUME \A u \in Thread : cur[u] = s /\ hand[u] # None <=> u = t
      PROVE  Serving(s) = hand[t]
  <2>1. {u \in Thread : cur[u] = s /\ hand[u] # None} = {t}
    BY <1>2
  <2> QED
    BY <1>1, <2>1 DEF Serving
<1>3. ASSUME \A u \in Thread : cur'[u] = s /\ hand'[u] # None <=> u = t
      PROVE  Serving(s)' = hand'[t]
  <2>1. {u \in Thread : cur'[u] = s /\ hand'[u] # None} = {t}
    BY <1>3
  <2> QED
    BY <1>1, <2>1 DEF Serving
<1> QED
  BY <1>2, <1>3

LEMMA ServesAlone ==
  ASSUME MqInv, NEW s \in Service, NEW t \in Thread, NEW u \in Thread,
         cur[t] = s, cur[u] = s
  PROVE  t = u
<1>1. <<"cur", t>> \in Hands(s) /\ <<"cur", u>> \in Hands(s)
  BY DEF Hands
<1> QED
  BY <1>1 DEF MqInv, OwnerInv

\* A worker with a message holds a reference besides those that are released.
LEMMA ServesHeld ==
  ASSUME MqInv, NEW s \in Service, NEW h \in Holders(s), ref[s] = 1,
         NEW u \in Thread, cur[u] = s, hand[u] # None
  PROVE  h = <<"turn", u>> /\ work[u] = "handle"
<1>1. work[u] = "handle" /\ hold[u] = s
  BY DEF MqInv, LayerInv, Turn
<1>2. <<"turn", u>> \in Holders(s)
  BY <1>1 DEF Holders
<1>3. Cardinality(Holders(s)) = 1 /\ IsFiniteSet(Holders(s))
  BY HoldersFinite DEF MqInv, RefsCounted
<1>4. Cardinality(Holders(s) \ {h}) = 0 /\ IsFiniteSet(Holders(s) \ {h})
  BY <1>3, FS_RemoveElement
<1>5. Holders(s) \ {h} = {}
  BY <1>4, FS_EmptySet
<1> QED
  BY <1>1, <1>2, <1>5

LEMMA ActorInit == Init => Actors!Init
<1> SUFFICES ASSUME Init PROVE Actors!Init
  OBVIOUS
<1>1. ASSUME NEW s \in Service PROVE Life(s) \in {"none", "open"}
  BY <1>1 DEF Init, Life
<1>2. ASSUME NEW s \in Service PROVE Serving(s) = None
  BY ServesNone DEF Init
<1> QED
  BY <1>1, <1>2 DEF Actors!Init, Init

LEMMA ActorStep ==
  ASSUME MqInv, [Next]_vars
  PROVE  [Actors!Next]_<<Lives, queue, Served>>
<1>0. /\ TypeOK /\ (\A t \in Thread : LayerInv(t)) /\ None \notin Service \cup Mail
      /\ OnceInv
  BY SkynetMqAssumption DEF MqInv, RefsCounted
<1> DEFINE Goal == Actors!Next \/ UNCHANGED <<Lives, queue, Served>>
\* A life that goes on, and a message that is worked on still.
<1>l. ASSUME NEW s \in Service, mq'[s] = mq[s], ref'[s] = 0 <=> ref[s] = 0
      PROVE  Life(s)' = Life(s)
  BY <1>l DEF Life
<1>s. ASSUME NEW s \in Service,
             \A u \in Thread : \/ cur'[u] = cur[u] /\ hand'[u] = hand[u]
                               \/ hand[u] = None /\ hand'[u] = None
                               \/ cur[u] # s /\ cur'[u] # s
      PROVE  Serving(s)' = Serving(s)
  <2>1. CASE \A u \in Thread : ~(cur[u] = s /\ hand[u] # None)
    BY <1>s, <2>1, ServesNone
  <2>2. CASE \E u \in Thread : cur[u] = s /\ hand[u] # None
    <3>1. PICK t \in Thread : cur[t] = s /\ hand[t] # None
      BY <2>2
    <3>2. \A u \in Thread : cur[u] = s /\ hand[u] # None <=> u = t
      BY <3>1, ServesAlone
    <3>3. \A u \in Thread : cur'[u] = s /\ hand'[u] # None <=> u = t
      BY <1>s, <3>2
    <3> QED
      BY <1>s, <3>1, <3>2, <3>3, ServesOne
  <2> QED
    BY <2>1, <2>2
\* A step that changes no life, no mailbox and no message in work.
<1>q. ASSUME \A s \in Service : mq'[s] = mq[s] /\ (ref'[s] = 0 <=> ref[s] = 0),
             UNCHANGED queue,
             \A u \in Thread : hand[u] # None \/ hand'[u] # None =>
               cur'[u] = cur[u] /\ hand'[u] = hand[u]
      PROVE  Goal
  BY <1>l, <1>q, <1>s DEF Lives, Served
\* A release closes a service when it gives away the last reference.
<1>r. ASSUME NEW t \in Thread, NEW v \in Service, NEW h \in Holders(v),
             h = <<"turn", t>> => work[t] # "handle",
             \A u \in Thread : h = <<"turn", u>> => u = t,
             mq[v] # "none", Release(t, v), UNCHANGED <<mq, queue, cur, hand>>
      PROVE  Goal
  <2>0. ref[v] \in Nat \ {0}
    BY Held DEF MqInv
  <2>1. \A s \in Service : Serving(s)' = Serving(s)
    BY <1>r, <1>s
  <2>2. ref'[v] = ref[v] - 1 /\ \A s \in Service \ {v} : ref'[s] = ref[s]
    BY <1>0, <1>r DEF Release, TypeOK
  <2>3. CASE ref[v] = 1
    <3>1. Serving(v) = None
      BY <1>r, <2>3, ServesHeld, ServesNone
    <3>2. Life(v) = "open" /\ Life(v)' = "closed"
      BY <1>r, <2>0, <2>2, <2>3 DEF Life
    <3>3. \A s \in Service \ {v} : Life(s)' = Life(s)
      BY <1>l, <1>r, <2>2
    <3>4. Lives' = [Lives EXCEPT ![v] = "closed"] /\ Lives[v] = "open"
      BY <3>2, <3>3 DEF Lives
    <3>5. UNCHANGED <<queue, Served>> /\ Served[v] = None
      BY <1>r, <2>1, <3>1 DEF Served
    <3> QED
      BY <3>4, <3>5 DEF Actors!Next, Actors!Close, Lives, Served
  <2>4. CASE ref[v] # 1
    <3>1. \A s \in Service : ref'[s] = 0 <=> ref[s] = 0
      BY <2>0, <2>2, <2>4
    <3> QED
      BY <1>l, <1>r, <2>1, <3>1 DEF Lives, Served
  <2> QED
    BY <2>3, <2>4
<1> USE DEF mqVars, ctxVars, workVars, makeVars, actVars, delVars, sleepVars,
            mailVars, ActTop, DropTop, MakeTop, WorkTop, Goto
<1> HIDE DEF Goal
<1>1. ASSUME NEW t \in Thread, MarkRelease(t) PROVE Goal
  BY <1>q, <1>1 DEF MarkRelease
<1>2. ASSUME NEW t \in Thread, FreeContext(t) PROVE Goal
  BY <1>q, <1>2 DEF FreeContext
<1>3. ASSUME NEW t \in Thread, SendGrab(t) PROVE Goal
  <2>1. tgt[t] \in Service
    BY <1>0, <1>3, Layered DEF SendGrab
  <2>2. slot[tgt[t]] => ref[tgt[t]] \in Nat \ {0}
    <3>1. slot[tgt[t]] => <<"storage", tgt[t]>> \in Holders(tgt[t])
      BY DEF Holders
    <3> QED
      BY <2>1, <3>1, Held DEF MqInv
  <2>3. \A s \in Service : ref'[s] = 0 <=> ref[s] = 0
    BY <1>0, <1>3, <2>1, <2>2 DEF SendGrab, TypeOK
  <2> QED
    BY <1>q, <1>3, <2>3 DEF SendGrab
<1>4. ASSUME NEW t \in Thread, SendRefused(t) PROVE Goal
  BY <1>q, <1>4 DEF SendRefused
<1>5. ASSUME NEW t \in Thread, SendPush(t) PROVE Goal
  <2>1. tgt[t] \in Service /\ mail[t] \in Mail /\ <<"act", t>> \in Holders(tgt[t])
    BY <1>0, <1>5, Layered DEF SendPush, Holders
  <2>2. mq[tgt[t]] # "none" /\ ref[tgt[t]] # 0
    <3>1. mq[tgt[t]] # "none"
      BY <1>5, <2>1 DEF SendPush, MqInv, LifeInv
    <3> QED
      BY <2>1, <3>1, Held DEF MqInv
  <2>3. Lives[tgt[t]] = "open"
    BY <2>1, <2>2 DEF Lives, Life
  <2>4. UNCHANGED <<Lives, Served>>
    BY <1>l, <1>s, <1>5 DEF SendPush, Lives, Served
  <2>5. queue' = [queue EXCEPT ![tgt[t]] = Append(@, mail[t])]
    BY <1>5 DEF SendPush
  <2> QED
    BY <2>1, <2>3, <2>4, <2>5 DEF Goal, Actors!Next, Actors!Put, Lives, Served
<1>6. ASSUME NEW t \in Thread, ActRelease(t) PROVE Goal
  <2>1. tgt[t] \in Service /\ <<"act", t>> \in Holders(tgt[t])
    BY <1>0, <1>6, Layered DEF ActRelease, Holders
  <2>2. mq[tgt[t]] # "none"
    BY <1>6, <2>1 DEF ActRelease, MqInv, LifeInv
  <2>3. /\ <<"act", t>> = <<"turn", t>> => work[t] # "handle"
        /\ \A u \in Thread : <<"act", t>> = <<"turn", u>> => u = t
    BY <1>6 DEF ActRelease
  <2> QED
    BY <1>r, <1>6, <2>1, <2>2, <2>3 DEF ActRelease
<1>7. ASSUME NEW t \in Thread, DropMessage(t) PROVE Goal
  <2>1. dropping[t] \in Service /\ <<"dropping", t>> \in Hands(dropping[t])
    BY <1>0, <1>7, Layered DEF DropMessage, Hands
  <2>2. mq[dropping[t]] = "live" /\ ref[dropping[t]] = 0
    <3>1. mq[dropping[t]] = "live"
      BY <2>1, OnlyHand
    <3>2. release[dropping[t]]
      BY <2>1 DEF MqInv, OwnerInv
    <3> QED
      BY <2>1, <3>1, <3>2 DEF MqInv, LifeInv
  <2>3. Lives[dropping[t]] = "closed"
    BY <2>1, <2>2 DEF Lives, Life
  <2>4. UNCHANGED <<Lives, Served>>
    BY <1>l, <1>s, <1>7 DEF DropMessage, Lives, Served
  <2>5. /\ queue[dropping[t]] # <<>>
        /\ queue' = [queue EXCEPT ![dropping[t]] = Tail(@)]
    BY <1>7 DEF DropMessage
  <2> QED
    BY <2>1, <2>3, <2>4, <2>5 DEF Goal, Actors!Next, Actors!Drop, Lives, Served
<1>8. ASSUME NEW t \in Thread, DropEnd(t) PROVE Goal
  <2>1. dropping[t] \in Service /\ <<"dropping", t>> \in Hands(dropping[t])
    BY <1>0, <1>8, Layered DEF DropEnd, Hands
  <2>2. mq[dropping[t]] = "live" /\ ref[dropping[t]] = 0
    <3>1. mq[dropping[t]] = "live"
      BY <2>1, OnlyHand
    <3>2. release[dropping[t]]
      BY <2>1 DEF MqInv, OwnerInv
    <3> QED
      BY <2>1, <3>1, <3>2 DEF MqInv, LifeInv
  <2>3. \A s \in Service : Life(s)' = Life(s)
    BY <1>0, <1>8, <2>1, <2>2 DEF DropEnd, Life, TypeOK
  <2>4. \A s \in Service : Serving(s)' = Serving(s)
    BY <1>s, <1>8 DEF DropEnd
  <2> QED
    BY <1>8, <2>3, <2>4 DEF DropEnd, Goal, Lives, Served
<1>9. ASSUME NEW t \in Thread, Create(t) PROVE Goal
  <2>1. new[t] \in Service /\ <<"launch", t>> \in Holders(new[t])
    BY <1>0, <1>9, Layered DEF Create, Holders
  <2>2. mq[new[t]] = "none" /\ ref[new[t]] # 0
    <3>1. Creating(new[t])
      BY <1>9 DEF Create, Creating
    <3>2. ref[new[t]] # 0
      BY <2>1, Held DEF MqInv
    <3> QED
      BY <2>1, <3>1, <3>2 DEF MqInv, LifeInv
  <2>3. \A s \in Service : Serving(s)' = Serving(s)
    BY <1>s, <1>9 DEF Create
  <2>4. Lives' = [Lives EXCEPT ![new[t]] = "open"] /\ Lives[new[t]] = "none"
    <3>1. \A s \in Service : Life(s)' = IF s = new[t] THEN "open" ELSE Life(s)
      BY <1>0, <1>9, <2>1, <2>2 DEF Create, Life, TypeOK
    <3> QED
      BY <2>1, <2>2, <3>1 DEF Lives, Life
  <2>5. UNCHANGED <<queue, Served>>
    BY <1>9, <2>3 DEF Create, Served
  <2> QED
    BY <2>1, <2>4, <2>5 DEF Goal, Actors!Next, Actors!Open, Lives, Served
<1>10. ASSUME NEW t \in Thread, InitDone(t) PROVE Goal
  <2>1. new[t] \in Service /\ <<"launch", t>> \in Holders(new[t])
    BY <1>0, <1>10, Layered DEF InitDone, Holders
  <2>2. mq[new[t]] # "none"
    BY <1>10, <2>1 DEF InitDone, MqInv, LifeInv
  <2>3. /\ <<"launch", t>> = <<"turn", t>> => work[t] # "handle"
        /\ \A u \in Thread : <<"launch", t>> = <<"turn", u>> => u = t
    BY <1>10 DEF InitDone
  <2> QED
    BY <1>r, <1>10, <2>1, <2>2, <2>3 DEF InitDone
<1>11. ASSUME NEW t \in Thread, Launched(t) PROVE Goal
  BY <1>q, <1>11 DEF Launched
<1>12. ASSUME NEW t \in Thread, Refused(t) PROVE Goal
  BY <1>q, <1>12 DEF Refused, Retire
<1>13. ASSUME NEW t \in Thread, RefusedMq(t) PROVE Goal
  BY <1>q, <1>13 DEF RefusedMq, MqRelease
<1>14. ASSUME NEW t \in Thread, Top(t) PROVE Goal
  BY <1>q, <1>14 DEF Top
<1>15. ASSUME NEW t \in Thread, PopGlobal(t) PROVE Goal
  <2>1. hand[t] = None
    BY <1>0, <1>15 DEF PopGlobal, LayerInv
  <2>2. \A u \in Thread : u # t => cur'[u] = cur[u]
    BY <1>0, <1>15 DEF PopGlobal, TypeOK
  <2> QED
    BY <1>q, <1>15, <2>1, <2>2 DEF PopGlobal
<1>16. ASSUME NEW t \in Thread, Grab(t) PROVE Goal
  <2>1. cur[t] \in Service
    BY <1>0, <1>16, Layered DEF Grab
  <2>2. slot[cur[t]] => ref[cur[t]] \in Nat \ {0}
    <3>1. slot[cur[t]] => <<"storage", cur[t]>> \in Holders(cur[t])
      BY DEF Holders
    <3> QED
      BY <2>1, <3>1, Held DEF MqInv
  <2>3. \A s \in Service : ref'[s] = 0 <=> ref[s] = 0
    BY <1>0, <1>16, <2>1, <2>2 DEF Grab, TypeOK
  <2> QED
    BY <1>q, <1>16, <2>3 DEF Grab
<1>17. ASSUME NEW t \in Thread, WorkMqRelease(t) PROVE Goal
  <2>1. hand[t] = None
    BY <1>0, <1>17 DEF WorkMqRelease, LayerInv
  <2>2. \A u \in Thread : u # t => cur'[u] = cur[u]
    BY <1>0, <1>17 DEF WorkMqRelease, TypeOK
  <2> QED
    BY <1>q, <1>17, <2>1, <2>2 DEF WorkMqRelease
<1>18. ASSUME NEW t \in Thread, PopMail(t) PROVE Goal
  <2>1. /\ cur[t] \in Service /\ Head(queue[cur[t]]) \in Mail
        /\ hold[t] = cur[t] /\ hand[t] = None
    BY <1>0, <1>18, PopsMail DEF PopMail, LayerInv, Turn
  <2>2. ref[cur[t]] # 0 /\ mq[cur[t]] = "live"
    <3>1. <<"turn", t>> \in Holders(cur[t]) /\ <<"cur", t>> \in Hands(cur[t])
      BY <2>1 DEF Holders, Hands
    <3> QED
      BY <2>1, <3>1, Held, OnlyHand DEF MqInv
  <2>3. Lives[cur[t]] = "open"
    BY <2>1, <2>2 DEF Lives, Life
  <2>4. Lives' = Lives
    BY <1>l, <1>18 DEF PopMail, Lives
  <2>5. Serving(cur[t]) = None
    BY <2>1, ServesAlone, ServesNone
  <2>6. ASSUME NEW s \in Service, s = cur[t]
        PROVE  Serving(s)' = Head(queue[cur[t]])
    <3>1. \A u \in Thread : cur'[u] = s /\ hand'[u] # None <=> u = t
      BY <1>0, <1>18, <2>1, <2>6, ServesAlone DEF PopMail, TypeOK
    <3>2. hand'[t] = Head(queue[cur[t]])
      BY <1>0, <1>18 DEF PopMail, TypeOK
    <3> QED
      BY <3>1, <3>2, ServesOne
  <2>7. ASSUME NEW s \in Service, s # cur[t] PROVE Serving(s)' = Serving(s)
    BY <1>s, <1>18, <2>7, <1>0 DEF PopMail, TypeOK
  <2>8. Served' = [Served EXCEPT ![cur[t]] = Head(queue[cur[t]])] /\ Served[cur[t]] = None
    BY <2>1, <2>5, <2>6, <2>7 DEF Served
  <2>9. queue[cur[t]] # <<>> /\ queue' = [queue EXCEPT ![cur[t]] = Tail(@)]
    BY <1>18 DEF PopMail
  <2> QED
    BY <2>1, <2>3, <2>4, <2>8, <2>9 DEF Goal, Actors!Next, Actors!Take, Lives,
       Served
<1>19. ASSUME NEW t \in Thread, PopEmpty(t) PROVE Goal
  <2>1. hand[t] = None
    BY <1>0, <1>19 DEF PopEmpty, LayerInv
  <2>2. \A u \in Thread : u # t => cur'[u] = cur[u]
    BY <1>0, <1>19 DEF PopEmpty, TypeOK
  <2> QED
    BY <1>q, <1>19, <2>1, <2>2 DEF PopEmpty
<1>20. ASSUME NEW t \in Thread, Handled(t) PROVE Goal
  <2>1. cur[t] \in Service /\ hand[t] # None
    BY <1>0, <1>20, Layered DEF Handled, LayerInv, Turn
  <2>2. Lives' = Lives /\ queue' = queue
    BY <1>l, <1>20 DEF Handled, Lives
  <2>3. Serving(cur[t]) # None
    <3>1. \A u \in Thread : cur[u] = cur[t] /\ hand[u] # None <=> u = t
      BY <2>1, ServesAlone
    <3>2. Serving(cur[t]) = hand[t]
      BY <3>1, ServesOne
    <3> QED
      BY <2>1, <3>2
  <2>4. ASSUME NEW s \in Service, s = cur[t] PROVE Serving(s)' = None
    <3>1. \A u \in Thread : ~(cur'[u] = s /\ hand'[u] # None)
      BY <1>0, <1>20, <2>1, <2>4, ServesAlone DEF Handled, TypeOK
    <3> QED
      BY <3>1, ServesNone
  <2>5. ASSUME NEW s \in Service, s # cur[t] PROVE Serving(s)' = Serving(s)
    BY <1>s, <1>20, <2>5, <1>0 DEF Handled, TypeOK
  <2>6. Served' = [Served EXCEPT ![cur[t]] = None] /\ Served[cur[t]] # None
    BY <2>1, <2>3, <2>4, <2>5 DEF Served
  <2> QED
    BY <2>1, <2>2, <2>6 DEF Goal, Actors!Next, Actors!Finish, Lives, Served
<1>21. ASSUME NEW t \in Thread, NextMq(t) PROVE Goal
  BY <1>q, <1>21 DEF NextMq
<1>22. ASSUME NEW t \in Thread, PushBack(t) PROVE Goal
  <2>1. hand[t] = None
    BY <1>0, <1>22 DEF PushBack, LayerInv
  <2>2. \A u \in Thread : u # t => cur'[u] = cur[u]
    BY <1>0, <1>22 DEF PushBack, TypeOK
  <2> QED
    BY <1>q, <1>22, <2>1, <2>2 DEF PushBack
<1>23. ASSUME NEW t \in Thread, TurnRelease(t) PROVE Goal
  <2>1. hold[t] \in Service /\ <<"turn", t>> \in Holders(hold[t])
    BY <1>0, <1>23, Layered DEF TurnRelease, Holders
  <2>2. mq[hold[t]] # "none"
    BY <1>23, <2>1 DEF TurnRelease, MqInv, LifeInv
  <2>3. /\ <<"turn", t>> = <<"turn", t>> => work[t] # "handle"
        /\ \A u \in Thread : <<"turn", t>> = <<"turn", u>> => u = t
    BY <1>23 DEF TurnRelease
  <2> QED
    BY <1>r, <1>23, <2>1, <2>2, <2>3 DEF TurnRelease
<1>24. ASSUME NEW t \in Thread, GoToSleep(t) PROVE Goal
  BY <1>q, <1>24 DEF GoToSleep
<1>25. ASSUME NEW t \in Thread, WakeUp(t) PROVE Goal
  BY <1>q, <1>25 DEF WakeUp
<1>26. ASSUME NEW t \in Thread, SocketWake(t) PROVE Goal
  BY <1>q, <1>26 DEF SocketWake, Signal, Thread
<1>27. ASSUME NEW t \in Thread, NEW v \in Service, Kill(t, v) PROVE Goal
  BY <1>q, <1>27 DEF Kill, Retire, Running
<1>28. ASSUME NEW t \in Thread, NEW v \in Service, Register(t, v) PROVE Goal
  <2>1. mq[v] = "none"
    BY <1>28 DEF Register, MqInv, LifeInv
  <2>2. \A s \in Service : Life(s)' = Life(s)
    BY <1>0, <1>28, <2>1 DEF Register, Life, TypeOK
  <2>3. \A s \in Service : Serving(s)' = Serving(s)
    BY <1>s, <1>28 DEF Register
  <2> QED
    BY <1>28, <2>2, <2>3 DEF Register, Goal, Lives, Served
<1>29. ASSUME NEW t \in Thread, NEW v \in Service, NEW m \in Msg, BeginSend(t, v, m)
       PROVE  Goal
  BY <1>q, <1>29 DEF BeginSend, Running
<1>30. ASSUME Tick PROVE Goal
  BY <1>q, <1>30 DEF Tick, Signal, Thread
<1>31. ASSUME Abort PROVE Goal
  BY <1>q, <1>31 DEF Abort
<1>32. CASE UNCHANGED vars
  BY <1>q, <1>32 DEF vars, Goal
<1> QED
  BY NextCases, <1>1, <1>2, <1>3, <1>4, <1>5, <1>6, <1>7, <1>8, <1>9, <1>10,
     <1>11, <1>12, <1>13, <1>14, <1>15, <1>16, <1>17, <1>18, <1>19, <1>20,
     <1>21, <1>22, <1>23, <1>24, <1>25, <1>26, <1>27, <1>28, <1>29, <1>30,
     <1>31, <1>32 DEF ThreadStep, Goal

\* A service is an actor: one message at a time, in the order they came, each
\* once, and only those of a service that is gone are dropped, for any number of
\* workers (skynet_server.c:268-349, skynet_mq.c:150-248).
THEOREM Acts == Spec => IsActor
<1>1. MqInv /\ [Next]_vars => [Actors!Next]_<<Lives, queue, Served>>
  BY ActorStep
<1> QED
  BY Inductive, ActorInit, <1>1, PTL DEF Spec, IsActor, Actors!Spec, Lives, Served
=============================================================================
