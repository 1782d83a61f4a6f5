---------------------------- MODULE SkynetMqProps ----------------------------
(***************************************************************************)
(* What the skynet core should guarantee, stated over the state of         *)
(* SkynetMq, and the fairness of its threads.                              *)
(***************************************************************************)
EXTENDS SkynetMq

\* Who owns a mailbox: a place in the global queue, the worker that dispatches
\* it, the worker that took it to go on with, the thread that launches its
\* service, or the thread that empties it.
Owners(s) ==
  ({"global"} \X {i \in DOMAIN global : global[i] = s})
    \cup ({"cur"} \X {t \in Thread : cur[t] = s})
    \cup ({"nxt"} \X {t \in Thread : nxt[t] = s})
    \cup ({"new"} \X {t \in Thread : new[t] = s /\ make[t] # "create"})
    \cup ({"dropping"} \X {t \in Thread : dropping[t] = s})

\* A mailbox is in the global queue or with one thread, never twice: two workers
\* cannot dispatch one service, and only its owner frees it (skynet_mq.c:165,
\* 203, 224 and 243).
OneOwner == \A s \in Service : \A o, p \in Owners(s) : o = p

\* A mailbox that has messages, or waits to be freed, has an owner: the push, the
\* last pop and the last release leave none behind (skynet_mq.c:165, 203, 224).
NoneStranded ==
  \A s \in Service :
    mq[s] = "live" /\ (queue[s] # <<>> \/ release[s]) => Owners(s) # {}

\* Who holds a reference to a context: the handle storage, a worker in its turn,
\* a send or a retire, a launch.
Creating(s) == \E t \in Thread : new[t] = s /\ make[t] = "create"

Holders(s) ==
  (IF slot[s] \/ Creating(s) THEN {<<"storage", s>>} ELSE {})
    \cup ({"turn"} \X {t \in Thread : hold[t] = s})
    \cup ({"act"} \X {t \in Thread : tgt[t] = s /\ act[t] \in {"push", "release"}})
    \cup ({"launch"} \X {t \in Thread : new[t] = s /\ make[t] \in {"create", "init"}})

\* The variables have their types, and the count of references is exact,
\* whatever sends, turns, launches and kills overlap (skynet_server.c:139, 221,
\* 307-349).
RefsCounted ==
  /\ TypeOK
  /\ \A s \in Service : ref[s] = Cardinality(Holders(s))

\* No thread uses a context or a mailbox that was freed: one that it holds a
\* reference to, pushes to, dispatches, empties or is about to mark.
NoUseAfterFree ==
  /\ \A s \in Service : Holders(s) # {} => ctx[s] = "live"
  /\ \A s \in Service : Owners(s) # {} => mq[s] = "live"
  /\ \A t \in Thread : act[t] = "push" => mq[tgt[t]] = "live"
  /\ \A t \in Thread : del[t] # "idle" => ctx[dead[t]] = "live"
  /\ \A t \in Thread : del[t] = "mark" => mq[dead[t]] = "live"

\* A service is an Actor: one message at a time, in order, and nothing is lost
\* but what is in the mailbox of a service that is gone.
Life(s) ==
  IF mq[s] = "none" THEN "none" ELSE IF ref[s] = 0 THEN "closed" ELSE "open"
Serving(s) ==
  LET w == {t \in Thread : cur[t] = s /\ hand[t] # None}
  IN  IF w = {} THEN None ELSE hand[CHOOSE t \in w : TRUE]
Actors == INSTANCE Actor WITH
            Nothing <- None,
            life <- [s \in Service |-> Life(s)],
            box <- queue,
            serving <- [s \in Service |-> Serving(s)]
IsActor == Actors!Spec

-----------------------------------------------------------------------------
(* The same, made inductive.                                               *)

\* The mailboxes in the global queue, and the threads that own a mailbox.
Queued == {global[i] : i \in DOMAIN global}

Hands(s) ==
  ({"cur"} \X {t \in Thread : cur[t] = s})
    \cup ({"nxt"} \X {t \in Thread : nxt[t] = s})
    \cup ({"new"} \X {t \in Thread : new[t] = s /\ make[t] # "create"})
    \cup ({"dropping"} \X {t \in Thread : dropping[t] = s})

\* What a thread has in its hands at each place of its code.
Turn == {"first", "more", "handle", "next", "pushback"}

LayerInv(t) ==
  /\ t = Socket => work[t] \in {"poll", "wake", "ended"}
  /\ work[t] \in Turn \cup {"grab", "mqrelease"} => cur[t] # None
  /\ work[t] \in {"pop", "return", "tosleep", "asleep", "waking", "poll", "wake"}
       => cur[t] = None
  /\ nxt[t] # None <=> work[t] = "pushback"
  /\ hold[t] # None <=> work[t] \in Turn \cup {"release"}
  /\ work[t] \in Turn => hold[t] = cur[t]
  /\ hand[t] # None <=> work[t] = "handle"
  /\ work[t] = "more" => left[t] # 0
  /\ make[t] # "idle" <=> new[t] # None
  /\ make[t] # "idle" => work[t] = "handle"
  /\ dropping[t] # None => make[t] = "idle" /\ work[t] \in {"handle", "return"}
  /\ act[t] # "idle" <=> tgt[t] # None
  /\ act[t] \in {"grab", "push"} => mail[t] # None
  /\ del[t] # "idle" <=> dead[t] # None

\* The life of a service: it is registered, created, referred to until the count
\* is at zero, marked for release and freed, and its mailbox after that.
LifeInv(s) ==
  /\ ctx[s] = "none" => ref[s] = 0
  /\ mq[s] = "none" <=> ctx[s] = "none" \/ Creating(s)
  /\ mq[s] = "none" =>
       /\ ~slot[s]
       /\ \A t \in Thread :
            /\ hold[t] # s
            /\ new[t] = s => make[t] = "create"
            /\ tgt[t] = s => act[t] \notin {"push", "release"}
  /\ mq[s] = "freed" => release[s] /\ queue[s] = <<>>
  /\ \A t \in Thread : dead[t] = s => ctx[s] = "live" /\ ref[s] = 0
  /\ ctx[s] = "live" /\ ref[s] = 0 => \E t \in Thread : dead[t] = s
  /\ ctx[s] = "freed" => ref[s] = 0
  /\ release[s] <=> \/ ctx[s] = "freed"
                    \/ \E t \in Thread : dead[t] = s /\ del[t] = "free"

\* One thread launches a service, one deletes its context.
OnceInv ==
  \A t, u \in Thread :
    /\ new[t] = new[u] /\ new[t] # None => t = u
    /\ dead[t] = dead[u] /\ dead[t] # None => t = u

\* in_global says that a mailbox has an owner, and it has one as well when its
\* service is gone; a mailbox without in_global is empty.
OwnerInv(s) ==
  /\ mq[s] = "live" => (s \in Queued \/ Hands(s) # {} <=> inGlobal[s] \/ release[s])
  /\ s \in Queued \/ Hands(s) # {} => mq[s] = "live"
  /\ inGlobal[s] => mq[s] = "live"
  /\ queue[s] # <<>> => inGlobal[s]
  /\ s \in Queued => Hands(s) = {}
  /\ \A o, p \in Hands(s) : o = p
  /\ \A t \in Thread : dropping[t] = s => release[s]

QueuedOnce == \A i, j \in DOMAIN global : global[i] = global[j] => i = j

MqInv ==
  /\ RefsCounted
  /\ \A t \in Thread : LayerInv(t)
  /\ \A s \in Service : LifeInv(s) /\ OwnerInv(s)
  /\ OnceInv
  /\ QueuedOnce

-----------------------------------------------------------------------------
\* Threads run; the timer thread ticks every 2.5 ms.  Nothing is assumed of
\* what services and clients decide, nor of spurious wakeups.
Fairness ==
  /\ \A t \in Thread : WF_vars(ThreadStep(t))
  /\ WF_vars(Tick) /\ WF_vars(Abort)
FairSpec == Spec /\ Fairness

\* Every message in a mailbox is handled or dropped, although workers sleep
\* without looking (skynet_start.c:56-61, 163-176); unless all services are gone
\* and the process ends.  As each message is sent once, the mailboxes become
\* empty.
Delivered ==
  (\E m \in Mail : fate[m] = "boxed") ~> ((\A m \in Mail : fate[m] # "boxed") \/ quit)

\* Whoever sent a message that is dropped gets the error, or is gone too
\* (skynet_server.c:115).
Told(m) ==
  src[m] = None \/ fate[ErrorOf(m)] \in {"handled", "dropped", "refused"}
ErrorReported ==
  (\E m \in Msg : fate[m] = "dropped" /\ ~Told(m))
    ~> ((\A m \in Msg : fate[m] = "dropped" => Told(m)) \/ quit)

\* When the last service is gone every worker ends.
Exits == (total = 0) ~> \A t \in Worker : work[t] = "ended"
=============================================================================
