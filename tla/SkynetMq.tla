------------------------------- MODULE SkynetMq -------------------------------
(***************************************************************************)
(* The skynet core: services, their mailboxes, the global queue and the    *)
(* worker threads (skynet_mq.c, skynet_server.c, skynet_start.c).          *)
(*                                                                         *)
(* A thread is a stack of calls.  Each layer of the stack has its program  *)
(* counter and its locals: the loop of thread_worker and one turn of       *)
(* skynet_context_message_dispatch (work, cur, nxt, hold, left, hand); a   *)
(* skynet_context_new inside a handler (make, new); _drop_queue            *)
(* (dropping); one send, or the end of one retire (act, tgt, mail);        *)
(* delete_context (del, dead).  A layer runs when those after it are idle. *)
(*                                                                         *)
(* A step is one critical section of a spinlock or of the handle lock, or  *)
(* one atomic operation.  A handle stands for its service: 24 bits of      *)
(* handles are not used up (SkynetHandle looks into that).                 *)
(***************************************************************************)
EXTENDS Integers, Sequences, FiniteSets

CONSTANTS
  Service,
  Worker,        \* the worker threads
  Socket,        \* the socket thread; it only sends
  Msg,           \* the messages that are sent, each once
  WeightOf,      \* weight of a worker: -1 for one message a turn, or a shift
  Boot,          \* the services that run when the threads start, in order
  None

Thread == Worker \cup {Socket}
ErrorOf(m) == <<"error", m>>          \* the PTYPE_ERROR for a dropped message
Mail == Msg \cup {ErrorOf(m) : m \in Msg}

\* That a power of two is positive is arithmetic, but the provers do not know ^.
ASSUME SkynetMqAssumption ==
  /\ IsFiniteSet(Service) /\ IsFiniteSet(Worker)
  /\ Socket \notin Worker
  /\ WeightOf \in [Worker -> Nat \cup {-1}]
  /\ \A t \in Worker : WeightOf[t] # -1 => 2 ^ WeightOf[t] \in Nat \ {0}
  /\ Boot \in Seq(Service)
  /\ \A i, j \in DOMAIN Boot : Boot[i] = Boot[j] => i = j
  /\ None \notin Service \cup Thread \cup Mail
  /\ \A m \in Msg : ErrorOf(m) \notin Msg

VARIABLES
  global,      \* Q: the mailboxes in the global queue
  queue,       \* the messages of a mailbox
  inGlobal,    \* its in_global
  release,     \* its release
  mq,          \* "none", "live" or "freed"
  ctx,         \* the context of a service: "none", "live" or "freed"
  slot,        \* it is in the handle storage, with its handle
  ref,         \* its ref
  total,       \* G_NODE.total
  work, cur, nxt, hold, left, hand,
  make, new,
  dropping,
  act, tgt, mail,
  del, dead,
  sleep, quit, \* of struct monitor
  fate,        \* what became of a message
  src          \* the source of a message

mqVars    == <<global, queue, inGlobal, release, mq>>
ctxVars   == <<ctx, slot, ref, total>>
workVars  == <<work, cur, nxt, hold, left, hand>>
makeVars  == <<make, new>>
actVars   == <<act, tgt, mail>>
delVars   == <<del, dead>>
sleepVars == <<sleep, quit>>
mailVars  == <<fate, src>>
vars == <<mqVars, ctxVars, workVars, makeVars, dropping, actVars, delVars,
          sleepVars, mailVars>>

WorkPc == {"top", "grab", "first", "more", "handle", "next", "pushback",
           "release", "mqrelease", "pop", "return", "tosleep", "asleep", "waking",
           "ended", "poll", "wake"}
MakePc == {"idle", "create", "init", "launched", "refused", "mqrelease"}
ActPc  == {"idle", "grab", "push", "release"}
Fates  == {"unsent", "sending", "boxed", "taken", "handled", "dropped", "refused"}
SomeService == Service \cup {None}

TypeOK ==
  /\ global \in Seq(Service)
  /\ queue \in [Service -> Seq(Mail)]
  /\ inGlobal \in [Service -> BOOLEAN]
  /\ release \in [Service -> BOOLEAN]
  /\ mq \in [Service -> {"none", "live", "freed"}]
  /\ ctx \in [Service -> {"none", "live", "freed"}]
  /\ slot \in [Service -> BOOLEAN]
  /\ ref \in [Service -> Nat]
  /\ total \in Int
  /\ work \in [Thread -> WorkPc]
  /\ cur \in [Thread -> SomeService]
  /\ nxt \in [Thread -> SomeService]
  /\ hold \in [Thread -> SomeService]
  /\ left \in [Thread -> Nat]
  /\ hand \in [Thread -> Mail \cup {None}]
  /\ make \in [Thread -> MakePc]
  /\ new \in [Thread -> SomeService]
  /\ dropping \in [Thread -> SomeService]
  /\ act \in [Thread -> ActPc]
  /\ tgt \in [Thread -> SomeService]
  /\ mail \in [Thread -> Mail \cup {None}]
  /\ del \in [Thread -> {"idle", "mark", "free"}]
  /\ dead \in [Thread -> SomeService]
  /\ sleep \in Int
  /\ quit \in BOOLEAN
  /\ fate \in [Mail -> Fates]
  /\ src \in [Mail -> SomeService]

Booted == {Boot[i] : i \in DOMAIN Boot}

\* skynet_start: the logger and the bootstrap service run when the threads do.
Init ==
  /\ global = Boot
  /\ queue = [s \in Service |-> <<>>]
  /\ inGlobal = [s \in Service |-> s \in Booted]
  /\ release = [s \in Service |-> FALSE]
  /\ mq = [s \in Service |-> IF s \in Booted THEN "live" ELSE "none"]
  /\ ctx = [s \in Service |-> IF s \in Booted THEN "live" ELSE "none"]
  /\ slot = [s \in Service |-> s \in Booted]
  /\ ref = [s \in Service |-> IF s \in Booted THEN 1 ELSE 0]
  /\ total = Len(Boot)
  /\ work = [t \in Thread |-> IF t = Socket THEN "poll" ELSE "top"]
  /\ cur = [t \in Thread |-> None]
  /\ nxt = [t \in Thread |-> None]
  /\ hold = [t \in Thread |-> None]
  /\ left = [t \in Thread |-> 0]
  /\ hand = [t \in Thread |-> None]
  /\ make = [t \in Thread |-> "idle"]
  /\ new = [t \in Thread |-> None]
  /\ dropping = [t \in Thread |-> None]
  /\ act = [t \in Thread |-> "idle"]
  /\ tgt = [t \in Thread |-> None]
  /\ mail = [t \in Thread |-> None]
  /\ del = [t \in Thread |-> "idle"]
  /\ dead = [t \in Thread |-> None]
  /\ sleep = 0
  /\ quit = FALSE
  /\ fate = [m \in Mail |-> "unsent"]
  /\ src = [m \in Mail |-> None]

-----------------------------------------------------------------------------
\* Which layer of a thread may run.
ActTop(t)  == del[t] = "idle"
DropTop(t) == ActTop(t) /\ act[t] = "idle"
MakeTop(t) == DropTop(t) /\ dropping[t] = None
WorkTop(t) == MakeTop(t) /\ make[t] = "idle"

\* Code of a service runs: a handler, or the init function of a new service.
Running(t) ==
  /\ MakeTop(t)
  /\ \/ make[t] = "init"
     \/ make[t] = "idle" /\ work[t] = "handle"
Self(t) == IF make[t] = "init" THEN new[t] ELSE cur[t]

\* skynet_context_release: the last reference deletes the context.
Release(t, s) ==
  /\ ref' = [ref EXCEPT ![s] = @ - 1]
  /\ IF ref[s] = 1
     THEN /\ del' = [del EXCEPT ![t] = "mark"]
          /\ dead' = [dead EXCEPT ![t] = s]
     ELSE UNCHANGED delVars

\* delete_context: skynet_mq_mark_release.  in_global stays 0 when the mailbox
\* is put into the global queue here.
MarkRelease(t) ==
  LET s == dead[t] IN
  /\ del[t] = "mark"
  /\ release' = [release EXCEPT ![s] = TRUE]
  /\ global' = IF inGlobal[s] THEN global ELSE Append(global, s)
  /\ del' = [del EXCEPT ![t] = "free"]
  /\ UNCHANGED <<queue, inGlobal, mq, ctxVars, workVars, makeVars, dropping,
                 actVars, dead, sleepVars, mailVars>>

\* ... skynet_free and context_dec.
FreeContext(t) ==
  /\ del[t] = "free"
  /\ ctx' = [ctx EXCEPT ![dead[t]] = "freed"]
  /\ total' = total - 1
  /\ del' = [del EXCEPT ![t] = "idle"]
  /\ dead' = [dead EXCEPT ![t] = None]
  /\ UNCHANGED <<mqVars, slot, ref, workVars, makeVars, dropping, actVars,
                 sleepVars, mailVars>>

-----------------------------------------------------------------------------
(* skynet_send to a local service: skynet_context_push.                    *)

BeginSend(t, s, m) ==
  /\ \/ Running(t)
     \/ WorkTop(t) /\ work[t] = "poll"
  /\ mq[s] # "none"
  /\ fate[m] = "unsent" /\ m \in Msg
  /\ fate' = [fate EXCEPT ![m] = "sending"]
  /\ src' = [src EXCEPT ![m] = Self(t)]
  /\ act' = [act EXCEPT ![t] = "grab"]
  /\ tgt' = [tgt EXCEPT ![t] = s]
  /\ mail' = [mail EXCEPT ![t] = m]
  /\ work' = IF work[t] = "poll" THEN [work EXCEPT ![t] = "wake"] ELSE work
  /\ UNCHANGED <<mqVars, ctxVars, cur, nxt, hold, left, hand, makeVars,
                 dropping, delVars, sleepVars>>

\* skynet_handle_grab finds the service, ...
SendGrab(t) ==
  /\ ActTop(t) /\ act[t] = "grab"
  /\ slot[tgt[t]]
  /\ ref' = [ref EXCEPT ![tgt[t]] = @ + 1]
  /\ act' = [act EXCEPT ![t] = "push"]
  /\ UNCHANGED <<mqVars, ctx, slot, total, workVars, makeVars, dropping, tgt,
                 mail, delVars, sleepVars, mailVars>>

\* ... or not, and the message is freed.
SendRefused(t) ==
  /\ ActTop(t) /\ act[t] = "grab"
  /\ ~slot[tgt[t]]
  /\ fate' = [fate EXCEPT ![mail[t]] = "refused"]
  /\ act' = [act EXCEPT ![t] = "idle"]
  /\ tgt' = [tgt EXCEPT ![t] = None]
  /\ mail' = [mail EXCEPT ![t] = None]
  /\ UNCHANGED <<mqVars, ctxVars, workVars, makeVars, dropping, delVars,
                 sleepVars, src>>

\* Variant: in_global is not looked at.
BugPushAlways(t) ==
  LET s == tgt[t] IN
  /\ ActTop(t) /\ act[t] = "push"
  /\ queue' = [queue EXCEPT ![s] = Append(@, mail[t])]
  /\ fate' = [fate EXCEPT ![mail[t]] = "boxed"]
  /\ inGlobal' = [inGlobal EXCEPT ![s] = TRUE]
  /\ global' = Append(global, s)
  /\ act' = [act EXCEPT ![t] = "release"]
  /\ UNCHANGED <<release, mq, ctxVars, workVars, makeVars, dropping, tgt, mail,
                 delVars, sleepVars, src>>

\* skynet_mq_push.
SendPush(t) ==
  LET s == tgt[t] IN
  /\ ActTop(t) /\ act[t] = "push"
  /\ queue' = [queue EXCEPT ![s] = Append(@, mail[t])]
  /\ fate' = [fate EXCEPT ![mail[t]] = "boxed"]
  /\ inGlobal' = [inGlobal EXCEPT ![s] = TRUE]
  /\ global' = IF inGlobal[s] THEN global ELSE Append(global, s)
  /\ act' = [act EXCEPT ![t] = "release"]
  /\ UNCHANGED <<release, mq, ctxVars, workVars, makeVars, dropping, tgt, mail,
                 delVars, sleepVars, src>>

\* The release of the target at the end of a send or of a retire.
ActRelease(t) ==
  /\ ActTop(t) /\ act[t] = "release"
  /\ Release(t, tgt[t])
  /\ act' = [act EXCEPT ![t] = "idle"]
  /\ tgt' = [tgt EXCEPT ![t] = None]
  /\ mail' = [mail EXCEPT ![t] = None]
  /\ UNCHANGED <<mqVars, ctx, slot, total, workVars, makeVars, dropping,
                 sleepVars, mailVars>>

\* skynet_handle_retire from EXIT, KILL and ABORT: the storage gives its
\* reference to this thread.
Retire(t, s) ==
  /\ slot[s]
  /\ slot' = [slot EXCEPT ![s] = FALSE]
  /\ act' = [act EXCEPT ![t] = "release"]
  /\ tgt' = [tgt EXCEPT ![t] = s]

Kill(t, s) ==
  /\ Running(t)
  /\ Retire(t, s)
  /\ UNCHANGED <<mqVars, ctx, ref, total, workVars, makeVars, dropping, mail,
                 delVars, sleepVars, mailVars>>

-----------------------------------------------------------------------------
(* skynet_mq_release and _drop_queue.                                      *)

\* Variant: release is not looked at.
BugDropAlways(t, s) ==
  /\ dropping' = [dropping EXCEPT ![t] = s]
  /\ UNCHANGED global

MqRelease(t, s) ==
  IF release[s]
  THEN /\ dropping' = [dropping EXCEPT ![t] = s]
       /\ UNCHANGED global
  ELSE /\ global' = Append(global, s)
       /\ UNCHANGED dropping

\* Variant: the message is freed and nobody is told.
BugDropMessage(t) ==
  LET s == dropping[t] IN
  /\ DropTop(t) /\ s # None
  /\ queue[s] # <<>>
  /\ queue' = [queue EXCEPT ![s] = Tail(@)]
  /\ fate' = [fate EXCEPT ![Head(queue[s])] = "dropped"]
  /\ UNCHANGED <<global, inGlobal, release, mq, ctxVars, workVars, makeVars,
                 dropping, actVars, delVars, sleepVars, src>>

\* drop_message: an error to the source, if there is one.
DropMessage(t) ==
  LET s == dropping[t]
      m == Head(queue[s])
  IN
  /\ DropTop(t) /\ s # None
  /\ queue[s] # <<>>
  /\ queue' = [queue EXCEPT ![s] = Tail(@)]
  /\ IF m \in Msg /\ src[m] # None
     THEN /\ act' = [act EXCEPT ![t] = "grab"]
          /\ tgt' = [tgt EXCEPT ![t] = src[m]]
          /\ mail' = [mail EXCEPT ![t] = ErrorOf(m)]
          /\ src' = [src EXCEPT ![ErrorOf(m)] = s]
          /\ fate' = [fate EXCEPT ![m] = "dropped", ![ErrorOf(m)] = "sending"]
     ELSE /\ fate' = [fate EXCEPT ![m] = "dropped"]
          /\ UNCHANGED <<actVars, src>>
  /\ UNCHANGED <<global, inGlobal, release, mq, ctxVars, workVars, makeVars,
                 dropping, delVars, sleepVars>>

\* The pop that finds the mailbox empty, and _release.
DropEnd(t) ==
  LET s == dropping[t] IN
  /\ DropTop(t) /\ s # None
  /\ queue[s] = <<>>
  /\ inGlobal' = [inGlobal EXCEPT ![s] = FALSE]
  /\ mq' = [mq EXCEPT ![s] = "freed"]
  /\ dropping' = [dropping EXCEPT ![t] = None]
  /\ UNCHANGED <<global, queue, release, ctxVars, workVars, makeVars, actVars,
                 delVars, sleepVars, mailVars>>

-----------------------------------------------------------------------------
(* skynet_context_new, called by a handler (LAUNCH).                       *)

\* skynet_handle_register: nobody finds the context while its handle is 0.
Register(t, s) ==
  /\ WorkTop(t) /\ work[t] = "handle"
  /\ ctx[s] = "none"
  /\ ctx' = [ctx EXCEPT ![s] = "live"]
  /\ ref' = [ref EXCEPT ![s] = 2]
  /\ make' = [make EXCEPT ![t] = "create"]
  /\ new' = [new EXCEPT ![t] = s]
  /\ UNCHANGED <<mqVars, slot, total, workVars, dropping, actVars, delVars,
                 sleepVars, mailVars>>

\* The handle is set, skynet_mq_create, context_inc.
Create(t) ==
  LET s == new[t] IN
  /\ MakeTop(t) /\ make[t] = "create"
  /\ slot' = [slot EXCEPT ![s] = TRUE]
  /\ mq' = [mq EXCEPT ![s] = "live"]
  /\ inGlobal' = [inGlobal EXCEPT ![s] = TRUE]
  /\ total' = total + 1
  /\ make' = [make EXCEPT ![t] = "init"]
  /\ UNCHANGED <<global, queue, release, ctx, ref, workVars, new, dropping,
                 actVars, delVars, sleepVars, mailVars>>

\* The init function returns 0, or an error.
InitDone(t) ==
  /\ MakeTop(t) /\ make[t] = "init"
  /\ \E r \in {"launched", "refused"} : make' = [make EXCEPT ![t] = r]
  /\ Release(t, new[t])
  /\ UNCHANGED <<mqVars, ctx, slot, total, workVars, new, dropping, actVars,
                 sleepVars, mailVars>>

\* skynet_globalmq_push.
Launched(t) ==
  /\ MakeTop(t) /\ make[t] = "launched"
  /\ global' = Append(global, new[t])
  /\ make' = [make EXCEPT ![t] = "idle"]
  /\ new' = [new EXCEPT ![t] = None]
  /\ UNCHANGED <<queue, inGlobal, release, mq, ctxVars, workVars, dropping,
                 actVars, delVars, sleepVars, mailVars>>

\* A failed launch: skynet_handle_retire, ...
Refused(t) ==
  /\ MakeTop(t) /\ make[t] = "refused"
  /\ make' = [make EXCEPT ![t] = "mqrelease"]
  /\ \/ Retire(t, new[t])
     \/ ~slot[new[t]] /\ UNCHANGED <<slot, act, tgt>>
  /\ UNCHANGED <<mqVars, ctx, ref, total, workVars, new, dropping, mail,
                 delVars, sleepVars, mailVars>>

\* ... skynet_mq_release.
RefusedMq(t) ==
  /\ MakeTop(t) /\ make[t] = "mqrelease"
  /\ MqRelease(t, new[t])
  /\ make' = [make EXCEPT ![t] = "idle"]
  /\ new' = [new EXCEPT ![t] = None]
  /\ UNCHANGED <<queue, inGlobal, release, mq, ctxVars, workVars, actVars,
                 delVars, sleepVars, mailVars>>

-----------------------------------------------------------------------------
(* thread_worker and skynet_context_message_dispatch.                      *)

Goto(t, pc) == work' = [work EXCEPT ![t] = pc]

\* Variant: quit is not tested.
BugTop(t) ==
  /\ WorkTop(t) /\ work[t] = "top"
  /\ Goto(t, IF cur[t] = None THEN "pop" ELSE "grab")
  /\ UNCHANGED <<mqVars, ctxVars, cur, nxt, hold, left, hand, makeVars,
                 dropping, actVars, delVars, sleepVars, mailVars>>

\* The loop's test of quit.
Top(t) ==
  /\ WorkTop(t) /\ work[t] = "top"
  /\ Goto(t, IF quit THEN "ended" ELSE IF cur[t] = None THEN "pop" ELSE "grab")
  /\ UNCHANGED <<mqVars, ctxVars, cur, nxt, hold, left, hand, makeVars,
                 dropping, actVars, delVars, sleepVars, mailVars>>

\* skynet_globalmq_pop, at the begin of a turn or as its result; without a
\* mailbox the worker goes to sleep.
PopGlobal(t) ==
  /\ WorkTop(t) /\ work[t] \in {"pop", "return"}
  /\ IF global = <<>>
     THEN /\ Goto(t, "tosleep")
          /\ UNCHANGED <<global, cur>>
     ELSE /\ cur' = [cur EXCEPT ![t] = Head(global)]
          /\ global' = Tail(global)
          /\ Goto(t, IF work[t] = "pop" THEN "grab" ELSE "top")
  /\ UNCHANGED <<queue, inGlobal, release, mq, ctxVars, nxt, hold, left, hand,
                 makeVars, dropping, actVars, delVars, sleepVars, mailVars>>

\* Variant: the turn does not count its reference.
BugGrab(t) ==
  /\ WorkTop(t) /\ work[t] = "grab"
  /\ IF slot[cur[t]]
     THEN /\ hold' = [hold EXCEPT ![t] = cur[t]]
          /\ Goto(t, "first")
     ELSE /\ Goto(t, "mqrelease")
          /\ UNCHANGED hold
  /\ UNCHANGED <<mqVars, ctxVars, cur, nxt, left, hand, makeVars, dropping,
                 actVars, delVars, sleepVars, mailVars>>

\* skynet_handle_grab of the service of the mailbox.
Grab(t) ==
  /\ WorkTop(t) /\ work[t] = "grab"
  /\ IF slot[cur[t]]
     THEN /\ ref' = [ref EXCEPT ![cur[t]] = @ + 1]
          /\ hold' = [hold EXCEPT ![t] = cur[t]]
          /\ Goto(t, "first")
     ELSE /\ Goto(t, "mqrelease")
          /\ UNCHANGED <<ref, hold>>
  /\ UNCHANGED <<mqVars, ctx, slot, total, cur, nxt, left, hand, makeVars,
                 dropping, actVars, delVars, sleepVars, mailVars>>

\* The service is gone.
WorkMqRelease(t) ==
  /\ WorkTop(t) /\ work[t] = "mqrelease"
  /\ MqRelease(t, cur[t])
  /\ cur' = [cur EXCEPT ![t] = None]
  /\ Goto(t, "return")
  /\ UNCHANGED <<queue, inGlobal, release, mq, ctxVars, nxt, hold, left, hand,
                 makeVars, actVars, delVars, sleepVars, mailVars>>

\* How many messages of the turn are left after the first: n is the length
\* of the rest of the mailbox shifted by the weight, and the first counts.
TurnLeft(t, rest) ==
  LET n == IF WeightOf[t] = -1 THEN 1 ELSE Len(rest) \div 2 ^ WeightOf[t]
  IN  IF n = 0 THEN 0 ELSE n - 1

\* skynet_mq_pop (and skynet_mq_length: a push in between counts as earlier).
PopMail(t) ==
  LET s == cur[t] IN
  /\ WorkTop(t) /\ work[t] \in {"first", "more"}
  /\ queue[s] # <<>>
  /\ hand' = [hand EXCEPT ![t] = Head(queue[s])]
  /\ fate' = [fate EXCEPT ![Head(queue[s])] = "taken"]
  /\ queue' = [queue EXCEPT ![s] = Tail(@)]
  /\ left' = [left EXCEPT ![t] = IF work[t] = "first"
                                 THEN TurnLeft(t, Tail(queue[s])) ELSE @ - 1]
  /\ Goto(t, "handle")
  /\ UNCHANGED <<global, inGlobal, release, mq, ctxVars, cur, nxt, hold,
                 makeVars, dropping, actVars, delVars, sleepVars, src>>

\* Variant: in_global is kept.
BugStaysInGlobal(t) ==
  /\ WorkTop(t) /\ work[t] \in {"first", "more"}
  /\ queue[cur[t]] = <<>>
  /\ cur' = [cur EXCEPT ![t] = None]
  /\ Goto(t, "release")
  /\ UNCHANGED <<mqVars, ctxVars, nxt, hold, left, hand, makeVars, dropping,
                 actVars, delVars, sleepVars, mailVars>>

\* The mailbox is empty: it leaves the worker with in_global 0.
PopEmpty(t) ==
  /\ WorkTop(t) /\ work[t] \in {"first", "more"}
  /\ queue[cur[t]] = <<>>
  /\ inGlobal' = [inGlobal EXCEPT ![cur[t]] = FALSE]
  /\ cur' = [cur EXCEPT ![t] = None]
  /\ Goto(t, "release")
  /\ UNCHANGED <<global, queue, release, mq, ctxVars, nxt, hold, left, hand,
                 makeVars, dropping, actVars, delVars, sleepVars, mailVars>>

\* The callback returns.
Handled(t) ==
  /\ WorkTop(t) /\ work[t] = "handle"
  /\ fate' = [fate EXCEPT ![hand[t]] = "handled"]
  /\ hand' = [hand EXCEPT ![t] = None]
  /\ Goto(t, IF left[t] = 0 THEN "next" ELSE "more")
  /\ UNCHANGED <<mqVars, ctxVars, cur, nxt, hold, left, makeVars, dropping,
                 actVars, delVars, sleepVars, src>>

\* The turn is over: is there another mailbox?
NextMq(t) ==
  /\ WorkTop(t) /\ work[t] = "next"
  /\ IF global = <<>>
     THEN /\ Goto(t, "release")
          /\ UNCHANGED <<global, nxt>>
     ELSE /\ nxt' = [nxt EXCEPT ![t] = Head(global)]
          /\ global' = Tail(global)
          /\ Goto(t, "pushback")
  /\ UNCHANGED <<queue, inGlobal, release, mq, ctxVars, cur, hold, left, hand,
                 makeVars, dropping, actVars, delVars, sleepVars, mailVars>>

\* Variant: the mailbox is not put back.
BugNotPutBack(t) ==
  /\ WorkTop(t) /\ work[t] = "pushback"
  /\ cur' = [cur EXCEPT ![t] = nxt[t]]
  /\ nxt' = [nxt EXCEPT ![t] = None]
  /\ Goto(t, "release")
  /\ UNCHANGED <<mqVars, ctxVars, hold, left, hand, makeVars, dropping,
                 actVars, delVars, sleepVars, mailVars>>

PushBack(t) ==
  /\ WorkTop(t) /\ work[t] = "pushback"
  /\ global' = Append(global, cur[t])
  /\ cur' = [cur EXCEPT ![t] = nxt[t]]
  /\ nxt' = [nxt EXCEPT ![t] = None]
  /\ Goto(t, "release")
  /\ UNCHANGED <<queue, inGlobal, release, mq, ctxVars, hold, left, hand,
                 makeVars, dropping, actVars, delVars, sleepVars, mailVars>>

\* skynet_context_release at the end of the turn; a mailbox found empty leaves
\* the worker to skynet_globalmq_pop.
TurnRelease(t) ==
  /\ WorkTop(t) /\ work[t] = "release"
  /\ Release(t, hold[t])
  /\ hold' = [hold EXCEPT ![t] = None]
  /\ Goto(t, IF cur[t] = None THEN "return" ELSE "top")
  /\ UNCHANGED <<mqVars, ctx, slot, total, cur, nxt, left, hand, makeVars,
                 dropping, actVars, sleepVars, mailVars>>

-----------------------------------------------------------------------------
(* The monitor's condition variable.                                       *)

\* pthread_cond_signal: one waiting worker, if there is one.
Signal(w) ==
  IF \E t \in Worker : w[t] = "asleep"
  THEN \E t \in Worker : w[t] = "asleep" /\ work' = [w EXCEPT ![t] = "waking"]
  ELSE work' = w

\* ++sleep and pthread_cond_wait, under the mutex.
GoToSleep(t) ==
  /\ WorkTop(t) /\ work[t] = "tosleep"
  /\ IF quit
     THEN Goto(t, "top") /\ UNCHANGED sleep
     ELSE Goto(t, "asleep") /\ sleep' = sleep + 1
  /\ UNCHANGED <<mqVars, ctxVars, cur, nxt, hold, left, hand, makeVars,
                 dropping, actVars, delVars, quit, mailVars>>

\* --sleep, with the mutex taken again.
WakeUp(t) ==
  /\ WorkTop(t) /\ work[t] = "waking"
  /\ sleep' = sleep - 1
  /\ Goto(t, "top")
  /\ UNCHANGED <<mqVars, ctxVars, cur, nxt, hold, left, hand, makeVars,
                 dropping, actVars, delVars, quit, mailVars>>

\* The socket thread after an event: wakeup(m, 0).
SocketWake(t) ==
  LET w == [work EXCEPT ![t] = "poll"] IN
  /\ WorkTop(t) /\ work[t] = "wake"
  /\ IF sleep >= Cardinality(Worker) THEN Signal(w) ELSE work' = w
  /\ UNCHANGED <<mqVars, ctxVars, cur, nxt, hold, left, hand, makeVars,
                 dropping, actVars, delVars, sleepVars, mailVars>>

\* A round of the timer thread: wakeup(m, m->count-1).
Tick ==
  /\ ~quit /\ total # 0
  /\ sleep >= 1
  /\ Signal(work)
  /\ UNCHANGED <<mqVars, ctxVars, cur, nxt, hold, left, hand, makeVars,
                 dropping, actVars, delVars, sleepVars, mailVars>>

\* CHECK_ABORT in the timer thread: quit and broadcast.
Abort ==
  /\ ~quit /\ total = 0
  /\ quit' = TRUE
  /\ work' = [t \in Thread |-> IF work[t] = "asleep" THEN "waking" ELSE
                               IF work[t] = "poll" THEN "ended" ELSE work[t]]
  /\ UNCHANGED <<mqVars, ctxVars, cur, nxt, hold, left, hand, makeVars,
                 dropping, actVars, delVars, sleep, mailVars>>

-----------------------------------------------------------------------------
\* Code that skynet runs to its end.
ThreadStep(t) ==
  \/ MarkRelease(t) \/ FreeContext(t)
  \/ SendGrab(t) \/ SendRefused(t) \/ SendPush(t) \/ ActRelease(t)
  \/ DropMessage(t) \/ DropEnd(t)
  \/ Create(t) \/ InitDone(t) \/ Launched(t) \/ Refused(t) \/ RefusedMq(t)
  \/ Top(t) \/ PopGlobal(t) \/ Grab(t) \/ WorkMqRelease(t)
  \/ PopMail(t) \/ PopEmpty(t) \/ Handled(t) \/ NextMq(t) \/ PushBack(t)
  \/ TurnRelease(t) \/ GoToSleep(t) \/ WakeUp(t) \/ SocketWake(t)

\* What services and the socket thread decide.
Choice(t) ==
  \E s \in Service :
    \/ Kill(t, s) \/ Register(t, s)
    \/ \E m \in Msg : BeginSend(t, s, m)

\* The threads have ended.
Ended == quit /\ (\A t \in Worker : work[t] = "ended") /\ UNCHANGED vars

Next ==
  \/ \E t \in Thread : ThreadStep(t) \/ Choice(t)
  \/ Tick \/ Abort \/ Ended

Spec == Init /\ [][Next]_vars
=============================================================================
