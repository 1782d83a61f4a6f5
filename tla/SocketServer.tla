------------------------------ MODULE SocketServer ------------------------------
(***************************************************************************)
(* The TCP sockets of skynet: the thread that owns them and polls, and the *)
(* services that reserve ids, write on a socket themselves when nothing    *)
(* waits to be written, and send the thread requests through a pipe        *)
(* (socket_server.c).                                                      *)
(*                                                                         *)
(* A socket is an id; its slot is used again by a later id.  A package has *)
(* two units, for the write that takes a part of it.  UDP, bind, pause,    *)
(* options and statistics are left out.                                    *)
(***************************************************************************)
EXTENDS Integers, Sequences, FiniteSets, SequencesExt

CONSTANTS
  Owner,          \* the service that opens and closes the sockets
  Sender,         \* the services that write; each is one thread at a time
  MaxSocket,      \* MAX_SOCKET
  MaxId,          \* a bound on the ids that are handed out
  MaxSend,        \* a bound on the packages, per sender
  Sends,          \* the calls of the senders: "D", "P"
  Asks,           \* how the owner ends a socket: "close", "shutdown"
  StaleEvents,    \* a slot may be reserved with an event of its past in ev
  None

ASSUME SocketServerAssumption ==
  /\ Owner \in Sender /\ IsFiniteSet(Sender) /\ None \notin Sender
  /\ None \notin [s : 0..(MaxSocket - 1), raise : {"close", "err", "none"}]
  /\ MaxSocket \in Nat \ {0} /\ MaxId \in Nat
  /\ MaxSend \in [Sender -> Nat]
  /\ Sends \subseteq {"D", "P"}
  /\ Asks \subseteq {"close", "shutdown"}
  /\ StaleEvents \in BOOLEAN

VARIABLES
  alloc,          \* alloc_id
  slot,           \* the fields of struct socket that the poll thread writes
  sending,        \* s->sending: the id it counts for, and the count
  dw,             \* s->dw_buffer with what is left of it
  lock,           \* who holds s->dw_lock
  pipe,           \* the requests to the thread
  checkctrl, ev,  \* of the poll: look at the pipe, events not yet handled
  force,          \* the thread is in force_close, for the lock
  call,           \* of a sender: where it is in socket_server_send
  count,          \* packages sent, per sender
  asked,          \* what the owner asked for a socket
  told,           \* what the owner was told of a socket
  closes,         \* how many SOCKET_CLOSE were raised for it
  peer,           \* the other end of a connection
  wire,           \* the units written on a connection
  failed          \* an assertion has failed

slotVars   == <<alloc, slot, sending, dw, lock>>
pollVars   == <<pipe, checkctrl, ev, force>>
senderVars == <<call, count>>
ownerVars  == <<asked, told, closes>>
netVars    == <<peer, wire>>
vars       == <<slotVars, pollVars, senderVars, ownerVars, netVars, failed>>

Id      == 1..MaxId
Slot    == 0..(MaxSocket - 1)
HASH(x) == x % MaxSocket

Unit    == 2                                    \* units of a package
MaxNo   == Max({MaxSend[c] : c \in Sender})
Package == [by : Sender, no : Nat, to : Id, kind : Sends]
Buffer  == [pkg : Package, left : 1..Unit]

ASSUME NoneAssumption ==
  /\ None \notin Buffer
  /\ None \notin [pc : {"try", "lock", "write", "trigger", "queue", "request"}, pkg : Package]

Types   == {"invalid", "reserve", "connecting", "connected", "paccept",
            "halfclose_read", "halfclose_write"}
Socket  == [type : Types, id : 0..MaxId, closing : BOOLEAN, reading : BOOLEAN,
            writing : BOOLEAN, high : Seq(Buffer), low : Seq(Buffer), wb : Nat]
Event   == [s : Slot, read : BOOLEAN, write : BOOLEAN, end : {"none", "err", "hup"}]
Request == [cmd : {"O", "R", "K", "X", "W"}, id : Id]
           \cup [cmd : {"D"}, id : Id, pkg : Package]

TypeOK ==
  /\ alloc \in 0..MaxId
  /\ slot \in [Slot -> Socket]
  /\ sending \in [Slot -> [id : 0..MaxId, n : Nat]]
  /\ dw \in [Slot -> Buffer \cup {None}]
  /\ lock \in [Slot -> Sender \cup {None}]
  /\ pipe \in Seq(Request)
  /\ checkctrl \in BOOLEAN
  /\ ev \in SUBSET (Event \cup {None})
  /\ force \in [s : Slot, raise : {"close", "err", "none"}] \cup {None}
  /\ call \in [Sender -> {None} \cup
                 [pc : {"try", "lock", "write", "trigger", "queue", "request"},
                  pkg : Package]]
  /\ count \in [Sender -> Nat]
  /\ asked \in [Id -> SUBSET {"start", "close", "shutdown"}]
  /\ told \in [Id -> SUBSET {"accept", "open", "err", "late"}]
  /\ closes \in [Id -> Nat]
  /\ peer \in [Id -> {"none", "open", "fin", "rst", "dead"}]
  /\ wire \in [Id -> Seq(Package)]
  /\ failed \in BOOLEAN

\* socket_server_create; no package and no socket yet.
Init ==
  /\ alloc = 0
  /\ slot = [k \in Slot |->
               [type |-> "invalid", id |-> 0, closing |-> FALSE, reading |-> FALSE,
                writing |-> FALSE, high |-> <<>>, low |-> <<>>, wb |-> 0]]
  /\ sending = [k \in Slot |-> [id |-> 0, n |-> 0]]
  /\ dw = [k \in Slot |-> None]
  /\ lock = [k \in Slot |-> None]
  /\ pipe = <<>> /\ checkctrl = TRUE /\ ev = {} /\ force = None
  /\ call = [c \in Sender |-> None]
  /\ count = [c \in Sender |-> 0]
  /\ asked = [x \in Id |-> {}]
  /\ told = [x \in Id |-> {}]
  /\ closes = [x \in Id |-> 0]
  /\ peer = [x \in Id |-> "none"]
  /\ wire = [x \in Id |-> <<>>]
  /\ failed = FALSE

-----------------------------------------------------------------------------
(* What both sides look at, with or without the lock.                      *)

Invalid(x) == slot[HASH(x)].id # x \/ slot[HASH(x)].type = "invalid"

BufferEmpty(s) == s.high = <<>> /\ s.low = <<>>

\* Variant: the rest of a direct write is not looked at.
BugNoMoreSending(k) ==
  \/ BufferEmpty(slot[k]) /\ sending[k].n = 0
  \/ slot[k].type = "halfclose_write"

NoMoreSending(k) ==
  \/ BufferEmpty(slot[k]) /\ dw[k] = None /\ sending[k].n = 0
  \/ slot[k].type = "halfclose_write"

CanDirectWrite(x) ==
  LET k == HASH(x) IN
  slot[k].id = x /\ NoMoreSending(k) /\ slot[k].type = "connected"

\* How many units of n a write takes; none when the connection is broken.
Writes(x, n) == IF peer[x] \in {"open", "fin"} THEN 0..n ELSE {0}

Copies(b) == [j \in 1..b.left |-> b.pkg]

-----------------------------------------------------------------------------
(* socket_server_send and socket_server_send_lowpriority, by a sender.     *)

Returned(c) == call' = [call EXCEPT ![c] = None]
Goes(c, pc) == call' = [call EXCEPT ![c].pc = pc]

\* The first look, without the lock; a low priority never writes itself.
Send(c, x, kind) ==
  LET k    == HASH(x)
      p    == [by |-> c, no |-> count[c] + 1, to |-> x, kind |-> kind]
      may  == ~Invalid(x) /\ ~(kind = "D" /\ slot[k].closing)
      lone == kind = "D" /\ CanDirectWrite(x)
  IN
  /\ ~failed
  /\ call[c] = None /\ count[c] < MaxSend[c]
  /\ "open" \in told[x]
  /\ c = Owner => asked[x] \cap {"close", "shutdown"} = {}
  /\ count' = [count EXCEPT ![c] = @ + 1]
  /\ call' = [call EXCEPT ![c] = IF ~may THEN None
                                 ELSE [pc |-> IF lone THEN "try" ELSE "queue",
                                       pkg |-> p]]
  /\ UNCHANGED <<slotVars, pollVars, ownerVars, netVars, failed>>

\* The lock is only tried.
TryLock(c) ==
  LET k == HASH(call[c].pkg.to) IN
  /\ ~failed
  /\ call[c] # None /\ call[c].pc = "try"
  /\ IF lock[k] = None
     THEN Goes(c, "lock") /\ lock' = [lock EXCEPT ![k] = c]
     ELSE Goes(c, "queue") /\ UNCHANGED lock
  /\ UNCHANGED <<alloc, slot, sending, dw, pollVars, count, ownerVars, netVars, failed>>

\* Variant: there is no second look.
BugDoubleCheck(c) ==
  /\ ~failed
  /\ call[c] # None /\ call[c].pc = "lock"
  /\ Goes(c, "write")
  /\ UNCHANGED <<slotVars, pollVars, count, ownerVars, netVars, failed>>

\* The second look, with the lock.
DoubleCheck(c) ==
  LET x == call[c].pkg.to IN
  /\ ~failed
  /\ call[c] # None /\ call[c].pc = "lock"
  /\ IF CanDirectWrite(x)
     THEN Goes(c, "write") /\ UNCHANGED lock
     ELSE Goes(c, "queue") /\ lock' = [lock EXCEPT ![HASH(x)] = None]
  /\ UNCHANGED <<alloc, slot, sending, dw, pollVars, count, ownerVars, netVars, failed>>

\* write: what is not taken is left for the thread in dw_buffer.
DirectWrite(c) ==
  LET p == call[c].pkg
      k == HASH(p.to)
  IN
  /\ ~failed
  /\ call[c] # None /\ call[c].pc = "write"
  /\ \E n \in Writes(p.to, Unit) :
       /\ wire' = [wire EXCEPT ![p.to] = @ \o Copies([pkg |-> p, left |-> n])]
       /\ IF n = Unit
          THEN Returned(c) /\ UNCHANGED dw
          ELSE /\ Goes(c, "trigger")
               /\ dw' = [dw EXCEPT ![k] = [pkg |-> p, left |-> Unit - n]]
  /\ lock' = [lock EXCEPT ![k] = None]
  /\ UNCHANGED <<alloc, slot, sending, pollVars, count, ownerVars, peer, failed>>

\* send_request 'W'.
Trigger(c) ==
  /\ ~failed
  /\ call[c] # None /\ call[c].pc = "trigger"
  /\ pipe' = Append(pipe, [cmd |-> "W", id |-> call[c].pkg.to])
  /\ Returned(c)
  /\ UNCHANGED <<slotVars, checkctrl, ev, force, count, ownerVars, netVars, failed>>

\* inc_sending_ref: only for the id that the slot counts for.
IncSending(c) ==
  LET k == HASH(call[c].pkg.to) IN
  /\ ~failed
  /\ call[c] # None /\ call[c].pc = "queue"
  /\ sending' = IF sending[k].id = call[c].pkg.to
                THEN [sending EXCEPT ![k].n = @ + 1] ELSE sending
  /\ Goes(c, "request")
  /\ UNCHANGED <<alloc, slot, dw, lock, pollVars, count, ownerVars, netVars, failed>>

\* send_request 'D' or 'P'.
SendRequest(c) ==
  LET p == call[c].pkg IN
  /\ ~failed
  /\ call[c] # None /\ call[c].pc = "request"
  /\ pipe' = Append(pipe, [cmd |-> "D", id |-> p.to, pkg |-> p])
  /\ Returned(c)
  /\ UNCHANGED <<slotVars, checkctrl, ev, force, count, ownerVars, netVars, failed>>

SenderStep(c) ==
  \/ TryLock(c) \/ DoubleCheck(c) \/ DirectWrite(c)
  \/ Trigger(c) \/ IncSending(c) \/ SendRequest(c)

-----------------------------------------------------------------------------
(* The owner's requests.                                                   *)

\* reserve_id: the next id whose slot is free.
Reservable(x) ==
  /\ x > alloc
  /\ slot[HASH(x)].type = "invalid"
  /\ \A y \in Id : alloc < y /\ y < x => slot[HASH(y)].type # "invalid"
  /\ StaleEvents \/ \A e \in ev \ {None} : e.s # HASH(x)

\* The slot keeps its other fields until new_fd.
Reserved(x) == [slot EXCEPT ![HASH(x)].type = "reserve", ![HASH(x)].id = x]

\* socket_server_connect.
Connect(x) ==
  /\ ~failed
  /\ call[Owner] = None
  /\ Reservable(x)
  /\ alloc' = x
  /\ slot' = Reserved(x)
  /\ pipe' = Append(pipe, [cmd |-> "O", id |-> x])
  /\ UNCHANGED <<sending, dw, lock, checkctrl, ev, force, senderVars, ownerVars,
                 netVars, failed>>

\* socket_server_start, close and shutdown: 'R' and 'K'.
Start(x) ==
  /\ ~failed
  /\ call[Owner] = None
  /\ "accept" \in told[x] /\ asked[x] = {}
  /\ asked' = [asked EXCEPT ![x] = @ \cup {"start"}]
  /\ pipe' = Append(pipe, [cmd |-> "R", id |-> x])
  /\ UNCHANGED <<slotVars, checkctrl, ev, force, senderVars, told, closes,
                 netVars, failed>>

Close(x, how) ==
  /\ ~failed
  /\ call[Owner] = None
  /\ told[x] # {} \/ closes[x] > 0
  /\ asked[x] \cap {"close", "shutdown"} = {}
  /\ asked' = [asked EXCEPT ![x] = @ \cup {how}]
  /\ pipe' = Append(pipe, [cmd |-> IF how = "close" THEN "K" ELSE "X", id |-> x])
  /\ UNCHANGED <<slotVars, checkctrl, ev, force, senderVars, told, closes,
                 netVars, failed>>

-----------------------------------------------------------------------------
(* What the thread tells the owner, and the end of a socket.               *)

Tell(x, what)  == told' = [told EXCEPT ![x] = @ \cup {what}] /\ UNCHANGED closes
TellClose(x)   == closes' = [closes EXCEPT ![x] = @ + 1] /\ UNCHANGED told
TellNothing    == UNCHANGED <<told, closes>>
Raise(x, what) == CASE what = "close" -> TellClose(x)
                    [] what = "none"  -> TellNothing
                    [] OTHER          -> Tell(x, what)

\* new_fd: a fresh socket in the slot; check_wb_list.
NewFd(x, type, reading, writing) ==
  LET k == HASH(x) IN
  /\ slot' = [slot EXCEPT ![k] =
                [type |-> type, id |-> x, closing |-> FALSE, reading |-> reading,
                 writing |-> writing, high |-> <<>>, low |-> <<>>, wb |-> 0]]
  /\ sending' = [sending EXCEPT ![k] = [id |-> x, n |-> 0]]
  /\ dw' = [dw EXCEPT ![k] = None]
  /\ peer' = [peer EXCEPT ![x] = "open"]
  /\ failed' = (slot[k].type # "reserve" \/ ~BufferEmpty(slot[k]))

\* force_close up to the lock: the lists are freed.
Freed(s) == [s EXCEPT !.high = <<>>, !.low = <<>>]

ForceCloseAt(k, raise) ==
  /\ slot' = [slot EXCEPT ![k] = Freed(@)]
  /\ force' = [s |-> k, raise |-> raise]
  /\ failed' = (slot[k].type = "reserve")

ForceClosed(s) == [s EXCEPT !.type = "invalid"]

\* The other end of a closed connection: only whether it was broken is kept.
Left(end) == IF end \in {"rst", "dead"} THEN "dead" ELSE "none"

\* clear_closed_event, for a socket that is closed by now.
ClearClosed(x, raise) ==
  ev' = IF raise \in {"close", "err"} /\ slot'[HASH(x)].id = x
             /\ slot'[HASH(x)].type = "invalid"
        THEN {e \in ev : e = None \/ e.s # HASH(x)} ELSE ev

\* force_close with the lock.
ForceClose ==
  LET k == force.s
      x == slot[k].id
  IN
  /\ ~failed
  /\ force # None /\ lock[k] = None
  /\ slot' = [slot EXCEPT ![k] = ForceClosed(@)]
  /\ dw' = [dw EXCEPT ![k] = None]
  /\ Raise(x, force.raise)
  /\ ClearClosed(x, force.raise)
  /\ force' = None
  /\ peer' = [peer EXCEPT ![x] = Left(@)]
  /\ UNCHANGED <<alloc, sending, lock, pipe, checkctrl, senderVars, asked, wire, failed>>

-----------------------------------------------------------------------------
(* ctrl_cmd: the requests.                                                 *)

Command(cmd) ==
  /\ ~failed
  /\ force = None /\ checkctrl
  /\ pipe # <<>> /\ Head(pipe).cmd = cmd
  /\ pipe' = Tail(pipe)
  /\ UNCHANGED <<alloc, lock, checkctrl, senderVars, asked, wire>>

\* open_socket: connected at once, under way, or an error.
OpenSocket ==
  LET x == Head(pipe).id IN
  /\ Command("O")
  /\ \/ /\ slot' = [slot EXCEPT ![HASH(x)].type = "invalid"]
        /\ Tell(x, "err")
        /\ ClearClosed(x, "err")
        /\ UNCHANGED <<sending, dw, peer, failed>>
     \/ NewFd(x, "connecting", TRUE, TRUE) /\ TellNothing /\ UNCHANGED ev
     \/ NewFd(x, "connected", TRUE, FALSE) /\ Tell(x, "open") /\ UNCHANGED ev
  /\ UNCHANGED force

\* resume_socket: an accepted socket is started, or it is closed already.
ResumeSocket ==
  LET x == Head(pipe).id
      k == HASH(x)
  IN
  /\ Command("R")
  /\ IF Invalid(x) \/ slot[k].type = "halfclose_read"
     THEN /\ UNCHANGED slot
          /\ Tell(x, "err")
          /\ ClearClosed(x, "err")
     ELSE /\ slot' = [slot EXCEPT ![k].reading = TRUE,
                                  ![k].type = IF @ = "paccept" THEN "connected" ELSE @]
          /\ Raise(x, IF slot'[k].type = "connected" THEN "open" ELSE "none")
          /\ UNCHANGED ev
  /\ UNCHANGED <<sending, dw, force, peer, failed>>

\* Variant: a socket whose other end has closed raises SOCKET_CLOSE again.
BugRaises(k) == "close"

\* SOCKET_CLOSE, unless it was raised when the other end closed.
Raises(k) == IF slot[k].type = "halfclose_read" THEN "none" ELSE "close"

\* close_socket: at once, or when everything is written.
CloseSocket(cmd) ==
  LET x == Head(pipe).id
      k == HASH(x)
  IN
  /\ Command(cmd)
  /\ IF Invalid(x)
     THEN UNCHANGED <<slot, force, failed>> /\ TellNothing
     ELSE IF cmd = "X" \/ NoMoreSending(k)
     THEN ForceCloseAt(k, Raises(k)) /\ TellNothing
     ELSE /\ slot' = [slot EXCEPT ![k].closing = TRUE, ![k].reading = FALSE,
                                  ![k].type = "halfclose_read"]
          /\ Raise(x, Raises(k))
          /\ UNCHANGED <<force, failed>>
  /\ UNCHANGED <<sending, dw, ev, peer>>

Refuses(s, x) ==
  s.id # x \/ s.closing \/ s.type \in {"invalid", "halfclose_write", "paccept"}

\* send_socket: the package in one of the lists.
Queued(s, p) ==
  LET b == [pkg |-> p, left |-> Unit] IN
  IF BufferEmpty(s)
  THEN [s EXCEPT !.high = <<b>>, !.wb = @ + Unit, !.writing = TRUE]
  ELSE IF p.kind = "P"
  THEN [s EXCEPT !.low = Append(@, b), !.wb = @ + Unit]
  ELSE [s EXCEPT !.high = Append(@, b), !.wb = @ + Unit]

\* With dec_sending_ref, for the socket that is in the slot.
SendSocket ==
  LET p == Head(pipe).pkg
      k == HASH(p.to)
      counted == slot[k].id = p.to /\ slot[k].type # "reserve"
  IN
  /\ Command("D")
  /\ slot' = IF Refuses(slot[k], p.to) THEN slot ELSE [slot EXCEPT ![k] = Queued(@, p)]
  /\ failed' = (counted /\ sending[k].n = 0)
  /\ sending' = IF counted /\ ~failed' THEN [sending EXCEPT ![k].n = @ - 1] ELSE sending
  /\ TellNothing
  /\ UNCHANGED <<dw, ev, force, peer>>

TriggerWrite ==
  LET x == Head(pipe).id IN
  /\ Command("W")
  /\ slot' = IF Invalid(x) THEN slot ELSE [slot EXCEPT ![HASH(x)].writing = TRUE]
  /\ TellNothing
  /\ UNCHANGED <<sending, dw, ev, force, peer, failed>>

NoCommand ==
  /\ ~failed
  /\ force = None /\ checkctrl /\ pipe = <<>>
  /\ checkctrl' = FALSE
  /\ UNCHANGED <<slotVars, pipe, ev, force, senderVars, ownerVars, netVars, failed>>

-----------------------------------------------------------------------------
(* sp_wait and the events.  A connection at the listener is the event None.*)

Registered(k) == slot[k].type \notin {"invalid", "reserve"}

EventOf(k, data) ==
  LET end == peer[slot[k].id] IN
  [s     |-> k,
   read  |-> slot[k].reading /\ (end # "open" \/ k \in data),
   write |-> slot[k].writing,
   end   |-> CASE end = "rst" -> "err" [] end = "dead" -> "hup" [] OTHER -> "none"]

Reportable(e) == e.read \/ e.write \/ e.end # "none"

\* data are the sockets that have something to read.
Wait(data, accept) ==
  LET all  == {EventOf(k, data) : k \in {j \in Slot : Registered(j)}}
      seen == {e \in all : Reportable(e)}
              \cup IF accept THEN {None} ELSE {}
  IN
  /\ ~failed
  /\ force = None /\ ~checkctrl /\ ev = {}
  /\ seen # {} \/ pipe # <<>>
  /\ ev' = seen
  /\ checkctrl' = TRUE
  /\ UNCHANGED <<slotVars, pipe, force, senderVars, ownerVars, netVars, failed>>

Handling(e) ==
  /\ ~failed
  /\ force = None /\ ~checkctrl
  /\ e \in ev
  /\ UNCHANGED <<pipe, checkctrl, senderVars, asked>>

Handled(e) == ev' = ev \ {e}

\* report_accept: a free slot, or the connection is dropped.
Accept(x) ==
  /\ Handling(None) /\ Handled(None)
  /\ Reservable(x)
  /\ LET t == [slot EXCEPT ![HASH(x)].type = "reserve"] IN
     /\ alloc' = x
     /\ slot' = [slot EXCEPT ![HASH(x)] =
                   [type |-> "paccept", id |-> x, closing |-> FALSE,
                    reading |-> FALSE, writing |-> FALSE, high |-> <<>>, low |-> <<>>, wb |-> 0]]
     /\ failed' = ~BufferEmpty(t[HASH(x)])
  /\ sending' = [sending EXCEPT ![HASH(x)] = [id |-> x, n |-> 0]]
  /\ dw' = [dw EXCEPT ![HASH(x)] = None]
  /\ peer' = [peer EXCEPT ![x] = "open"]
  /\ Tell(x, "accept")
  /\ UNCHANGED <<lock, force, wire>>

AcceptDropped ==
  /\ Handling(None) /\ Handled(None)
  /\ \A x \in Id : ~Reservable(x)
  /\ TellNothing
  /\ UNCHANGED <<slotVars, force, netVars, failed>>

\* report_connect.
ReportConnect(e) ==
  LET k == e.s
      x == slot[k].id
  IN
  /\ Handling(e) /\ Handled(e)
  /\ slot[k].type = "connecting"
  /\ \/ ForceCloseAt(k, "err") /\ TellNothing
     \/ /\ peer[x] \notin {"rst", "dead"}
        /\ slot' = [slot EXCEPT ![k].type = "connected",
                                ![k].writing = @ /\ ~NoMoreSending(k)]
        /\ Tell(x, "open")
        /\ UNCHANGED <<force, failed>>
  /\ UNCHANGED <<alloc, sending, dw, lock, netVars>>

InvalidEvent(e) ==
  /\ Handling(e) /\ Handled(e)
  /\ slot[e.s].type = "invalid"
  /\ TellNothing
  /\ UNCHANGED <<slotVars, force, netVars, failed>>

Default(e) ==
  /\ Handling(e)
  /\ slot[e.s].type \notin {"invalid", "connecting"}
  /\ UNCHANGED <<alloc, sending, lock>>

\* A write that the event also reports comes next.
ReadOnly(e) ==
  ev' = (ev \ {e}) \cup IF e.write THEN {[e EXCEPT !.read = FALSE]} ELSE {}

\* forward_message_tcp: data; it is discarded when the socket is half closed.
ReadData(e) ==
  LET x == slot[e.s].id IN
  /\ Default(e) /\ e.read
  /\ slot[e.s].type # "reserve" /\ peer[x] = "open"
  /\ ReadOnly(e)
  /\ Raise(x, IF slot[e.s].type # "halfclose_read" /\ closes[x] > 0
              THEN "late" ELSE "none")
  /\ UNCHANGED <<slot, dw, force, netVars, failed>>

\* Variant: the read side of the socket stays as it is.
BugReadEnd(e) ==
  LET k == e.s
      x == slot[k].id
  IN
  /\ Default(e) /\ e.read
  /\ slot[k].type # "reserve" /\ peer[x] \in {"fin", "dead"}
  /\ Handled(e)
  /\ TellClose(x)
  /\ UNCHANGED <<slot, dw, force, netVars, failed>>

\* The end of the stream: SOCKET_CLOSE, once.
ReadEnd(e) ==
  LET k == e.s
      x == slot[k].id
  IN
  /\ Default(e) /\ e.read
  /\ slot[k].type # "reserve" /\ peer[x] \in {"fin", "dead"}
  /\ IF slot[k].closing \/ slot[k].type = "halfclose_read"
     THEN /\ ReadOnly(e)
          /\ TellNothing
          /\ IF slot[k].closing /\ NoMoreSending(k)
             THEN ForceCloseAt(k, "none")
             ELSE UNCHANGED <<slot, force, failed>>
     ELSE /\ Handled(e)
          /\ IF slot[k].type = "halfclose_write"
             THEN ForceCloseAt(k, "close") /\ TellNothing
             ELSE /\ slot' = [slot EXCEPT ![k].type = "halfclose_read",
                                          ![k].reading = FALSE]
                  /\ TellClose(x)
                  /\ UNCHANGED <<force, failed>>
  /\ UNCHANGED <<dw, netVars>>

\* An error of read; of a slot that is only reserved too, its fd is -1.
ReadError(e) ==
  LET x == slot[e.s].id IN
  /\ Default(e) /\ e.read
  /\ slot[e.s].type = "reserve" \/ peer[x] = "rst"
  /\ Handled(e)
  /\ Tell(x, "err")
  /\ peer' = IF peer[x] = "rst" THEN [peer EXCEPT ![x] = "dead"] ELSE peer
  /\ UNCHANGED <<slot, dw, force, wire, failed>>

\* The error and the end that the poll reports.
ErrorEvent(e) ==
  LET x == slot[e.s].id IN
  /\ Default(e) /\ ~e.read /\ ~e.write /\ e.end = "err"
  /\ Handled(e)
  /\ Tell(x, "err")
  /\ peer' = IF peer[x] = "rst" THEN [peer EXCEPT ![x] = "dead"] ELSE peer
  /\ UNCHANGED <<slot, dw, force, wire, failed>>

EofEvent(e) ==
  /\ Default(e) /\ ~e.read /\ ~e.write /\ e.end = "hup"
  /\ Handled(e)
  /\ ForceCloseAt(e.s, Raises(e.s))
  /\ TellNothing
  /\ UNCHANGED <<dw, netVars>>

-----------------------------------------------------------------------------
(* send_buffer, on a write event.                                          *)

\* Variant: the rest of a direct write goes behind what waits.
BugMerged(k) ==
  IF dw[k] = None THEN slot[k]
  ELSE [slot[k] EXCEPT !.high = Append(@, dw[k]), !.wb = @ + dw[k].left]

\* The rest of a direct write goes before everything else.
Merged(k) ==
  IF dw[k] = None THEN slot[k]
  ELSE [slot[k] EXCEPT !.high = <<dw[k]>> \o @, !.wb = @ + dw[k].left]

Units(list) == FlattenSeq([j \in DOMAIN list |-> Copies(list[j])])

\* What is left of a list after u units of it: the first buffer that has some
\* left, with the rest of it, and those behind it.
Ends(list, i) == Len(Units(SubSeq(list, 1, i)))

After(list, u) ==
  LET rest == {i \in DOMAIN list : u < Ends(list, i)}
      i    == Min(rest)
  IN  IF rest = {} THEN <<>>
      ELSE <<[list[i] EXCEPT !.left = Ends(list, i) - u]>>
             \o SubSeq(list, i + 1, Len(list))

\* Variant: the rest of a low package stays in its list.
BugRaised(s) == s

\* raise_uncomplete.
Raised(s) ==
  IF s.high = <<>> /\ s.low # <<>> /\ Head(s.low).left < Unit
  THEN [s EXCEPT !.high = <<Head(s.low)>>, !.low = Tail(@)]
  ELSE s

\* u units are written, of the high list and then of the low one.
Sent(s, u) ==
  LET h == Len(Units(s.high)) IN
  Raised([s EXCEPT !.high = After(@, u), !.low = IF u <= h THEN @ ELSE After(@, u - h),
                   !.wb = @ - u])

Uncomplete(list) == list # <<>> /\ Head(list).left < Unit

SendBuffer(e, u) ==
  LET k == e.s
      x == slot[k].id
      s == Merged(k)
      t == Sent(s, u)
      all == Units(s.high) \o Units(s.low)
  IN
  /\ Default(e) /\ ~e.read /\ e.write
  /\ lock[k] = None
  /\ u \in 0..Len(all)
  /\ all = <<>> \/ (slot[k].type # "reserve" /\ peer[x] \in {"open", "fin"})
  /\ Handled(e)
  /\ wire' = [wire EXCEPT ![x] = @ \o SubSeq(all, 1, u)]
  /\ slot' = [slot EXCEPT ![k] =
                IF ~BufferEmpty(t) THEN t
                ELSE IF t.closing THEN ForceClosed(t)
                ELSE [t EXCEPT !.writing = FALSE]]
  /\ dw' = [dw EXCEPT ![k] = None]
  /\ failed' = \/ Uncomplete(slot[k].low)
               \/ BufferEmpty(t) /\ t.wb # 0
               \/ BufferEmpty(t) /\ t.closing /\ slot[k].type = "reserve"
  /\ peer' = IF slot'[k].type = "invalid" THEN [peer EXCEPT ![x] = Left(@)] ELSE peer
  /\ TellNothing
  /\ UNCHANGED force

\* close_write: the write has failed.
WriteError(e) ==
  LET k == e.s
      x == slot[k].id
      s == Merged(k)
  IN
  /\ Default(e) /\ ~e.read /\ e.write
  /\ lock[k] = None
  /\ ~BufferEmpty(s) /\ (slot[k].type = "reserve" \/ peer[x] \in {"rst", "dead"})
  /\ Handled(e)
  /\ dw' = [dw EXCEPT ![k] = None]
  /\ IF s.closing \/ s.type = "halfclose_read"
     THEN slot' = [slot EXCEPT ![k] = ForceClosed(Freed(s))] /\ TellNothing
     ELSE IF s.type = "halfclose_write"
     THEN slot' = [slot EXCEPT ![k] = s] /\ TellNothing
     ELSE /\ slot' = [slot EXCEPT ![k] = [s EXCEPT !.type = "halfclose_write",
                                                   !.writing = FALSE]]
          /\ Tell(x, "err")
  /\ peer' = IF peer[x] = "rst" THEN [peer EXCEPT ![x] = "dead"] ELSE peer
  /\ failed' = \/ Uncomplete(slot[k].low)
               \/ s.type = "reserve" /\ s.closing
  /\ UNCHANGED <<force, wire>>

\* Blocked by a direct write: the event comes again.
WriteBlocked(e) ==
  /\ Default(e) /\ ~e.read /\ e.write
  /\ lock[e.s] # None
  /\ Handled(e)
  /\ TellNothing
  /\ UNCHANGED <<slot, dw, force, netVars, failed>>

-----------------------------------------------------------------------------
(* The other end of a connection.                                          *)

PeerSet(x, from, to) ==
  /\ ~failed
  /\ peer[x] \in from
  /\ peer' = [peer EXCEPT ![x] = to]
  /\ UNCHANGED <<slotVars, pollVars, senderVars, ownerVars, wire, failed>>

PeerCloses(x) == PeerSet(x, {"open"}, "fin")
PeerResets(x) == PeerSet(x, {"open", "fin"}, "rst")

-----------------------------------------------------------------------------

Ctrl ==
  \/ OpenSocket \/ ResumeSocket \/ CloseSocket("K") \/ CloseSocket("X")
  \/ SendSocket \/ TriggerWrite \/ NoCommand

HandleEvent(e) ==
  \/ ReportConnect(e) \/ InvalidEvent(e)
  \/ ReadData(e) \/ ReadEnd(e) \/ ReadError(e) \/ ErrorEvent(e) \/ EofEvent(e)
  \/ \E u \in 0..(Unit * MaxNo * Cardinality(Sender)) : SendBuffer(e, u)
  \/ WriteError(e) \/ WriteBlocked(e)

Events ==
  \/ \E x \in Id : Accept(x)
  \/ AcceptDropped
  \/ \E e \in ev \ {None} : HandleEvent(e)

Thread ==
  \/ Ctrl \/ ForceClose \/ Events
  \/ \E data \in SUBSET Slot, accept \in BOOLEAN : Wait(data, accept)

OwnerStep ==
  \E x \in Id : Connect(x) \/ Start(x) \/ \E how \in Asks : Close(x, how)

Next ==
  \/ \E c \in Sender : SenderStep(c) \/ \E x \in Id, kind \in Sends : Send(c, x, kind)
  \/ OwnerStep
  \/ Thread
  \/ \E x \in Id : PeerCloses(x) \/ PeerResets(x)

Spec == Init /\ [][Next]_vars
=============================================================================
