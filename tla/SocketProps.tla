------------------------------ MODULE SocketProps ------------------------------
(***************************************************************************)
(* What the sockets promise the services (socket_server.c).                *)
(***************************************************************************)
EXTENDS SocketServer

\* The fields have their types and the assertions of the thread hold: a fresh
\* slot has empty lists (socket_server.c:533), a reserved one is not closed
\* (:489), the size of the lists is right (:893), a half-written package never
\* waits in the low list (:861), and no sender is counted off that was not
\* counted (:1334).
NoAssert == TypeOK /\ ~failed

\* Units of x: two of each package, side by side, and of no other socket.
Paired(units, x) ==
  \A i, j \in DOMAIN units :
    /\ units[i].to = x
    /\ units[i] = units[j] <=> (i - 1) \div Unit = (j - 1) \div Unit

\* The packages of one sender in their order, except that one of high priority
\* may pass one of low priority.
Ordered(units) ==
  \A i, j \in DOMAIN units :
    i < j /\ units[i].by = units[j].by /\ units[i].no > units[j].no
      => units[i].kind = "D" /\ units[j].kind = "P"

\* A connection carries the packages for it, each at most once and in one
\* piece, whoever writes them: the senders with the lock, or the thread from
\* dw_buffer and the two lists (socket_server.c:861-975, 1816-1861).
WholePackages == \A x \in Id : Paired(wire[x], x)

\* Packages of high priority may pass those of low priority, and no other any
\* of the same sender (socket_server.c:1001-1006).
InOrder == \A x \in Id : Ordered(wire[x])

\* SOCKET_CLOSE is raised once for a socket, and no data after it, whichever of
\* the two ends closes first (socket_server.c:1123-1128).
CloseOnce == \A x \in Id : closes[x] <= 1 /\ "late" \notin told[x]

-----------------------------------------------------------------------------
(* The same, made inductive.                                               *)

Alive(k) == slot[k].type \notin {"invalid", "reserve"}

\* Ids are handed out in order, each for its slot, and nothing is known of those
\* to come.
IdInv ==
  /\ \A x \in Id :
       alloc < x => told[x] = {} /\ asked[x] = {} /\ closes[x] = 0
  /\ \A k \in Slot :
       /\ slot[k].id <= alloc /\ sending[k].id <= alloc
       /\ slot[k].id # 0 => HASH(slot[k].id) = k
       /\ sending[k].id # 0 => HASH(sending[k].id) = k
       /\ slot[k].type # "invalid" => slot[k].id # 0
  /\ \A i \in DOMAIN pipe : 0 < pipe[i].id /\ pipe[i].id <= alloc

\* A slot that is reserved waits for its request, which is the first one of its
\* socket.
OpenInv ==
  /\ \A k \in Slot : slot[k].type = "reserve" =>
       \E i \in DOMAIN pipe : pipe[i].cmd = "O" /\ pipe[i].id = slot[k].id
  /\ \A i \in DOMAIN pipe : pipe[i].cmd = "O" =>
       LET x == pipe[i].id IN
       /\ slot[HASH(x)].id = x /\ slot[HASH(x)].type = "reserve"
       /\ told[x] \subseteq {"err"} /\ closes[x] = 0
       /\ \A j \in DOMAIN pipe : j < i => pipe[j].id # x

\* Who writes on a socket, or has a request on its way, was told that it is open;
\* since then its slot counts for it, as long as it has the slot.
ToldInv ==
  /\ \A c \in Sender : call[c] # None => "open" \in told[call[c].pkg.to]
  /\ \A i \in DOMAIN pipe :
       /\ pipe[i].cmd = "D" => /\ pipe[i].pkg.to = pipe[i].id
                              /\ "open" \in told[pipe[i].id]
       /\ pipe[i].cmd = "R" => "accept" \in told[pipe[i].id]
  /\ \A x \in Id : told[x] \cap {"open", "accept"} # {} =>
       LET k == HASH(x) IN
       slot[k].id = x => slot[k].type # "reserve" /\ sending[k].id = x
  /\ \A k \in Slot : Alive(k) => sending[k].id = slot[k].id

\* A slot without a connection has nothing to write; a sender that may write has
\* the lock of one with a connection.
FreshInv ==
  /\ \A k \in Slot : ~Alive(k) => BufferEmpty(slot[k]) /\ dw[k] = None
  /\ \A c \in Sender : call[c] # None =>
       LET k == HASH(call[c].pkg.to) IN
       /\ call[c].pc \in {"lock", "write"} => lock[k] = c
       /\ call[c].pc = "write" => Alive(k) /\ dw[k] = None

\* The packages that are counted for the socket of a slot.
Coming(x) == {i \in DOMAIN pipe : pipe[i].cmd = "D" /\ pipe[i].id = x}
Going(x)  ==
  {c \in Sender : call[c] # None /\ call[c].pc = "request" /\ call[c].pkg.to = x}

CountInv ==
  \A k \in Slot :
    Cardinality(Coming(sending[k].id)) + Cardinality(Going(sending[k].id)) <= sending[k].n

\* The size of the lists; only the first buffer of the high list may have been
\* written in part.
Whole(list, from) == \A i \in DOMAIN list : from <= i => list[i].left = Unit

SizeInv ==
  \A k \in Slot :
    /\ Alive(k) /\ (force = None \/ force.s # k)
         => slot[k].wb = Len(Units(slot[k].high)) + Len(Units(slot[k].low))
    /\ Whole(slot[k].low, 1)

\* force_close ends a connection whose lists are freed, and raises SOCKET_CLOSE if that was not raised.
ForceInv ==
  force # None =>
    LET k == force.s IN
    /\ Alive(k) /\ BufferEmpty(slot[k])
    /\ force.raise = "close" =>
         slot[k].type # "halfclose_read" /\ closes[slot[k].id] = 0

\* Where SOCKET_CLOSE was raised the socket does not read any more.
CloseInv ==
  \A k \in Slot :
    slot[k].id # 0 /\ closes[slot[k].id] > 0
      => slot[k].type \in {"halfclose_read", "invalid"}

\* No event is older than the socket it reaches.
EventInv == \A e \in ev \ {None} : slot[e.s].type # "reserve"

SocketInv ==
  /\ CloseOnce
  /\ \/ failed
     \/ /\ TypeOK /\ IdInv /\ OpenInv /\ ToldInv /\ FreshInv
        /\ CountInv /\ SizeInv /\ ForceInv /\ CloseInv

FreshEvents == ~failed /\ EventInv

\* A connection that still takes bytes, and all that it was sent so far: what is
\* written, then what waits in dw_buffer and the lists, in this order.
Live(x) == slot[HASH(x)].id = x /\ peer[x] \in {"open", "fin"}

Rest(b) == IF b = None THEN <<>> ELSE Copies(b)

Pending(k) == Rest(dw[k]) \o (Units(slot[k].high) \o Units(slot[k].low))

Stream(x) == IF Live(x) THEN wire[x] \o Pending(HASH(x)) ELSE wire[x]

\* A stream consists of whole packages as long as it is sent; there is none
\* before the senders are told.
StreamInv ==
  \A x \in Id :
    /\ Paired(Stream(x), x) /\ Ordered(Stream(x))
    /\ Live(x) => Len(Stream(x)) % Unit = 0
    /\ "open" \notin told[x] => Stream(x) = <<>>

\* A sender numbers its packages; those in the streams come before those in the
\* pipe, and these before the one it is about to send.
Waits(c) == call[c] # None /\ call[c].pc # "trigger"

Given(p) == p.no <= count[p.by] /\ (Waits(p.by) => p.no < count[p.by])

\* No package of the sender of p in s comes after it.
Newest(s, p) == \A i \in DOMAIN s : s[i].by = p.by => s[i].no < p.no

NumberInv ==
  /\ \A c \in Sender : call[c] # None => call[c].pkg.by = c /\ call[c].pkg.no = count[c]
  /\ \A x \in Id : \A i \in DOMAIN Stream(x) : Given(Stream(x)[i])
  /\ \A j \in DOMAIN pipe : pipe[j].cmd = "D" =>
       LET p == pipe[j].pkg IN
       /\ Given(p)
       /\ \A i \in DOMAIN pipe :
            i < j /\ pipe[i].cmd = "D" /\ pipe[i].pkg.by = p.by => pipe[i].pkg.no < p.no
       /\ Newest(Stream(p.to), p)

\* A sender that may write itself has nothing on its way to the socket, and what
\* others have in the lists meanwhile is whole.
WriteInv ==
  \A c \in Sender : call[c] # None /\ call[c].pc = "write" =>
    LET x == call[c].pkg.to
        k == HASH(x)
    IN  /\ slot[k].id = x
        /\ Len(Pending(k)) % Unit = 0
        /\ \A i \in DOMAIN Pending(k) : Pending(k)[i].by # c
        /\ \A i \in DOMAIN pipe :
             pipe[i].cmd = "D" /\ pipe[i].id = x => pipe[i].pkg.by # c

\* What the steps that end a connection find: lists that may be freed, since
\* nobody can write any more.
Low(units) == \A i \in DOMAIN units : units[i].kind = "P"

EndInv ==
  /\ \A k \in Slot :
       /\ Low(Units(slot[k].low))
       /\ slot[k].type = "halfclose_write" => ~Live(slot[k].id)
       /\ slot[k].type = "connecting" => "open" \notin told[slot[k].id]
  /\ \A e \in ev \ {None} :
       e.end = "hup" => slot[e.s].id \in Id /\ ~Live(slot[e.s].id)
  /\ \A i \in DOMAIN pipe : pipe[i].cmd # "X"

WireInv == StreamInv /\ NumberInv /\ WriteInv /\ EndInv

Broken(x) == peer[x] \in {"rst", "dead"} \/ "shutdown" \in asked[x]

Ended(x) == asked[x] \cap {"close", "shutdown"} # {}

\* The thread has seen the last request of the owner.
Over(x) == Ended(x) /\ \A i \in DOMAIN pipe : pipe[i].cmd = "K" => pipe[i].id # x

\* The owner sends nothing on a socket behind its request to close it.
LastInv ==
  /\ \A x \in Id : Ended(x) => call[Owner] = None \/ call[Owner].pkg.to # x
  /\ \A i \in DOMAIN pipe : pipe[i].cmd = "K" => Ended(pipe[i].id)
  /\ \A i, j \in DOMAIN pipe :
       /\ pipe[i].cmd = "K" /\ pipe[j].id = pipe[i].id
       /\ pipe[j].cmd = "K" \/ (pipe[j].cmd = "D" /\ pipe[j].pkg.by = Owner)
       => j <= i
  /\ \A j \in DOMAIN pipe :
       pipe[j].cmd = "D" /\ pipe[j].pkg.by = Owner => ~Over(pipe[j].id)

\* A socket that does not take what senders queue is broken or was closed by its
\* owner.
Shut(x) ==
  LET k == HASH(x) IN
  \/ Invalid(x) \/ slot[k].closing
  \/ force # None /\ force.s = k

ShutInv ==
  /\ \A x \in Id : "open" \in told[x] /\ Shut(x) => Over(x) \/ Broken(x)
  /\ \A k \in Slot :
       /\ slot[k].closing => slot[k].type \in {"halfclose_read", "invalid", "reserve"}
       /\ slot[k].type = "paccept" => "open" \notin told[slot[k].id]
       /\ Alive(k) => peer[slot[k].id] # "none"

\* A slot holds packages of its socket only; what force_close drops is not the
\* owner's.
PlaceInv ==
  /\ \A k \in Slot : \A i \in DOMAIN Pending(k) : Pending(k)[i].to = slot[k].id
  /\ force # None /\ dw[force.s] # None =>
       dw[force.s].pkg.by # Owner \/ Broken(slot[force.s].id)

LossInv == LastInv /\ ShutInv /\ PlaceInv

-----------------------------------------------------------------------------
\* The packages that are on their way to a socket.
InLists(x) ==
  LET k == HASH(x)
      s == slot[k]
      buffers == ToSet(s.high) \cup ToSet(s.low)
                 \cup ({dw[k]} \ {None})
      requests == {r \in ToSet(pipe) : r.cmd = "D"}
      calls == {c \in Sender : call[c] # None /\ call[c].pc # "trigger"}
  IN  {b.pkg : b \in buffers} \cup {r.pkg : r \in requests}
        \cup {call[c].pkg : c \in calls}

Times(units, p) == Cardinality({i \in DOMAIN units : units[i] = p})

\* socket.close loses nothing: what the owner sent before is written whole
\* before the socket is closed, unless the connection breaks or is shut down
\* (socket_server.c:1100, 1141-1154 and 895).
NothingLost ==
  [][\A x \in Id : \A p \in InLists(x) :
       p.by = Owner /\ p.to = x /\ ~Broken(x) /\ p \notin InLists(x)'
         => Times(wire'[x], p) = Unit]_vars

\* The thread polls, a call of a sender goes on, and the kernel takes a unit
\* now and then while the other end is there.
Takes ==
  \E e \in ev \ {None}, u \in 1..(Unit * MaxNo * Cardinality(Sender)) :
    SendBuffer(e, u)

FairSpec ==
  /\ Spec
  /\ WF_vars(Thread) /\ SF_vars(Takes)
  /\ \A c \in Sender : WF_vars(SenderStep(c))

\* A socket that its owner ends is closed at last and its slot free, and the owner
\* is told: also when packages wait, the connection breaks, or the other end
\* closes meanwhile (socket_server.c:1123-1155).
Closes ==
  \A x \in Id :
    Ended(x) ~>
      /\ slot[HASH(x)].id # x \/ slot[HASH(x)].type = "invalid"
      /\ closes[x] = 1 \/ "err" \in told[x]
=============================================================================
