------------------------------ MODULE Netpack ------------------------------
(***************************************************************************)
(* The cutting of a byte stream into packages: the C library               *)
(* skynet/lualib-src/lua-netpack.c and the service that calls it.  A       *)
(* message of the socket thread brings some bytes of one connection; the   *)
(* filter joins them to what it kept of the connection, hands over the     *)
(* packages that are whole (one directly, several through a ring) and      *)
(* keeps the remainder in a hash table.                                    *)
(*                                                                         *)
(* Two services call it.  They differ in what they do with the queue:      *)
(* skynet's gateserver (KeepsQueue, not ClearsOnClose) and the gateway of  *)
(* the game (not KeepsQueue, ClearsOnClose).                               *)
(*                                                                         *)
(* A byte is a record: its package, its place in it, and a value below     *)
(* Base (256 in the code).  The buffers of C are sequences of bytes.       *)
(***************************************************************************)
EXTENDS Integers, Sequences, SequencesExt

CONSTANTS Conn,          \* socket ids, as given by the socket server
          Base,          \* values of a byte
          Size,          \* lengths of packages that the clients send
          Packages,      \* packages that a client sends: a bound
          QueueSize,     \* QUEUESIZE, the first capacity of the ring
          HashSize,      \* HASHSIZE, the buckets of the hash table
          KeepsQueue,    \* the service keeps the queue of every filter call
          ClearsOnClose  \* the service clears the queue when one socket closes

ASSUME NetpackAssumption ==
  /\ Conn \subseteq Nat
  /\ Base \in Nat \ {0, 1}
  /\ Size \subseteq 0 .. Base * Base - 1
  /\ Packages \in Nat
  /\ QueueSize \in Nat \ {0}
  /\ HashSize \in Nat \ {0}
  /\ KeepsQueue \in BOOLEAN
  /\ ClearsOnClose \in BOOLEAN

VARIABLES sizes,   \* sizes[c]: lengths of the packages that client c sends
          phase,   \* "new", "open" or "closed": what the service knows of c
          got,     \* bytes of c that the socket thread has delivered
          queue,   \* the Lua variable queue: NoQueue or a struct queue
          handed   \* packages of c given to the message handler, in order

vars == <<sizes, phase, got, queue, handed>>

(* The variable before any call made a queue: nil. *)
NoQueue == [cap |-> 0]

(* A slot of the ring that was never written. *)
NoPackage == <<>>

-----------------------------------------------------------------------------
(* The stream of a client: every package packed by lpack.                  *)

(* A byte of package i: places 1 and 2 are the length. *)
Byte == [pack : 1 .. Packages, at : 1 .. Base * Base + 1, val : 0 .. Base - 1]

(* write_size: the two bytes of a length, the high one first. *)
HeaderOf(i, len) == << [pack |-> i, at |-> 1, val |-> len \div Base],
                       [pack |-> i, at |-> 2, val |-> len % Base] >>

BodyOf(i, len) == [k \in 1 .. len |-> [pack |-> i, at |-> k + 2, val |-> 1]]

(* lpack *)
Packed(i, len) == HeaderOf(i, len) \o BodyOf(i, len)

Bodies(c) == [i \in 1 .. Packages |-> BodyOf(i, sizes[c][i])]

Stream(c) == FlattenSeq([i \in 1 .. Packages |-> Packed(i, sizes[c][i])])

(* read_size *)
ReadSize(hi, lo) == hi.val * Base + lo.val

-----------------------------------------------------------------------------
(* struct queue: a ring of whole packages and the buckets of incomplete    *)
(* ones.  read = -1: only the first byte of the length is known.           *)

Uncomplete(c, read, size, data) ==
  [id |-> c, read |-> read, size |-> size, data |-> data]

HashFd(c) == c % HashSize

EmptyQueue == [cap  |-> QueueSize,
               head |-> 0,
               tail |-> 0,
               ring |-> [k \in 0 .. QueueSize - 1 |-> NoPackage],
               hash |-> [h \in 0 .. HashSize - 1 |-> <<>>]]

(* get_queue: a call that must store something makes the queue. *)
GetQueue(q) == IF q = NoQueue THEN EmptyQueue ELSE q

(* Variant: the packages keep their places when the ring grows. *)
BugExpandQueue(q) ==
  [q EXCEPT !.cap  = q.cap + QueueSize,
            !.head = 0,
            !.tail = q.cap,
            !.ring = [k \in 0 .. q.cap + QueueSize - 1 |->
                        IF k < q.cap THEN q.ring[k] ELSE NoPackage]]

(* expand_queue: the packages move to the start of a longer ring. *)
ExpandQueue(q) ==
  [q EXCEPT !.cap  = q.cap + QueueSize,
            !.head = 0,
            !.tail = q.cap,
            !.ring = [k \in 0 .. q.cap + QueueSize - 1 |->
                        IF k < q.cap THEN q.ring[(q.head + k) % q.cap]
                                     ELSE NoPackage]]

(* push_data: a ring that becomes full is expanded at once. *)
PushData(q, c, data) ==
  LET g == GetQueue(q)
      p == [g EXCEPT !.ring[g.tail] = [id |-> c, data |-> data],
                     !.tail = (g.tail + 1) % g.cap]
  IN  IF p.head = p.tail THEN ExpandQueue(p) ELSE p

(* Adding an uncomplete to the front of the bucket of its socket. *)
SaveUncomplete(q, u) ==
  [GetQueue(q) EXCEPT !.hash[HashFd(u.id)] = <<u>> \o @]

(* The places of socket c in its bucket. *)
Places(q, c) ==
  IF q = NoQueue THEN {}
  ELSE {i \in DOMAIN q.hash[HashFd(c)] : q.hash[HashFd(c)][i].id = c}

(* find_uncomplete, the search: what is kept of c, as a sequence of at     *)
(* most one.                                                               *)
FindUncomplete(q, c) ==
  IF Places(q, c) = {} THEN <<>>
  ELSE <<q.hash[HashFd(c)][Min(Places(q, c))]>>

(* find_uncomplete, the removal: the one that was found leaves its bucket. *)
Unlinked(q, c) ==
  IF Places(q, c) = {} THEN q
  ELSE [q EXCEPT !.hash[HashFd(c)] = RemoveAt(@, Min(Places(q, c)))]

(* lpop until it returns nothing: the packages of the ring, oldest first. *)
Popped(q) == [k \in 1 .. (q.tail - q.head) % q.cap |->
                q.ring[(q.head + k - 1) % q.cap]]

(* The ring after that. *)
AllPopped(q) == [q EXCEPT !.head = q.tail]

(* lclear: the kept bytes of every socket are freed. *)
Cleared(q) == IF q = NoQueue
              THEN q
              ELSE [q EXCEPT !.hash = [h \in DOMAIN q.hash |-> <<>>],
                             !.head = 0,
                             !.tail = 0]

-----------------------------------------------------------------------------
(* filter_data_ *)

(* push_more: the whole packages at the front of bytes, and the number of  *)
(* bytes that they take.                                                   *)
Cut(bytes) ==
  LET cut[n \in 0 .. Len(bytes)] ==
        LET left == Len(bytes) - n
            end  == n + 2 + ReadSize(bytes[n + 1], bytes[n + 2])
        IN  IF left < 2 \/ end > Len(bytes)
            THEN [packs |-> <<>>, used |-> n]
            ELSE [packs |-> <<SubSeq(bytes, n + 3, end)>> \o cut[end].packs,
                  used  |-> cut[end].used]
  IN  cut[0]

(* What is kept of a remainder that is not a whole package. *)
Kept(c, bytes) ==
  IF Len(bytes) = 1
  THEN Uncomplete(c, -1, 0, bytes)
  ELSE Uncomplete(c, Len(bytes) - 2, ReadSize(bytes[1], bytes[2]),
                  SubSeq(bytes, 3, Len(bytes)))

(* Joining new bytes to a kept package: its length, once known, and all    *)
(* the bytes after the length.                                             *)
Joined(u, bytes) ==
  IF u.read = -1
  THEN [size |-> ReadSize(u.data[1], bytes[1]), data |-> Tail(bytes)]
  ELSE [size |-> u.size, data |-> u.data \o bytes]

(* The packages that bytes of c complete, and the remainder to keep:       *)
(* nothing, or one uncomplete.                                             *)
Completed(q, c, bytes) ==
  LET u    == FindUncomplete(q, c)
      j    == Joined(u[1], bytes)
      more == IF u = <<>> THEN bytes ELSE SubSeq(j.data, j.size + 1, Len(j.data))
      cut  == Cut(more)
      rest == SubSeq(more, cut.used + 1, Len(more))
  IN  IF u # <<>> /\ Len(j.data) < j.size
      THEN [packs |-> <<>>, keep |-> <<Uncomplete(c, Len(j.data), j.size, j.data)>>]
      ELSE [packs |-> (IF u = <<>> THEN <<>> ELSE <<SubSeq(j.data, 1, j.size)>>)
                        \o cut.packs,
            keep  |-> IF rest = <<>> THEN <<>> ELSE <<Kept(c, rest)>>]

(* push_data of each of several packages. *)
PushAll(q, c, packs) == FoldLeft(LAMBDA g, p : PushData(g, c, p), q, packs)

(* filter_data_ with its three results: nothing yet (type nil), one        *)
(* package and no byte more ("data"), and packages in the ring ("more").   *)
Filtered(q, c, bytes) ==
  LET done   == Completed(q, c, bytes)
      single == Len(done.packs) = 1 /\ done.keep = <<>>
      pushed == PushAll(Unlinked(q, c), c, done.packs)
      stored == IF done.keep = <<>> THEN pushed
                                    ELSE SaveUncomplete(pushed, done.keep[1])
  IN  IF single THEN [type |-> "data", q |-> Unlinked(q, c), msg |-> done.packs[1]]
      ELSE IF done.packs = <<>> THEN [type |-> "nil", q |-> stored, msg |-> <<>>]
      ELSE [type |-> "more", q |-> stored, msg |-> <<>>]

-----------------------------------------------------------------------------
(* The service: the unpack and dispatch functions of the socket protocol.  *)

Init == /\ sizes \in [Conn -> [1 .. Packages -> Size]]
        /\ phase = [c \in Conn |-> "new"]
        /\ got = [c \in Conn |-> 0]
        /\ queue = NoQueue
        /\ handed = [c \in Conn |-> <<>>]

(* The listening socket accepts a client; the filter leaves the queue. *)
Open(c) == /\ phase[c] = "new"
           /\ phase' = [phase EXCEPT ![c] = "open"]
           /\ UNCHANGED <<sizes, got, queue, handed>>

(* The queue variable after the dispatch.  A queue made by a call that     *)
(* returns no type is lost by a service that returns before it assigns     *)
(* the variable; a queue that was there is changed in place.               *)
Dispatched(r) == IF r.type = "nil" /\ queue = NoQueue /\ ~KeepsQueue
                 THEN NoQueue
                 ELSE r.q

(* Packages of the ring given to the handler, each to its own client. *)
Handed(packs) ==
  FoldLeft(LAMBDA h, e : [h EXCEPT ![e.id] = Append(@, e.data)], handed, packs)

(* Bytes of an open client come.  One package is handled in the dispatch;  *)
(* for "more" the dispatch pops the ring until it is empty (the coroutines *)
(* it forks run, in order, before the next message).                       *)
Data(c) ==
  /\ phase[c] = "open"
  /\ \E n \in 1 .. Len(Stream(c)) - got[c] :
       LET r == Filtered(queue, c, SubSeq(Stream(c), got[c] + 1, got[c] + n))
       IN  /\ got' = [got EXCEPT ![c] = @ + n]
           /\ CASE r.type = "nil" ->
                     /\ queue' = Dispatched(r)
                     /\ UNCHANGED handed
                [] r.type = "data" ->
                     /\ queue' = Dispatched(r)
                     /\ handed' = [handed EXCEPT ![c] = Append(@, r.msg)]
                [] r.type = "more" ->
                     /\ queue' = AllPopped(Dispatched(r))
                     /\ handed' = Handed(Popped(Dispatched(r)))
  /\ UNCHANGED <<sizes, phase>>

(* Variant: what is kept of the socket stays. *)
BugClose(c) ==
  /\ phase[c] = "open"
  /\ phase' = [phase EXCEPT ![c] = "closed"]
  /\ queue' = IF ClearsOnClose THEN Cleared(queue) ELSE queue
  /\ UNCHANGED <<sizes, got, handed>>

(* The socket of a client closes: close_uncomplete frees what is kept of   *)
(* it, and the gateway of the game then clears the queue.                  *)
Close(c) ==
  /\ phase[c] = "open"
  /\ phase' = [phase EXCEPT ![c] = "closed"]
  /\ queue' = IF ClearsOnClose THEN Cleared(Unlinked(queue, c))
                               ELSE Unlinked(queue, c)
  /\ UNCHANGED <<sizes, got, handed>>

(* The socket of a client fails: as a close, without the clear. *)
Fail(c) ==
  /\ phase[c] = "open"
  /\ phase' = [phase EXCEPT ![c] = "closed"]
  /\ queue' = Unlinked(queue, c)
  /\ UNCHANGED <<sizes, got, handed>>

Next == \E c \in Conn : Open(c) \/ Data(c) \/ Close(c) \/ Fail(c)

Spec == Init /\ [][Next]_vars
=============================================================================
