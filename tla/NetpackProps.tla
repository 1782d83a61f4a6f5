---------------------------- MODULE NetpackProps ----------------------------
(***************************************************************************)
(* What the packages that a service handles owe to the bytes of the client *)
(***************************************************************************)
EXTENDS Netpack, FiniteSets

(* The variables have their types, and the ring is as long as its capacity *)
(* and not full: push_data expands it before head meets tail.              *)
TypeOK ==
  /\ sizes \in [Conn -> [1 .. Packages -> Size]]
  /\ phase \in [Conn -> {"new", "open", "closed"}]
  /\ \A c \in Conn : got[c] \in 0 .. Len(Stream(c))
  /\ \A c \in Conn : handed[c] \in Seq(Seq(Byte))
  /\ queue # NoQueue =>
       /\ DOMAIN queue.ring = 0 .. queue.cap - 1
       /\ queue.head \in 0 .. queue.cap - 1
       /\ queue.tail = queue.head

(* "Each package is uint16 + data" (lua-netpack.c:27): however the bytes   *)
(* are cut by the network, the packages that the handler gets from a       *)
(* client are the bodies that the client sent, whole and in order.         *)
Framed == \A c \in Conn : IsPrefix(handed[c], Bodies(c))

(* Bytes of the stream of c that its first n packages take. *)
Upto(c, n) == Len(FlattenSeq([i \in 1 .. n |-> Packed(i, sizes[c][i])]))

(* The same, and no package waits: as soon as its last byte has come, a    *)
(* package is handled, also when it came with others or was begun in an    *)
(* earlier read (filter_data_ and push_more, lua-netpack.c:189 and 228).   *)
Prompt ==
  \A c \in Conn :
    handed[c] = SubSeq(Bodies(c), 1,
                       Cardinality({n \in 1 .. Packages : Upto(c, n) <= got[c]}))

(* Bytes kept of client c, the known length included. *)
KeptBytes(u) == IF u.read = -1 THEN 1 ELSE Len(u.data) + 2

(* The memory of a queue: what is kept is, for every open client in the    *)
(* middle of a package, that part of it and nothing else; a closed client  *)
(* leaves nothing (close_uncomplete, lua-netpack.c:218).                   *)
KeepsRemainder ==
  /\ TypeOK
  /\ \A c \in Conn :
       LET held == FindUncomplete(queue, c)
           rest == got[c] - Upto(c, Len(handed[c]))
       IN  IF phase[c] = "open" /\ rest > 0
           THEN Len(held) = 1 /\ KeptBytes(held[1]) = rest
           ELSE held = <<>>
-----------------------------------------------------------------------------
(* The same, made inductive.                                               *)

(* The packages whose last byte has come are the first m. *)
Arrived(c, m) ==
  /\ m \in 0 .. Packages
  /\ Upto(c, m) <= got[c]
  /\ m < Packages => got[c] < Upto(c, m + 1)

(* What is kept after the first m packages of the bytes that have come. *)
Remainder(c, m) ==
  IF got[c] = Upto(c, m) THEN <<>>
  ELSE <<Kept(c, SubSeq(Stream(c), Upto(c, m) + 1, got[c]))>>

(* A bucket of the hash table holds one entry of a socket at most, and only *)
(* of its own sockets.                                                     *)
Uncompletes == [id : Conn, read : Int, size : Nat, data : Seq(Byte)]

Bucket(b, h) ==
  /\ b \in Seq(Uncompletes)
  /\ \A i \in DOMAIN b : HashFd(b[i].id) = h
  /\ \A i, j \in DOMAIN b : b[i].id = b[j].id => i = j

HashTable(f) ==
  /\ f \in [0 .. HashSize - 1 -> Seq(Uncompletes)]
  /\ \A h \in 0 .. HashSize - 1 : Bucket(f[h], h)

(* A ring of packages, and the hash table with it.                         *)
Slot == {NoPackage} \cup [id : Conn, data : Seq(Byte)]

QueueOK(q) ==
  /\ q = [cap |-> q.cap, head |-> q.head, tail |-> q.tail,
          ring |-> q.ring, hash |-> q.hash]
  /\ q.cap \in Nat \ {0}
  /\ q.head \in 0 .. q.cap - 1
  /\ q.tail \in 0 .. q.cap - 1
  /\ q.ring \in [0 .. q.cap - 1 -> Slot]
  /\ HashTable(q.hash)

(* Of every client the packages that have arrived are handed over, and the *)
(* queue keeps what is left of its bytes while it is open, and nothing     *)
(* else.                                                                   *)
NetpackInv ==
  /\ TypeOK
  /\ got \in [Conn -> Nat]
  /\ handed \in [Conn -> Seq(Seq(Byte))]
  /\ queue # NoQueue => QueueOK(queue)
  /\ \A c \in Conn :
       /\ phase[c] = "new" => got[c] = 0
       /\ \E m \in 0 .. Packages :
            /\ Arrived(c, m)
            /\ handed[c] = SubSeq(Bodies(c), 1, m)
            /\ FindUncomplete(queue, c) =
                 IF phase[c] = "open" THEN Remainder(c, m) ELSE <<>>
=============================================================================
