----------------------------- MODULE SkynetHandle -----------------------------
(***************************************************************************)
(* The handle storage of skynet: the table of services, hashed by handle   *)
(* and doubled when it is full, the sorted array of names, and the loop    *)
(* that retires all services (skynet_handle.c).                            *)
(*                                                                         *)
(* A step is one critical section of the storage's lock.  A member of      *)
(* Context is the memory of a context, used again by a later service.      *)
(* Names are numbers, in the order of strcmp.                              *)
(***************************************************************************)
EXTENDS Integers, Sequences, FiniteSets, SequencesExt

CONSTANTS
  Context,
  Name,
  HandleMask,     \* HANDLE_MASK, one less than a power of two
  InitSize,       \* DEFAULT_SLOT_SIZE
  SerialLaunch,   \* one skynet_context_new at a time, as the launcher does
  None

Pow2(k) == 2 ^ k

\* What the proofs need to know of ^, which the provers do not know.
ASSUME PowersOfTwo ==
  Pow2(0) = 1 /\ \A k \in 0..24 : Pow2(k + 1) = 2 * Pow2(k)

\* DEFAULT_SLOT_SIZE is 4, HANDLE_MASK 0xffffff.
ASSUME SkynetHandleAssumption ==
  /\ Name \subseteq Nat /\ HandleMask \in Nat
  /\ \E k \in 1..24 : HandleMask + 1 = Pow2(k)
  /\ \E k \in 1..24 : InitSize = Pow2(k)
  /\ InitSize <= HandleMask
  /\ SerialLaunch \in BOOLEAN
  /\ None \notin Context

VARIABLES
  size,         \* slot_size
  slot,         \* slot[0 .. slot_size-1], None or a context
  index,        \* handle_index
  name,         \* the names and their handles
  state,        \* of a context: "free", "registered" or "live"
  handle,       \* ctx->handle; 0 until skynet_handle_register has returned
  result,       \* what skynet_handle_register returns for a context
  failed,       \* an assertion of the storage has failed
  pc, i, n, h   \* skynet_handle_retireall: where it is, its locals

tableVars == <<size, slot, index>>
ctxVars   == <<state, handle, result>>
loopVars  == <<pc, i, n, h>>
vars      == <<tableVars, name, ctxVars, failed, loopVars>>

Handle   == 1..HandleMask
SlotOf(x, sz) == x % sz                      \* handle & (slot_size - 1)
Sizes    == {sz \in 1..(HandleMask + 1) : \E k \in 1..24 : sz = Pow2(k)}

TypeOK ==
  /\ size \in Sizes
  /\ slot \in [0..(size - 1) -> Context \cup {None}]
  /\ index \in 1..(HandleMask + 1)
  /\ name \in Seq([name : Name, handle : Handle])
  /\ state \in [Context -> {"free", "registered", "live"}]
  /\ handle \in [Context -> 0..HandleMask]
  /\ result \in [Context -> 0..HandleMask]
  /\ failed \in BOOLEAN
  /\ pc \in {"idle", "read", "retire", "done"}
  /\ i \in 0..(HandleMask + 1)
  /\ n \in Nat
  /\ h \in 0..HandleMask

\* skynet_handle_init.
Init ==
  /\ size = InitSize
  /\ slot = [x \in 0..(InitSize - 1) |-> None]
  /\ index = 1
  /\ name = <<>>
  /\ state = [c \in Context |-> "free"]
  /\ handle = [c \in Context |-> 0]
  /\ result = [c \in Context |-> 0]
  /\ failed = FALSE
  /\ pc = "idle" /\ i = 0 /\ n = 0 /\ h = 0

-----------------------------------------------------------------------------
(* skynet_handle_register.                                                 *)

\* The handles that are tried: slot_size of them from handle_index, 0 left out.
Candidate(k) == 1 + ((index + k - 1) % HandleMask)

\* The first candidate whose slot is free in a table, or 0.
FreeHandle(sz, tb) ==
  LET free == {k \in 0..(sz - 1) : tb[SlotOf(Candidate(k), sz)] = None}
  IN  IF free = {} THEN 0
      ELSE Candidate(CHOOSE k \in free : \A l \in free : k <= l)

\* Every context moves to the slot of its handle.
Rehash ==
  [x \in 0..(2 * size - 1) |->
     LET here == {y \in DOMAIN slot : slot[y] # None /\
                                      SlotOf(handle[slot[y]], 2 * size) = x}
     IN  IF here = {} THEN None ELSE slot[CHOOSE y \in here : \A z \in here : y >= z]]

\* assert(new_slot[hash] == NULL), for two contexts.
Collides ==
  \E x, y \in DOMAIN slot :
    /\ x # y /\ slot[x] # None /\ slot[y] # None
    /\ SlotOf(handle[slot[x]], 2 * size) = SlotOf(handle[slot[y]], 2 * size)

Place(c, sz, tb, x) ==
  /\ size' = sz
  /\ slot' = [tb EXCEPT ![SlotOf(x, sz)] = c]
  /\ index' = x + 1
  /\ result' = [result EXCEPT ![c] = x]
  /\ state' = [state EXCEPT ![c] = "registered"]
  /\ handle' = [handle EXCEPT ![c] = 0]

MayLaunch == SerialLaunch => \A d \in Context : state[d] # "registered"

\* A slot is free.
Register(c) ==
  LET x == FreeHandle(size, slot) IN
  /\ ~failed /\ MayLaunch
  /\ state[c] = "free"
  /\ x # 0
  /\ Place(c, size, slot, x)
  /\ UNCHANGED <<name, failed, loopVars>>

\* Variant: the contexts keep their places in the table.
BugNoRehash(c) ==
  LET tb == [x \in 0..(2 * size - 1) |-> IF x < size THEN slot[x] ELSE None]
  IN
  /\ ~failed /\ MayLaunch
  /\ state[c] = "free"
  /\ FreeHandle(size, slot) = 0
  /\ size * 2 - 1 <= HandleMask
  /\ Place(c, 2 * size, tb, FreeHandle(2 * size, tb))
  /\ UNCHANGED <<name, failed, loopVars>>

\* Variant: the test for the last handle is off by one.
BugMaskTest(c) ==
  /\ ~failed /\ MayLaunch
  /\ state[c] = "free"
  /\ FreeHandle(size, slot) = 0
  /\ IF size * 2 > HandleMask \/ Collides
     THEN /\ failed' = TRUE
          /\ UNCHANGED <<tableVars, ctxVars>>
     ELSE /\ Place(c, 2 * size, Rehash, FreeHandle(2 * size, Rehash))
          /\ UNCHANGED failed
  /\ UNCHANGED <<name, loopVars>>

\* None is: the table is doubled.  An assertion that fails ends the process.
RegisterExpand(c) ==
  /\ ~failed /\ MayLaunch
  /\ state[c] = "free"
  /\ FreeHandle(size, slot) = 0
  /\ IF size * 2 - 1 > HandleMask \/ Collides
     THEN /\ failed' = TRUE
          /\ UNCHANGED <<tableVars, ctxVars>>
     ELSE /\ Place(c, 2 * size, Rehash, FreeHandle(2 * size, Rehash))
          /\ UNCHANGED failed
  /\ UNCHANGED <<name, loopVars>>

\* skynet_context_new: ctx->handle = skynet_handle_register(ctx).
Launched(c) ==
  /\ ~failed
  /\ state[c] = "registered"
  /\ handle' = [handle EXCEPT ![c] = result[c]]
  /\ result' = [result EXCEPT ![c] = 0]
  /\ state' = [state EXCEPT ![c] = "live"]
  /\ UNCHANGED <<tableVars, name, failed, loopVars>>

-----------------------------------------------------------------------------
(* skynet_handle_retire, from EXIT, KILL and retireall.                    *)

\* skynet_handle_grab: the context that is found for a handle.
Grab(x) ==
  LET c == slot[SlotOf(x, size)]
  IN  IF c # None /\ handle[c] = x THEN c ELSE None

\* The names without those of a handle.
NamesWithout(x) ==
  LET kept[k \in 0..Len(name)] ==
        IF k = 0 THEN <<>>
        ELSE IF name[k].handle = x THEN kept[k - 1]
        ELSE Append(kept[k - 1], name[k])
  IN  kept[Len(name)]

\* Variant: the context stays in its slot.
BugRetireLeaks(x) ==
  /\ name' = NamesWithout(x)
  /\ UNCHANGED <<slot, state, handle>>

\* skynet_handle_retire: the slot, every name of the handle, and the context.
RetireHandle(x) ==
  IF Grab(x) = None
  THEN UNCHANGED <<slot, name, state, handle>>
  ELSE /\ slot' = [slot EXCEPT ![SlotOf(x, size)] = None]
       /\ name' = NamesWithout(x)
       /\ state' = [state EXCEPT ![Grab(x)] = "free"]
       /\ handle' = [handle EXCEPT ![Grab(x)] = 0]

Retire(x) ==
  /\ ~failed
  /\ RetireHandle(x)
  /\ UNCHANGED <<size, index, result, failed, loopVars>>

-----------------------------------------------------------------------------
(* Names.                                                                  *)

\* The binary search of findname and _insert_name, from positions b to e of
\* the array (from 0): where it ends, and whether it found the name.
Search(x) ==
  LET s[r \in (0..Len(name)) \X (-1..(Len(name) - 1))] ==
        LET b == r[1]
            e == r[2]
            mid == (b + e) \div 2
            y == name[mid + 1].name
        IN  IF b > e THEN [found |-> FALSE, at |-> b]
            ELSE IF y = x THEN [found |-> TRUE, at |-> mid]
            ELSE IF y < x THEN s[<<mid + 1, e>>] ELSE s[<<b, mid - 1>>]
  IN  s[<<0, Len(name) - 1>>]

FindName(x) == IF Search(x).found THEN name[Search(x).at + 1].handle ELSE 0

\* Variant: the name is put at the end.
BugAppendsName(x, y) ==
  /\ ~failed
  /\ name' = IF Search(x).found THEN name
             ELSE Append(name, [name |-> x, handle |-> y])
  /\ UNCHANGED <<tableVars, ctxVars, failed, loopVars>>

\* skynet_handle_namehandle, from REG and NAME: of any handle, live or not.
NameHandle(x, y) ==
  /\ ~failed
  /\ name' = IF Search(x).found THEN name
             ELSE InsertAt(name, Search(x).at + 1, [name |-> x, handle |-> y])
  /\ UNCHANGED <<tableVars, ctxVars, failed, loopVars>>

-----------------------------------------------------------------------------
(* skynet_handle_retireall, from ABORT.                                    *)

RetireAll ==
  /\ ~failed
  /\ pc = "idle"
  /\ pc' = "read"
  /\ i' = 0 /\ n' = 0
  /\ UNCHANGED <<tableVars, name, ctxVars, failed, h>>

\* One slot is read.  A context without a handle is counted, and left.
ReadSlot ==
  /\ ~failed
  /\ pc = "read" /\ i < size
  /\ h' = IF slot[i] = None THEN 0 ELSE handle[slot[i]]
  /\ n' = IF slot[i] = None THEN n ELSE n + 1
  /\ IF h' # 0
     THEN pc' = "retire" /\ UNCHANGED i
     ELSE i' = i + 1 /\ UNCHANGED pc
  /\ UNCHANGED <<tableVars, name, ctxVars, failed>>

RetireSlot ==
  /\ ~failed
  /\ pc = "retire"
  /\ RetireHandle(h)
  /\ i' = i + 1 /\ h' = 0
  /\ pc' = "read"
  /\ UNCHANGED <<size, index, result, failed, n>>

\* The end of a round: another one, unless the table was empty.
RoundEnd ==
  /\ ~failed
  /\ pc = "read" /\ i >= size
  /\ pc' = IF n = 0 THEN "done" ELSE "read"
  /\ i' = 0 /\ n' = 0
  /\ UNCHANGED <<tableVars, name, ctxVars, failed, h>>

Loop == ReadSlot \/ RetireSlot \/ RoundEnd

Next ==
  \/ \E c \in Context : Register(c) \/ RegisterExpand(c) \/ Launched(c)
  \/ \E x \in Handle : Retire(x)
  \/ \E x \in Name, y \in Handle : NameHandle(x, y)
  \/ RetireAll \/ Loop

Spec == Init /\ [][Next]_vars
=============================================================================
