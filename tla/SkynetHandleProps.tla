--------------------------- MODULE SkynetHandleProps ---------------------------
(***************************************************************************)
(* What the handle storage promises (skynet_handle.c).                     *)
(***************************************************************************)
EXTENDS SkynetHandle

\* A live service is found by its handle, through every expansion of the table
\* and every wrap of handle_index, until it is retired: skynet_handle_grab
\* (skynet_handle.c:138) never answers NULL for it, nor another service.
Reachable ==
  \A c \in Context : state[c] = "live" => Grab(handle[c]) = c

\* The variables have their types, and while services are made one at a time the
\* assertions of skynet_handle_register (skynet_handle.c:59 and 65) hold: there
\* are never more services than handles, and an expansion moves no two of them
\* to one slot.
NoAbort == TypeOK /\ (SerialLaunch => ~failed)

\* The binary search of findname and _insert_name (skynet_handle.c:157 and 213)
\* finds exactly the names in the array, each with its own handle.
FindsName ==
  \A x \in Name :
    /\ Search(x).found <=> \E k \in DOMAIN name : name[k].name = x
    /\ \A k \in DOMAIN name : name[k].name = x => FindName(x) = name[k].handle

-----------------------------------------------------------------------------
(* The same, made inductive, while services are made one at a time.        *)

\* The handle of a context in the table, which is not yet in ctx->handle
\* between the return of skynet_handle_register and its assignment.
HandleOf(c) == IF state[c] = "registered" THEN result[c] ELSE handle[c]

\* Every service is in the slot of its handle, and nothing else is in a slot.
TableInv ==
  /\ \A c \in Context :
       /\ state[c] # "free" => /\ HandleOf(c) \in Handle
                              /\ slot[SlotOf(HandleOf(c), size)] = c
       /\ state[c] # "live" => handle[c] = 0
  /\ \A y \in 0..(size - 1) : slot[y] # None =>
       state[slot[y]] # "free" /\ SlotOf(HandleOf(slot[y]), size) = y

\* Between its two critical sections the retire loop is in the table.
LoopInv == pc = "retire" => i < size /\ h # 0

\* The names are sorted, and no name is there twice.
NameInv ==
  \A j, k \in DOMAIN name : j < k => name[j].name < name[k].name

HandleInv == TypeOK /\ ~failed /\ TableInv /\ LoopInv /\ NameInv

-----------------------------------------------------------------------------
\* A worker or the launcher goes on; the retire loop has its turn at the lock.
FairSpec == Spec /\ WF_vars(Loop) /\ \A c \in Context : WF_vars(Launched(c))

\* ABORT ends, unless services are made for ever: skynet_handle_retireall
\* (skynet_handle.c:115) counts a service without a handle, and comes back for it.
AbortEnds ==
  \/ []<><<\E c \in Context : Register(c) \/ RegisterExpand(c)>>_vars
  \/ pc # "idle" ~> pc = "done" \/ failed
=============================================================================
