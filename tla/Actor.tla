-------------------------------- MODULE Actor --------------------------------
(***************************************************************************)
(* What skynet promises of a service: it takes one message at a time, in   *)
(* the order they were put into its mailbox, and what is in the mailbox    *)
(* when the service is gone is dropped, each message once.                 *)
(***************************************************************************)
EXTENDS Sequences

CONSTANTS Service, Mail, Nothing

VARIABLES
  life,      \* of a service: "none", "open" or "closed"
  box,       \* the mailbox of a service
  serving    \* the message a service works on, or Nothing

Init ==
  /\ life \in [Service -> {"none", "open"}]
  /\ box = [s \in Service |-> <<>>]
  /\ serving = [s \in Service |-> Nothing]

Open(s) ==
  /\ life[s] = "none"
  /\ life' = [life EXCEPT ![s] = "open"]
  /\ UNCHANGED <<box, serving>>

Put(s, m) ==
  /\ life[s] = "open"
  /\ box' = [box EXCEPT ![s] = Append(@, m)]
  /\ UNCHANGED <<life, serving>>

Take(s) ==
  /\ life[s] = "open"
  /\ serving[s] = Nothing
  /\ box[s] # <<>>
  /\ serving' = [serving EXCEPT ![s] = Head(box[s])]
  /\ box' = [box EXCEPT ![s] = Tail(@)]
  /\ UNCHANGED life

Finish(s) ==
  /\ serving[s] # Nothing
  /\ serving' = [serving EXCEPT ![s] = Nothing]
  /\ UNCHANGED <<life, box>>

\* A service is never closed while it works on a message.
Close(s) ==
  /\ life[s] = "open"
  /\ serving[s] = Nothing
  /\ life' = [life EXCEPT ![s] = "closed"]
  /\ UNCHANGED <<box, serving>>

Drop(s) ==
  /\ life[s] = "closed"
  /\ box[s] # <<>>
  /\ box' = [box EXCEPT ![s] = Tail(@)]
  /\ UNCHANGED <<life, serving>>

Next ==
  \E s \in Service :
    \/ Open(s) \/ Take(s) \/ Finish(s) \/ Close(s) \/ Drop(s)
    \/ \E m \in Mail : Put(s, m)

Spec == Init /\ [][Next]_<<life, box, serving>>
=============================================================================
