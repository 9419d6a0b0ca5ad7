----------------------------- MODULE EchoService -----------------------------
(***************************************************************************)
(* What the clients of the echo server see: the message of a client comes  *)
(* back to it from the beginning, in order, and never more of it than was  *)
(* sent.  The service of a client ends once.  A server that lives ends it  *)
(* orderly only after some of the message was returned; a reset, or the    *)
(* death of the client or the server, may come at any time.                *)
(***************************************************************************)
EXTENDS Naturals, Sequences

CONSTANTS Clients, MessageLength

VARIABLES reply,        \* client -> the bytes it got back
          outcome       \* client -> how its service ended

vars == <<reply, outcome>>

Init ==
  /\ reply = [c \in Clients |-> <<>>]
  /\ outcome = [c \in Clients |-> "pending"]

Return(c) ==
  /\ outcome[c] = "pending"
  /\ \E n \in Len(reply[c]) + 1 .. MessageLength :
       reply' = [reply EXCEPT ![c] = [i \in 1 .. n |-> i]]
  /\ UNCHANGED outcome

Finish(c) ==
  /\ outcome[c] = "pending"
  /\ \/ outcome' = [outcome EXCEPT ![c] = "answered"] /\ reply[c] # <<>>
     \/ outcome' = [outcome EXCEPT ![c] = "refused"] /\ reply[c] = <<>>
     \/ \E how \in {"reset", "killed", "abandoned"} : outcome' = [outcome EXCEPT ![c] = how]
  /\ UNCHANGED reply

Spec == Init /\ [][\E c \in Clients : Return(c) \/ Finish(c)]_vars
=============================================================================
