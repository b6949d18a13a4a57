-------------------------- MODULE RequestContract --------------------------
(***************************************************************************)
(* What a caller of a modem request may rely on, whatever the transport:   *)
(* one request at a time is waited for, and it ends with the answer to     *)
(* that very request or with none.                                         *)
(***************************************************************************)
CONSTANTS
  Requests,  \* the requests a caller can make
  Nothing    \* stands for no request, and for no answer; it is none of them

VARIABLES
  pending,  \* the request waited for
  answer    \* the request whose answer the caller holds

vars == <<pending, answer>>

Init == pending = Nothing /\ answer = Nothing

Call(r) ==
  /\ pending = Nothing
  /\ pending' = r
  /\ answer' = Nothing

Answered ==
  /\ pending # Nothing
  /\ answer' = pending
  /\ pending' = Nothing

\* An error, a timeout, or a wait cut short; or the caller is done with the answer.
Unanswered ==
  /\ pending' = Nothing
  /\ answer' = Nothing

Next == (\E r \in Requests : Call(r)) \/ Answered \/ Unanswered

Spec == Init /\ [][Next]_vars
=============================================================================
