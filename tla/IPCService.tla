----------------------------- MODULE IPCService -----------------------------
(***************************************************************************)
(* What mini promises the PowerPC, without rings, doorbells, interrupts or *)
(* program counters.  Requests are accepted in the order they were sent.   *)
(* A fast request is answered when it is accepted; a slow one joins the    *)
(* jobs, which are performed one at a time in order.  Answers are          *)
(* collected in the order they were given, each request has exactly one,   *)
(* and the server stops only because a job told it to or because too many  *)
(* jobs were waiting.                                                      *)
(***************************************************************************)
EXTENDS Integers, Sequences

CONSTANTS
  InRoom, OutRoom, JobRoom,  \* how many requests, answers and jobs may wait
  Calls,                     \* the requests there can be
  Fast(_), Answered(_),      \* what kind of request it is
  Ending(_),                 \* performing it ends the service
  CardCall                   \* the job a card event adds

VARIABLES requests, jobs, replies, state

vars == <<requests, jobs, replies, state>>

Init ==
  /\ requests = <<>> /\ jobs = <<>> /\ replies = <<>>
  /\ state = "serving"

Answer(call) ==
  IF Answered(call)
    THEN Len(replies) < OutRoom /\ replies' = Append(replies, call)
    ELSE UNCHANGED replies

AddJob(call) ==
  /\ Len(jobs) < JobRoom
  /\ jobs' = Append(jobs, call)

Submit(call) ==
  /\ Len(requests) < InRoom
  /\ requests' = Append(requests, call)
  /\ UNCHANGED <<jobs, replies, state>>

Collect ==
  /\ replies # <<>>
  /\ replies' = Tail(replies)
  /\ UNCHANGED <<requests, jobs, state>>

AnswerFast ==
  /\ state \in {"serving", "ending"}
  /\ requests # <<>> /\ Fast(Head(requests))
  /\ Answer(Head(requests))
  /\ requests' = Tail(requests)
  /\ UNCHANGED <<jobs, state>>

Defer ==
  /\ state \in {"serving", "ending"}
  /\ requests # <<>> /\ ~Fast(Head(requests))
  /\ AddJob(Head(requests))
  /\ requests' = Tail(requests)
  /\ UNCHANGED <<replies, state>>

CardEvent ==
  /\ state \in {"serving", "ending"}
  /\ AddJob(CardCall)
  /\ UNCHANGED <<requests, replies, state>>

Perform ==
  /\ state = "serving"
  /\ jobs # <<>>
  /\ Answer(Head(jobs))
  /\ jobs' = Tail(jobs)
  /\ state' = IF Ending(Head(jobs)) THEN "ending" ELSE "serving"
  /\ UNCHANGED requests

End ==
  /\ state = "ending"
  /\ state' = "ended"
  /\ UNCHANGED <<requests, jobs, replies>>

(* At most one finished job still occupies its place when room runs out.   *)
Overrun ==
  /\ state \in {"serving", "ending"}
  /\ Len(jobs) >= JobRoom - 1
  /\ state' = "overrun"
  /\ UNCHANGED <<requests, jobs, replies>>

Next ==
  \/ \E call \in Calls : Submit(call)
  \/ Collect \/ AnswerFast \/ Defer \/ CardEvent \/ Perform \/ End \/ Overrun

Spec == Init /\ [][Next]_vars
=============================================================================
