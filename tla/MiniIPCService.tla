--------------------------- MODULE MiniIPCService ---------------------------
(***************************************************************************)
(* MiniIPC implements IPCService: the refinement mapping.                  *)
(***************************************************************************)
EXTENDS MiniIPC

ServiceState ==
  IF handler = "panic" THEN "overrun"
  ELSE CASE main = "off"                           -> "ended"
         [] main \in {"flush", "leave", "vector"}  -> "ending"
         [] OTHER                                  -> "serving"

Service ==
  INSTANCE IPCService WITH
    InRoom <- InSize - 1, OutRoom <- OutSize - 1, JobRoom <- SlowSize - 1,
    Calls <- Request,
    Fast <- LAMBDA call : IsFast(call.op),
    Answered <- LAMBDA call : IsAnswered(call.op),
    Ending <- LAMBDA call : call.op \in {"jump", "boot2run"},
    CardCall <- [op |-> "discover", tag |-> NoTag],
    requests <- Pending, jobs <- Jobs, replies <- Replies,
    state <- ServiceState

(* Seen from the PowerPC the rings, bells and interrupts are the service:  *)
(* two first-in first-out lanes, one answer to each request.               *)
ImplementsService == Service!Spec
=============================================================================
