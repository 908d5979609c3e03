----------------------------- MODULE MCMiniIPC ------------------------------
(***************************************************************************)
(* Finite instances of MiniIPC.  Slots outside the live part of a ring     *)
(* keep what was last written to them, and nothing reads them again, so    *)
(* two states that differ only there are the same state to TLC.  The slot  *)
(* ipc_post has filled and not yet published counts as live.               *)
(***************************************************************************)
EXTENDS MiniIPCService, TLC

LiveState ==
  <<InContents, in_head, Replies, outHead, SlowContents, slow_queue_head,
    IF "publish" \in {main, handler} THEN outQueue[out_tail] ELSE NoRequest,
    bell, outBell, cardIrq, irqOff, main, handler, ppc, collector, awaiting>>

TagSymmetry == Permutations(Tags)
=============================================================================
