------------------------------ MODULE MiniIPC -------------------------------
(***************************************************************************)
(* The IPC server of mini (mini-tree-mod/ipc.c, irq.c, irq_asm.S and the   *)
(* RUN request of boot2.c).                                                *)
(*                                                                         *)
(* Three activities share its queues: the PowerPC, which fills in_queue    *)
(* and drains out_queue; the ARM interrupt handler, which empties          *)
(* in_queue, answers fast requests itself and defers slow ones to          *)
(* slow_queue; and the ARM main loop ipc_process_slow, which the handler   *)
(* interrupts between any two of its steps unless irq_kill is in force.    *)
(*                                                                         *)
(* A request is an operation and a tag.  An operation stands for all       *)
(* requests the server treats the same way:                                *)
(*   fastPing   fast, answered  (PING, READ32/16/8)                        *)
(*   fastWrite  fast, no answer (WRITE, SET, CLEAR, MASK, unknown)         *)
(*   slowPing   slow, answered  (PING, GETVERS, GETGITS, keys, AES, ...)   *)
(*   discover   slow, no answer (SDHC DISCOVER, unknown)                   *)
(*   jump       slow, ends the main loop (SYS JUMP)                        *)
(*   boot2run   slow, answers, flushes and ends the main loop (BOOT2 RUN)  *)
(***************************************************************************)
EXTENDS Ring, FiniteSets

CONSTANTS
  InSize, OutSize, SlowSize,  \* IPC_IN_SIZE, IPC_OUT_SIZE, IPC_SLOW_SIZE
  Tags,                       \* tags the PowerPC gives to its requests
  NoTag,                      \* the tag of a request that expects no answer
  Ops,                        \* the operations the PowerPC requests
  MaxSilentJobs               \* bound: jobs in progress that have no answer

AllOps == {"fastPing", "fastWrite", "slowPing", "discover", "jump", "boot2run"}

ASSUME SizeAssumption ==
  /\ InSize \in Nat /\ InSize > 1
  /\ OutSize \in Nat /\ OutSize > 1
  /\ SlowSize \in Nat /\ SlowSize > 1

ASSUME RequestAssumption ==
  /\ Ops \subseteq AllOps
  /\ NoTag \notin Tags
  /\ MaxSilentJobs \in Nat

VARIABLES
  inQueue, in_head, inTail,        \* in_queue; ARMMSG high half; PPCMSG low half
  outQueue, outHead, out_tail,     \* out_queue; PPCMSG high half; ARMMSG low half
  slowQueue, slow_queue_head, slow_queue_tail,
  bell,        \* ARMCTRL bit IPC_CTRL_IN: the PowerPC rang
  outBell,     \* the doorbell towards the PowerPC, IPC_CTRL_OUT
  cardIrq,     \* the SD controller holds a card interrupt
  irqOff,      \* irq_kill is in force in the main loop
  main,        \* where ipc_process_slow is
  handler,     \* where irq_handler is, "none" when no interrupt is served
  ppc,         \* the PowerPC's sender: "run" or about to "ring"
  collector,   \* the PowerPC's interrupt: "sleep" or "drain"
  awaiting     \* tags whose answer the PowerPC still expects

inVars   == <<inQueue, in_head, inTail>>
outVars  == <<outQueue, outHead, out_tail>>
slowVars == <<slowQueue, slow_queue_head, slow_queue_tail>>
ppcVars  == <<ppc, collector, awaiting>>
vars == <<inVars, outVars, slowVars, bell, outBell, cardIrq, irqOff, main,
          handler, ppcVars>>

-----------------------------------------------------------------------------
NoRequest == [op |-> "none", tag |-> NoTag]

Request == [op : AllOps, tag : Tags \cup {NoTag}]

IsFast(op)     == op \in {"fastPing", "fastWrite"}
IsAnswered(op) == op \in {"fastPing", "slowPing", "boot2run"}

InFull == IsFull(in_head, inTail, InSize)

OutFull == IsFull(outHead, out_tail, OutSize)

SlowFull == IsFull(slow_queue_head, slow_queue_tail, SlowSize)

(* The request process_in looks at, and the one process_slow works on.     *)
Incoming == inQueue[in_head]
Job      == slowQueue[slow_queue_head]

(* ipc_process_slow has returned and main.c has shut the interrupts down.  *)
IrqsOn == ~irqOff /\ main # "off"

(* The queues as sequences.  A request stays in its ring until the index   *)
(* moves past it; it no longer counts once it was answered or deferred.    *)
Unfinished(queue, done) == IF done THEN SubSeq(queue, 2, Len(queue)) ELSE queue

InContents   == Contents(inQueue, in_head, inTail, InSize)
SlowContents == Contents(slowQueue, slow_queue_head, slow_queue_tail, SlowSize)

Pending == Unfinished(InContents, handler = "next")
Jobs    == Unfinished(SlowContents, main \in {"flush", "next", "leave"})
Replies == Contents(outQueue, outHead, out_tail, OutSize)

(* Jobs nobody waits for: card events, and slow requests without answer.   *)
Silent(queue) ==
  Cardinality({k \in DOMAIN queue :
                 ~IsFast(queue[k].op) /\ ~IsAnswered(queue[k].op)})
SilentJobs == Silent(Pending) + Silent(Jobs) + (IF cardIrq THEN 1 ELSE 0)

(* ipc_initialize.                                                         *)
Init ==
  /\ inQueue   = [i \in 0 .. InSize - 1 |-> NoRequest]
  /\ outQueue  = [i \in 0 .. OutSize - 1 |-> NoRequest]
  /\ slowQueue = [i \in 0 .. SlowSize - 1 |-> NoRequest]
  /\ in_head = 0 /\ inTail = 0
  /\ outHead = 0 /\ out_tail = 0
  /\ slow_queue_head = 0 /\ slow_queue_tail = 0
  /\ bell = FALSE /\ outBell = FALSE /\ cardIrq = FALSE /\ irqOff = FALSE
  /\ main = "loop" /\ handler = "none"
  /\ ppc = "run" /\ collector = "sleep" /\ awaiting = {}

-----------------------------------------------------------------------------
(* The PowerPC and the SD slot, which are outside the repository.          *)
arm == <<in_head, outQueue, out_tail, slowVars, irqOff, main, handler>>

(* Fill a slot of in_queue and publish the new tail.  Answered requests    *)
(* carry a tag no other outstanding request has.                           *)
PpcSend(op, tag) ==
  /\ ppc = "run" /\ ~InFull
  /\ IF IsAnswered(op) THEN tag \in Tags \ awaiting ELSE tag = NoTag
  /\ IsFast(op) \/ IsAnswered(op) \/ SilentJobs < MaxSilentJobs
  /\ inQueue' = [inQueue EXCEPT ![inTail] = [op |-> op, tag |-> tag]]
  /\ inTail' = Succ(inTail, InSize)
  /\ awaiting' = awaiting \cup ({tag} \cap Tags)
  /\ ppc' = "ring"
  /\ UNCHANGED <<arm, outHead, bell, outBell, cardIrq, collector>>

PpcRing ==
  /\ ppc = "ring" /\ ppc' = "run"
  /\ bell' = TRUE
  /\ UNCHANGED <<arm, inQueue, inTail, outHead, outBell, cardIrq, collector,
                 awaiting>>

(* The PowerPC's own interrupt: clear the bell, then drain out_queue.      *)
PpcIrq ==
  /\ collector = "sleep" /\ collector' = "drain"
  /\ outBell /\ outBell' = FALSE
  /\ UNCHANGED <<arm, inQueue, inTail, outHead, bell, cardIrq, ppc, awaiting>>

PpcCollect ==
  /\ collector = "drain"
  /\ ~IsEmpty(outHead, out_tail)
  /\ awaiting' = awaiting \ {outQueue[outHead].tag}
  /\ outHead' = Succ(outHead, OutSize)
  /\ UNCHANGED <<arm, inQueue, inTail, bell, outBell, cardIrq, ppc, collector>>

PpcDone ==
  /\ collector = "drain" /\ collector' = "sleep"
  /\ IsEmpty(outHead, out_tail)
  /\ UNCHANGED <<arm, inQueue, inTail, outHead, bell, outBell, cardIrq, ppc,
                 awaiting>>

(* A card is inserted or removed.                                          *)
CardFlip ==
  /\ ~cardIrq /\ SilentJobs < MaxSilentJobs
  /\ cardIrq' = TRUE
  /\ UNCHANGED <<arm, inQueue, inTail, outHead, bell, outBell, ppcVars>>

-----------------------------------------------------------------------------
(* The two halves of ipc_post: wait for room and fill the slot; publish    *)
(* the slot and ring the PowerPC.                                          *)
FillOut(request) ==
  /\ ~OutFull
  /\ outQueue' = [outQueue EXCEPT ![out_tail] = request]
  /\ UNCHANGED <<outHead, out_tail, outBell>>

(* Mutant: the PowerPC is not rung.                                        *)
PublishSilently ==
  /\ out_tail' = Succ(out_tail, OutSize)
  /\ UNCHANGED <<outQueue, outHead, outBell>>

PublishOut ==
  /\ out_tail' = Succ(out_tail, OutSize)
  /\ outBell' = TRUE
  /\ UNCHANGED <<outQueue, outHead>>

NoPost == UNCHANGED <<outVars, outBell>>

-----------------------------------------------------------------------------
(* The interrupt handler.  While it runs the main loop stands still.       *)
HandlerStep(from, to) ==
  /\ handler = from /\ handler' = to
  /\ UNCHANGED <<inQueue, inTail, irqOff, main, ppcVars>>

(* Mutant: the slot before slow_queue_tail is filled.                      *)
EnqueueSlowBefore(request, from, to) ==
  /\ HandlerStep(from, to)
  /\ slowQueue' = [i \in DOMAIN slowQueue |->
                      IF Succ(i, SlowSize) = slow_queue_tail THEN request ELSE slowQueue[i]]
  /\ slow_queue_tail' = Succ(slow_queue_tail, SlowSize)
  /\ UNCHANGED slow_queue_head

(* Append a request to slow_queue, or panic2 when there is no room.        *)
EnqueueSlow(request, from, to) ==
  IF SlowFull
    THEN HandlerStep(from, "panic") /\ UNCHANGED slowVars
    ELSE /\ HandlerStep(from, to)
         /\ slowQueue' = [slowQueue EXCEPT ![slow_queue_tail] = request]
         /\ slow_queue_tail' = Succ(slow_queue_tail, SlowSize)
         /\ UNCHANGED slow_queue_head

(* The CPU takes the pending IPC interrupt: irq_handler calls ipc_irq.     *)
IrqEnter ==
  /\ IrqsOn /\ bell
  /\ HandlerStep("none", "bell") /\ NoPost
  /\ UNCHANGED <<in_head, slowVars, bell, cardIrq>>

(* irq_handler acknowledges the SDHC flag; sdhc_irq queues a DISCOVER job. *)
CardIrq ==
  /\ IrqsOn /\ cardIrq
  /\ cardIrq' = FALSE
  /\ EnqueueSlow([op |-> "discover", tag |-> NoTag], "none", "none") /\ NoPost
  /\ UNCHANGED <<in_head, bell>>

(* The outer loop of ipc_irq: the bell is cleared before the queue is read. *)
BellLoop ==
  /\ HandlerStep("bell", IF bell THEN "drain" ELSE "none") /\ NoPost
  /\ bell' = FALSE
  /\ UNCHANGED <<in_head, slowVars, cardIrq>>

DrainDone ==
  /\ IsEmpty(in_head, inTail)
  /\ HandlerStep("drain", "bell") /\ NoPost
  /\ UNCHANGED <<in_head, slowVars, bell, cardIrq>>

(* process_in of a fast request, up to its ipc_post if it is answered.     *)
ProcessFast ==
  /\ ~IsEmpty(in_head, inTail) /\ IsFast(Incoming.op)
  /\ HandlerStep("drain", IF IsAnswered(Incoming.op) THEN "post" ELSE "next")
  /\ NoPost
  /\ UNCHANGED <<in_head, slowVars, bell, cardIrq>>

FastPost ==
  /\ HandlerStep("post", "publish") /\ FillOut(Incoming)
  /\ UNCHANGED <<in_head, slowVars, bell, cardIrq>>

FastPublish ==
  /\ HandlerStep("publish", "next") /\ PublishOut
  /\ UNCHANGED <<in_head, slowVars, bell, cardIrq>>

(* Mutant: the queue is read on without moving in_head.                    *)
DeferTwice ==
  /\ ~IsEmpty(in_head, inTail) /\ ~IsFast(Incoming.op)
  /\ EnqueueSlow(Incoming, "drain", "drain") /\ NoPost
  /\ UNCHANGED <<in_head, bell, cardIrq>>

(* process_in of a slow request.                                           *)
DeferSlow ==
  /\ ~IsEmpty(in_head, inTail) /\ ~IsFast(Incoming.op)
  /\ EnqueueSlow(Incoming, "drain", "next") /\ NoPost
  /\ UNCHANGED <<in_head, bell, cardIrq>>

(* in_head moves on and is published to the PowerPC.                       *)
InNext ==
  /\ HandlerStep("next", "drain") /\ NoPost
  /\ in_head' = Succ(in_head, InSize)
  /\ UNCHANGED <<slowVars, bell, cardIrq>>

-----------------------------------------------------------------------------
(* The main loop, ipc_process_slow.                                        *)
MainStep(from, to) ==
  /\ handler = "none" /\ main = from /\ main' = to
  /\ UNCHANGED <<inVars, slowQueue, slow_queue_tail, cardIrq, handler, ppcVars>>

(* A step from one place in the loop to another that posts nothing and     *)
(* leaves interrupts killed or not.                                        *)
Goto(from, to, killed) ==
  /\ MainStep(from, to) /\ NoPost
  /\ irqOff' = killed
  /\ UNCHANGED <<slow_queue_head, bell>>

(* The loop conditions: a job to process, or else to the wait.             *)
MainLoop ==
  Goto("loop", IF IsEmpty(slow_queue_head, slow_queue_tail) THEN "idle"
                                                            ELSE "process", irqOff)

AfterDispatch ==
  CASE IsAnswered(Job.op) -> "post"
    [] Job.op = "jump"    -> "leave"
    [] OTHER              -> "next"

(* process_slow dispatches the job in its slot; an answer goes through     *)
(* ipc_post, which starts with irq_kill.                                   *)
ProcessSlow == Goto("process", AfterDispatch, IsAnswered(Job.op) \/ irqOff)

SlowPost ==
  /\ MainStep("post", "publish") /\ FillOut(Job)
  /\ UNCHANGED <<slow_queue_head, bell, irqOff>>

(* The end of ipc_post, irq_restore included; BOOT2 RUN goes on to flush.  *)
SlowPublish ==
  /\ MainStep("publish", IF Job.op = "boot2run" THEN "flush" ELSE "next")
  /\ PublishOut
  /\ irqOff' = FALSE
  /\ UNCHANGED <<slow_queue_head, bell>>

(* Mutant: no ipc_flush.                                                   *)
NoFlush == Goto("flush", "leave", irqOff)

(* ipc_flush spins until the PowerPC has read every answer.                *)
Flush == IsEmpty(outHead, out_tail) /\ Goto("flush", "leave", irqOff)

(* slow_queue_head moves on; with a vector the loop ends.                  *)
SlowNext ==
  /\ MainStep("next", "loop") \/ MainStep("leave", "vector")
  /\ NoPost
  /\ slow_queue_head' = Succ(slow_queue_head, SlowSize)
  /\ UNCHANGED <<bell, irqOff>>

(* irq_kill, and the queue is tested once more before irq_wait.            *)
Recheck ==
  IF IsEmpty(slow_queue_head, slow_queue_tail)
    THEN Goto("idle", "wait", TRUE)
    ELSE Goto("idle", "loop", irqOff)

(* Mutant: no irq_restore after irq_wait.                                  *)
WakeUpIrqsOff == (bell \/ cardIrq) /\ Goto("wait", "loop", TRUE)

(* irq_wait returns when an interrupt is pending; then irq_restore.        *)
WakeUp == (bell \/ cardIrq) /\ Goto("wait", "loop", FALSE)

(* main.c after the loop: ipc_shutdown and irq_shutdown.                   *)
Shutdown ==
  /\ MainStep("vector", "off") /\ NoPost
  /\ bell' = FALSE
  /\ UNCHANGED <<slow_queue_head, irqOff>>

-----------------------------------------------------------------------------
PowerPC ==
  \/ \E op \in Ops, tag \in Tags \cup {NoTag} : PpcSend(op, tag)
  \/ PpcRing \/ PpcIrq \/ PpcCollect \/ PpcDone

Handler ==
  \/ BellLoop \/ DrainDone \/ ProcessFast \/ DeferSlow \/ InNext
  \/ FastPost \/ FastPublish

MainThread ==
  \/ MainLoop \/ ProcessSlow \/ SlowPost \/ SlowPublish \/ Flush
  \/ SlowNext \/ Recheck \/ WakeUp \/ Shutdown

Next == PowerPC \/ CardFlip \/ IrqEnter \/ CardIrq \/ Handler \/ MainThread

(***************************************************************************)
(* The CPU takes a pending interrupt as soon as interrupts are enabled,    *)
(* which the main loop does again and again: strong fairness.  The other   *)
(* steps of the ARM, and the PowerPC once it has started to send or to     *)
(* collect, run on.  Nothing obliges the PowerPC to send, or the card to   *)
(* move.                                                                   *)
(***************************************************************************)
Fairness ==
  /\ SF_vars(IrqEnter) /\ SF_vars(CardIrq)
  /\ WF_vars(Handler) /\ WF_vars(MainThread)
  /\ WF_vars(PpcRing) /\ WF_vars(PpcIrq) /\ WF_vars(PpcCollect) /\ WF_vars(PpcDone)

Spec == Init /\ [][Next]_vars

FairSpec == Spec /\ Fairness

-----------------------------------------------------------------------------
TypeOK ==
  /\ inQueue \in [0 .. InSize - 1 -> Request \cup {NoRequest}]
  /\ in_head \in 0 .. InSize - 1 /\ inTail \in 0 .. InSize - 1
  /\ outQueue \in [0 .. OutSize - 1 -> Request \cup {NoRequest}]
  /\ outHead \in 0 .. OutSize - 1 /\ out_tail \in 0 .. OutSize - 1
  /\ slowQueue \in [0 .. SlowSize - 1 -> Request \cup {NoRequest}]
  /\ slow_queue_head \in 0 .. SlowSize - 1
  /\ slow_queue_tail \in 0 .. SlowSize - 1
  /\ bell \in BOOLEAN /\ outBell \in BOOLEAN
  /\ cardIrq \in BOOLEAN /\ irqOff \in BOOLEAN
  /\ main \in {"loop", "process", "post", "publish", "flush", "next", "leave",
               "idle", "wait", "vector", "off"}
  /\ handler \in {"none", "bell", "drain", "post", "publish", "next", "panic"}
  /\ ppc \in {"run", "ring"} /\ collector \in {"sleep", "drain"}
  /\ awaiting \in SUBSET Tags

(* ipc_post fills the slot at out_tail and then publishes it; nobody else  *)
(* may be in ipc_post in between, or both would write the same slot.  The  *)
(* interrupt handler posts too, so this rests on irq_kill.                 *)
PostExclusive ==
  main \in {"post", "publish"} => handler \notin {"post", "publish"}

(* process_slow works on the slot itself, not on a copy, while the handler *)
(* goes on appending to the same ring: the slot keeps its request until    *)
(* the main loop has moved slow_queue_head past it.                        *)
JobStable ==
  [][(main \in {"process", "post", "publish", "flush"})
       => slowQueue'[slow_queue_head] = Job]_vars

(* irq_wait never sleeps on work: while the main loop waits with nothing   *)
(* pending that would wake it, there is no job, and a request in in_queue  *)
(* has a PowerPC that is about to ring for it.                             *)
NeverSleepsOnWork ==
  (main = "wait" /\ handler = "none" /\ ~bell /\ ~cardIrq)
    => /\ IsEmpty(slow_queue_head, slow_queue_tail)
       /\ IsEmpty(in_head, inTail) \/ ppc = "ring"

(* BOOT2 RUN posts its answer first "so that the memory protection doesn't *)
(* kill IPC for the PowerPC": when the loop goes on to the vector, the     *)
(* PowerPC has read that answer (ipc_flush).                               *)
BootAnswerRead ==
  main \in {"leave", "vector", "off"}
    => \A k \in DOMAIN Replies : Replies[k].op # "boot2run"

(* A fast request that reached in_queue is answered, whatever the main     *)
(* loop does, as long as slow_queue does not overrun.                      *)
FastAnswered ==
  \A t \in Tags :
    (\E k \in DOMAIN InContents : InContents[k] = [op |-> "fastPing", tag |-> t])
      ~> t \notin awaiting

(* Every request is answered, if fast requests do not keep coming forever: *)
(* the handler drains in_queue to the end before it returns.               *)
FastQueued  == \E k \in DOMAIN InContents : IsFast(InContents[k].op)
AllAnswered == <>[]~FastQueued => \A t \in Tags : t \in awaiting ~> t \notin awaiting
=============================================================================
