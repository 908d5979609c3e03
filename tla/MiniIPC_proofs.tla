--------------------------- MODULE MiniIPC_proofs ---------------------------
(***************************************************************************)
(* Proofs about MiniIPC for rings of every size and every set of tags.     *)
(***************************************************************************)
EXTENDS MiniIPCService, TLAPS

(* An index that moves on stays in its ring and leaves its place.          *)
LEMMA SuccInRing ==
  ASSUME NEW size \in Nat, size > 1, NEW i \in 0 .. size - 1
  PROVE  /\ Succ(i, size) \in 0 .. size - 1
         /\ Succ(i, size) # i
         /\ Succ(i, size) = IF i + 1 = size THEN 0 ELSE i + 1
<1>1. CASE i + 1 = size
  <2>1. size % size = 0
    OBVIOUS
  <2> QED  BY <1>1, <2>1 DEF Succ
<1>2. CASE i + 1 # size
  <2>1. (i + 1) \in 0 .. size - 1
    BY <1>2
  <2>2. (i + 1) % size = i + 1
    BY <2>1
  <2> QED  BY <1>2, <2>1, <2>2 DEF Succ
<1> QED  BY <1>1, <1>2

-----------------------------------------------------------------------------
(* The inductive invariant.  The interrupt handler can only run while the  *)
(* main loop has interrupts enabled; the main loop works on a job that is  *)
(* in the ring; requests without a doorbell have a handler that will look  *)
(* again; an empty ring stays empty between Recheck and irq_wait.          *)
IrqLaw ==
  /\ irqOff <=> (main \in {"post", "publish", "wait"})
  /\ irqOff \/ main = "off" => handler = "none"

JobPresent ==
  main \in {"process", "post", "publish", "flush", "next", "leave"}
    => slow_queue_head # slow_queue_tail

RequestPresent ==
  handler \in {"post", "publish", "next"} => in_head # inTail

DoorbellKept ==
  (in_head # inTail /\ ~bell /\ ppc # "ring" /\ main # "off")
    => handler \in {"drain", "post", "publish", "next", "panic"}

WaitEmpty == main = "wait" => slow_queue_head = slow_queue_tail

IInv ==
  TypeOK /\ IrqLaw /\ JobPresent /\ RequestPresent /\ DoorbellKept /\ WaitEmpty

LEMMA InitIInv == Init => IInv
<1> SUFFICES ASSUME Init PROVE IInv
  OBVIOUS
<1> USE SizeAssumption, RequestAssumption DEF Init
<1>1. /\ 0 \in 0 .. InSize - 1
      /\ 0 \in 0 .. OutSize - 1
      /\ 0 \in 0 .. SlowSize - 1
  OBVIOUS
<1>2. /\ inQueue \in [0 .. InSize - 1 -> Request \cup {NoRequest}]
      /\ outQueue \in [0 .. OutSize - 1 -> Request \cup {NoRequest}]
      /\ slowQueue \in [0 .. SlowSize - 1 -> Request \cup {NoRequest}]
  OBVIOUS
<1>3. TypeOK
  BY <1>1, <1>2 DEF TypeOK
<1>4. IrqLaw /\ JobPresent /\ RequestPresent /\ DoorbellKept /\ WaitEmpty
  BY DEF IrqLaw, JobPresent, RequestPresent, DoorbellKept, WaitEmpty
<1> QED  BY <1>3, <1>4 DEF IInv

LEMMA NextIInv == IInv /\ [Next]_vars => IInv'
<1> SUFFICES ASSUME IInv, [Next]_vars PROVE IInv'
  OBVIOUS
<1>s1. \A i \in 0 .. InSize - 1 : Succ(i, InSize) \in 0 .. InSize - 1 /\ Succ(i, InSize) # i
  BY SuccInRing, SizeAssumption
<1>s2. \A i \in 0 .. OutSize - 1 : Succ(i, OutSize) \in 0 .. OutSize - 1
  BY SuccInRing, SizeAssumption
<1>s3. \A i \in 0 .. SlowSize - 1 : Succ(i, SlowSize) \in 0 .. SlowSize - 1 /\ Succ(i, SlowSize) # i
  BY SuccInRing, SizeAssumption
<1> USE SizeAssumption, RequestAssumption
     DEF IInv, TypeOK, IrqLaw, JobPresent, RequestPresent, DoorbellKept,
         WaitEmpty, inVars, outVars, slowVars, ppcVars, arm, IsEmpty, NoPost
<1>i. Incoming \in Request \cup {NoRequest} /\ Job \in Request \cup {NoRequest}
  BY DEF Incoming, Job
<1>1. ASSUME NEW op \in Ops, NEW tag \in Tags \cup {NoTag}, PpcSend(op, tag) PROVE IInv'
  <2>1. [op |-> op, tag |-> tag] \in Request
    BY DEF Request
  <2> QED  BY <1>1, <1>s1, <2>1 DEF PpcSend, InFull, IsFull
<1>2. CASE PpcRing
  BY <1>2 DEF PpcRing
<1>3. CASE PpcIrq
  BY <1>3 DEF PpcIrq
<1>4. CASE PpcCollect
  BY <1>4, <1>s2 DEF PpcCollect
<1>5. CASE PpcDone
  BY <1>5 DEF PpcDone
<1>6. CASE CardFlip
  BY <1>6 DEF CardFlip
<1>7. CASE IrqEnter
  BY <1>7 DEF IrqEnter, HandlerStep, IrqsOn
<1>8. CASE CardIrq
  <2>1. [op |-> "discover", tag |-> NoTag] \in Request
    BY DEF Request, AllOps
  <2> QED  BY <1>8, <1>s3, <2>1 DEF CardIrq, EnqueueSlow, HandlerStep, IrqsOn, SlowFull, IsFull
<1>9. CASE BellLoop
  BY <1>9 DEF BellLoop, HandlerStep
<1>10. CASE DrainDone
  BY <1>10 DEF DrainDone, HandlerStep
<1>11. CASE ProcessFast
  BY <1>11 DEF ProcessFast, HandlerStep
<1>12. CASE FastPost
  BY <1>12, <1>i DEF FastPost, HandlerStep, FillOut
<1>13. CASE FastPublish
  BY <1>13, <1>s2 DEF FastPublish, HandlerStep, PublishOut
<1>14. CASE DeferSlow
  BY <1>14, <1>i, <1>s3 DEF DeferSlow, EnqueueSlow, HandlerStep, SlowFull, IsFull
<1>15. CASE InNext
  BY <1>15, <1>s1 DEF InNext, HandlerStep
<1>16. CASE MainLoop
  BY <1>16 DEF MainLoop, Goto, MainStep
<1>17. CASE ProcessSlow
  <2>1. CASE IsAnswered(Job.op)
    BY <1>17, <2>1 DEF ProcessSlow, Goto, MainStep, AfterDispatch, IsAnswered
  <2>2. CASE ~IsAnswered(Job.op)
    <3>1. AfterDispatch \in {"leave", "next"}
      BY <2>2 DEF AfterDispatch
    <3> QED  BY <1>17, <2>2, <3>1 DEF ProcessSlow, Goto, MainStep, IsAnswered
  <2> QED  BY <2>1, <2>2
<1>18. CASE SlowPost
  BY <1>18, <1>i DEF SlowPost, MainStep, FillOut
<1>19. CASE SlowPublish
  BY <1>19, <1>s2 DEF SlowPublish, MainStep, PublishOut
<1>20. CASE Flush
  BY <1>20 DEF Flush, Goto, MainStep
<1>21. CASE SlowNext
  BY <1>21, <1>s3 DEF SlowNext, MainStep
<1>22. CASE Recheck
  BY <1>22 DEF Recheck, Goto, MainStep
<1>23. CASE WakeUp
  BY <1>23 DEF WakeUp, Goto, MainStep
<1>24. CASE Shutdown
  BY <1>24 DEF Shutdown, MainStep
<1>25. CASE UNCHANGED vars
  BY <1>25 DEF vars, Incoming, Job
<1> QED
  BY <1>1, <1>2, <1>3, <1>4, <1>5, <1>6, <1>7, <1>8, <1>9, <1>10, <1>11, <1>12,
     <1>13, <1>14, <1>15, <1>16, <1>17, <1>18, <1>19, <1>20, <1>21, <1>22,
     <1>23, <1>24, <1>25 DEF Next, PowerPC, Handler, MainThread

(* The inductive invariant holds in every reachable state.                 *)
LEMMA IInvHolds == Spec => []IInv
BY InitIInv, NextIInv, PTL DEF Spec

(* Every variable of the server keeps its type; in particular every index  *)
(* stays inside its ring, whatever the sizes of the rings.                 *)
THEOREM TypeCorrect == Spec => []TypeOK
<1>1. IInv => TypeOK
  BY DEF IInv
<1> QED  BY <1>1, IInvHolds, PTL

(* ipc_post is never entered by the handler while the main loop is in it.  *)
THEOREM PostIsExclusive == Spec => []PostExclusive
<1>1. IInv => PostExclusive
  BY DEF IInv, IrqLaw, PostExclusive
<1> QED  BY <1>1, IInvHolds, PTL

(* irq_wait never sleeps on a job or on a request whose bell was rung.     *)
THEOREM NoLostWakeup == Spec => []NeverSleepsOnWork
<1>1. IInv => NeverSleepsOnWork
  BY DEF IInv, TypeOK, DoorbellKept, WaitEmpty, NeverSleepsOnWork, IsEmpty
<1> QED  BY <1>1, IInvHolds, PTL

-----------------------------------------------------------------------------
(* The slot process_slow works on keeps its request: the only writer of    *)
(* slow_queue writes the slot at the tail, and the job keeps the ring from *)
(* being empty, so that slot is another one.                               *)
THEOREM JobIsStable == Spec => JobStable
<1> DEFINE Working == main \in {"process", "post", "publish", "flush"}
           Stable  == Working => slowQueue'[slow_queue_head] = Job
<1>1. IInv /\ [Next]_vars => [Stable]_vars
  <2> SUFFICES ASSUME IInv, [Next]_vars, Working
               PROVE  slowQueue'[slow_queue_head] = Job
    OBVIOUS
  <2> USE DEF IInv, TypeOK, JobPresent, Job
  <2>1. slow_queue_head # slow_queue_tail
    OBVIOUS
  <2>2. CASE slowQueue' = slowQueue
    BY <2>2
  <2>3. ASSUME NEW request, NEW from, NEW to, EnqueueSlow(request, from, to)
        PROVE  slowQueue'[slow_queue_head] = Job
    BY <2>1, <2>3 DEF EnqueueSlow, slowVars
  <2>4. CASE CardIrq
    BY <2>3, <2>4 DEF CardIrq
  <2>5. CASE DeferSlow
    BY <2>3, <2>5 DEF DeferSlow
  <2>6. slowQueue' = slowQueue \/ CardIrq \/ DeferSlow
    BY DEF Next, PowerPC, Handler, MainThread, PpcSend, PpcRing, PpcIrq,
           PpcCollect, PpcDone, CardFlip, IrqEnter, BellLoop, DrainDone,
           ProcessFast, FastPost, FastPublish, InNext, MainLoop, ProcessSlow,
           SlowPost, SlowPublish, Flush, SlowNext, Recheck, WakeUp, Shutdown,
           Goto, MainStep, slowVars, arm, vars
  <2> QED  BY <2>2, <2>4, <2>5, <2>6
<1> QED  BY <1>1, IInvHolds, PTL DEF Spec, JobStable

-----------------------------------------------------------------------------
(* The live slots are those Contents reads, the slot at the tail is not    *)
(* one of them, and the two ends move as they should.                      *)
LEMMA LiveSlots ==
  ASSUME NEW size \in Nat, size > 1,
         NEW head \in 0 .. size - 1, NEW tail \in 0 .. size - 1
  PROVE  /\ tail \notin Live(head, tail, size)
         /\ \A k \in 1 .. Count(head, tail, size) :
              Slot(head, k - 1, size) \in Live(head, tail, size)
         /\ ~IsFull(head, tail, size)
              => Live(head, Succ(tail, size), size)
                   \subseteq Live(head, tail, size) \cup {tail}
         /\ head # tail
              => /\ Live(Succ(head, size), tail, size) \subseteq Live(head, tail, size)
                 /\ ~IsFull(Succ(head, size), tail, size)
<1>1. tail \notin Live(head, tail, size)
  BY DEF Live
<1>2. ASSUME NEW k \in 1 .. Count(head, tail, size)
      PROVE  Slot(head, k - 1, size) \in Live(head, tail, size)
  BY DEF Count, Slot, Live
<1>3. /\ Succ(tail, size) = IF tail + 1 = size THEN 0 ELSE tail + 1
      /\ Succ(head, size) = IF head + 1 = size THEN 0 ELSE head + 1
  BY SuccInRing
<1>4. ASSUME ~IsFull(head, tail, size)
      PROVE  Live(head, Succ(tail, size), size) \subseteq Live(head, tail, size) \cup {tail}
  BY <1>3, <1>4 DEF Live, IsFull
<1>5. ASSUME head # tail
      PROVE  /\ Live(Succ(head, size), tail, size) \subseteq Live(head, tail, size)
             /\ ~IsFull(Succ(head, size), tail, size)
  BY <1>3, <1>5 DEF Live, IsFull
<1> QED  BY <1>1, <1>2, <1>4, <1>5

(* The answer to BOOT2 RUN is in out_queue only while the main loop        *)
(* flushes: nobody but the main loop posts it, and a slot that is filled   *)
(* and not yet published holds what is being answered.                     *)
OutLive == Live(outHead, out_tail, OutSize)

FlushInv ==
  /\ \A i \in OutLive : outQueue[i].op = "boot2run" => main = "flush"
  /\ handler = "post" => Incoming.op # "boot2run"
  /\ handler = "publish" => outQueue[out_tail].op # "boot2run"
  /\ main = "publish" => outQueue[out_tail] = Job
  /\ main = "publish" \/ handler = "publish" => ~OutFull

LEMMA InitFlush == Init => FlushInv
<1> SUFFICES ASSUME Init PROVE FlushInv
  OBVIOUS
<1>1. OutLive = {}
  BY SizeAssumption DEF Init, OutLive, Live
<1> QED  BY <1>1 DEF Init, FlushInv

LEMMA NextFlush == IInv /\ FlushInv /\ [Next]_vars => FlushInv'
<1> SUFFICES ASSUME IInv, FlushInv, [Next]_vars PROVE FlushInv'
  OBVIOUS
<1>t. /\ TypeOK /\ IrqLaw /\ JobPresent /\ RequestPresent
      /\ OutSize \in Nat /\ OutSize > 1
  BY SizeAssumption DEF IInv
<1>l. /\ out_tail \notin OutLive
      /\ ~OutFull => Live(outHead, Succ(out_tail, OutSize), OutSize)
                       \subseteq OutLive \cup {out_tail}
      /\ outHead # out_tail
           => /\ Live(Succ(outHead, OutSize), out_tail, OutSize) \subseteq OutLive
              /\ ~IsFull(Succ(outHead, OutSize), out_tail, OutSize)
  BY <1>t, LiveSlots DEF OutLive, TypeOK, OutFull
<1>o. ASSUME UNCHANGED <<outHead, out_tail>> PROVE OutLive' = OutLive /\ OutFull' = OutFull
  BY <1>o DEF OutLive, OutFull
<1> USE <1>t DEF TypeOK, IrqLaw, JobPresent, RequestPresent, inVars, outVars,
                 slowVars, ppcVars, arm, NoPost, IsEmpty, Incoming, Job
<1> HIDE DEF OutLive, OutFull
<1>1. ASSUME NEW op \in Ops, NEW tag \in Tags \cup {NoTag}, PpcSend(op, tag)
      PROVE  FlushInv'
  BY <1>1, <1>o DEF PpcSend, FlushInv
<1>2. CASE PpcRing
  BY <1>2, <1>o DEF PpcRing, FlushInv
<1>3. CASE PpcIrq
  BY <1>3, <1>o DEF PpcIrq, FlushInv
<1>4. CASE PpcCollect
  <2>1. /\ OutLive' \subseteq OutLive
        /\ ~OutFull'
    BY <1>4, <1>l DEF PpcCollect, OutLive, OutFull
  <2> QED  BY <1>4, <2>1 DEF PpcCollect, FlushInv
<1>5. CASE PpcDone
  BY <1>5, <1>o DEF PpcDone, FlushInv
<1>6. CASE CardFlip
  BY <1>6, <1>o DEF CardFlip, FlushInv
<1>7. CASE IrqEnter
  BY <1>7, <1>o DEF IrqEnter, HandlerStep, FlushInv
<1>8. CASE CardIrq
  BY <1>8, <1>o DEF CardIrq, EnqueueSlow, HandlerStep, IrqsOn, FlushInv
<1>9. CASE BellLoop
  BY <1>9, <1>o DEF BellLoop, HandlerStep, FlushInv
<1>10. CASE DrainDone
  BY <1>10, <1>o DEF DrainDone, HandlerStep, FlushInv
<1>11. CASE ProcessFast
  BY <1>11, <1>o DEF ProcessFast, HandlerStep, FlushInv, IsFast
<1>12. CASE FastPost
  BY <1>12, <1>o, <1>l DEF FastPost, HandlerStep, FillOut, FlushInv
<1>13. CASE FastPublish
  <2>1. OutLive' \subseteq OutLive \cup {out_tail}
    BY <1>13, <1>l DEF FastPublish, HandlerStep, PublishOut, OutLive, FlushInv
  <2> QED  BY <1>13, <2>1 DEF FastPublish, HandlerStep, PublishOut, FlushInv
<1>14. CASE DeferSlow
  BY <1>14, <1>o DEF DeferSlow, EnqueueSlow, HandlerStep, FlushInv
<1>15. CASE InNext
  BY <1>15, <1>o DEF InNext, HandlerStep, FlushInv
<1>16. CASE MainLoop
  BY <1>16, <1>o DEF MainLoop, Goto, MainStep, FlushInv
<1>17. CASE ProcessSlow
  <2>1. AfterDispatch \in {"post", "leave", "next"}
    BY DEF AfterDispatch
  <2> QED  BY <1>17, <1>o, <2>1 DEF ProcessSlow, Goto, MainStep, FlushInv
<1>18. CASE SlowPost
  BY <1>18, <1>o, <1>l DEF SlowPost, MainStep, FillOut, FlushInv
<1>19. CASE SlowPublish
  <2>1. OutLive' \subseteq OutLive \cup {out_tail}
    BY <1>19, <1>l DEF SlowPublish, MainStep, PublishOut, OutLive, FlushInv
  <2> QED  BY <1>19, <2>1 DEF SlowPublish, MainStep, PublishOut, FlushInv
<1>20. CASE Flush
  <2>1. OutLive = {}
    BY <1>20, <1>t DEF Flush, OutLive, Live
  <2> QED  BY <1>20, <1>o, <2>1 DEF Flush, Goto, MainStep, FlushInv
<1>21. CASE SlowNext
  BY <1>21, <1>o DEF SlowNext, MainStep, FlushInv
<1>22. CASE Recheck
  BY <1>22, <1>o DEF Recheck, Goto, MainStep, FlushInv
<1>23. CASE WakeUp
  BY <1>23, <1>o DEF WakeUp, Goto, MainStep, FlushInv
<1>24. CASE Shutdown
  BY <1>24, <1>o DEF Shutdown, MainStep, FlushInv
<1>25. CASE UNCHANGED vars
  BY <1>25, <1>o DEF vars, FlushInv
<1> QED
  BY <1>1, <1>2, <1>3, <1>4, <1>5, <1>6, <1>7, <1>8, <1>9, <1>10, <1>11, <1>12,
     <1>13, <1>14, <1>15, <1>16, <1>17, <1>18, <1>19, <1>20, <1>21, <1>22,
     <1>23, <1>24, <1>25 DEF Next, PowerPC, Handler, MainThread

(* When the main loop goes on to the new vector, the PowerPC has read the  *)
(* answer to BOOT2 RUN.                                                    *)
THEOREM BootAnswerIsRead == Spec => []BootAnswerRead
<1>1. IInv /\ FlushInv => BootAnswerRead
  <2> SUFFICES ASSUME IInv, FlushInv, main \in {"leave", "vector", "off"},
                      NEW k \in DOMAIN Replies
               PROVE  Replies[k].op # "boot2run"
    BY DEF BootAnswerRead
  <2>1. /\ k \in 1 .. Count(outHead, out_tail, OutSize)
        /\ Replies[k] = outQueue[Slot(outHead, k - 1, OutSize)]
    BY DEF Replies, Contents
  <2>2. Slot(outHead, k - 1, OutSize) \in OutLive
    BY <2>1, LiveSlots, SizeAssumption DEF IInv, TypeOK, OutLive
  <2> QED  BY <2>1, <2>2 DEF FlushInv
<1>2. Spec => []FlushInv
  BY InitFlush, NextFlush, IInvHolds, PTL DEF Spec
<1> QED  BY <1>1, <1>2, IInvHolds, PTL

-----------------------------------------------------------------------------
(* What the moves of the indices do to the queue they stand for, whatever  *)
(* its slots hold.                                                         *)
Entries == Request \cup {NoRequest}

LEMMA RingIsSequence ==
  ASSUME NEW size \in Nat, size > 1, NEW queue \in [0 .. size - 1 -> Entries],
         NEW head \in 0 .. size - 1, NEW tail \in 0 .. size - 1
  PROVE  /\ Count(head, tail, size) \in 0 .. size - 1
         /\ Contents(queue, head, tail, size) \in Seq(Entries)
         /\ Len(Contents(queue, head, tail, size)) = Count(head, tail, size)
         /\ IsFull(head, tail, size) <=> Count(head, tail, size) = size - 1
         /\ Contents(queue, head, tail, size) = <<>> <=> head = tail
<1>1. Count(head, tail, size) \in 0 .. size - 1
  BY DEF Count
<1>2. \A k \in 1 .. Count(head, tail, size) : Slot(head, k - 1, size) \in 0 .. size - 1
  BY DEF Count, Slot
<1>3. /\ Contents(queue, head, tail, size) \in Seq(Entries)
      /\ Len(Contents(queue, head, tail, size)) = Count(head, tail, size)
  <2> DEFINE n == Count(head, tail, size)
  <2>1. Contents(queue, head, tail, size) \in [1 .. n -> Entries]
    BY <1>2 DEF Contents
  <2>2. n \in Nat
    BY <1>1
  <2> HIDE DEF n
  <2> QED  BY <2>1, <2>2
<1>4. IsFull(head, tail, size) <=> Count(head, tail, size) = size - 1
  <2>1. Succ(tail, size) = IF tail + 1 = size THEN 0 ELSE tail + 1
    BY SuccInRing
  <2> QED  BY <2>1 DEF IsFull, Count
<1>5. Count(head, tail, size) = 0 <=> head = tail
  BY DEF Count
<1>6. Contents(queue, head, tail, size) = <<>> <=> Count(head, tail, size) = 0
  BY <1>1, <1>3
<1> QED  BY <1>1, <1>3, <1>4, <1>5, <1>6

(* The tail moves on: its slot becomes the last element.                   *)
LEMMA RingAppend ==
  ASSUME NEW size \in Nat, size > 1,
         NEW queue \in [0 .. size - 1 -> Entries], NEW after \in [0 .. size - 1 -> Entries],
         NEW head \in 0 .. size - 1, NEW tail \in 0 .. size - 1,
         ~IsFull(head, tail, size),
         \A i \in 0 .. size - 1 : i # tail => after[i] = queue[i]
  PROVE  Contents(after, head, Succ(tail, size), size)
           = Append(Contents(queue, head, tail, size), after[tail])
<1> DEFINE n == Count(head, tail, size)
           m == Count(head, Succ(tail, size), size)
           old == Contents(queue, head, tail, size)
           new == Contents(after, head, Succ(tail, size), size)
<1>1. Succ(tail, size) = IF tail + 1 = size THEN 0 ELSE tail + 1
  BY SuccInRing
<1>2. m = n + 1 /\ n \in Nat
  BY <1>1 DEF Count, IsFull
<1>3. \A k \in 1 .. n : /\ Slot(head, k - 1, size) \in 0 .. size - 1
                        /\ Slot(head, k - 1, size) # tail
  BY DEF Count, Slot
<1>4. Slot(head, n, size) = tail
  BY <1>1 DEF Count, Slot
<1>5. old \in Seq(Entries) /\ Len(old) = n
  BY RingIsSequence
<1>6. \A k \in 1 .. n : old[k] = queue[Slot(head, k - 1, size)]
  BY DEF Contents
<1>7. new = [k \in 1 .. m |-> after[Slot(head, k - 1, size)]]
  BY DEF Contents
<1>8. Append(old, after[tail]) = [k \in 1 .. n + 1 |-> IF k = n + 1 THEN after[tail] ELSE old[k]]
  <2> HIDE DEF old, n
  <2> QED  BY <1>5, <1>2
<1> HIDE DEF n, m, old, new
<1>9. \A k \in 1 .. n + 1 :
        after[Slot(head, k - 1, size)] = IF k = n + 1 THEN after[tail] ELSE old[k]
  <2> TAKE k \in 1 .. n + 1
  <2>1. CASE k = n + 1
    BY <2>1, <1>4, <1>2
  <2>2. CASE k # n + 1
    <3>1. k \in 1 .. n
      BY <2>2, <1>2
    <3> QED  BY <2>2, <3>1, <1>3, <1>6
  <2> QED  BY <2>1, <2>2
<1>10. new = Append(old, after[tail])
  BY <1>2, <1>7, <1>8, <1>9
<1> QED  BY <1>10 DEF old, new

(* A slot is filled and the tail moves on, or a filled slot is published.  *)
LEMMA RingFill ==
  ASSUME NEW size \in Nat, size > 1, NEW queue \in [0 .. size - 1 -> Entries],
         NEW head \in 0 .. size - 1, NEW tail \in 0 .. size - 1,
         ~IsFull(head, tail, size), NEW entry \in Entries
  PROVE  /\ Contents([queue EXCEPT ![tail] = entry], head, Succ(tail, size), size)
              = Append(Contents(queue, head, tail, size), entry)
         /\ Contents(queue, head, Succ(tail, size), size)
              = Append(Contents(queue, head, tail, size), queue[tail])
<1> DEFINE after == [queue EXCEPT ![tail] = entry]
<1>1. /\ after \in [0 .. size - 1 -> Entries] /\ after[tail] = entry
      /\ \A i \in 0 .. size - 1 : i # tail => after[i] = queue[i]
  OBVIOUS
<1> HIDE DEF after
<1>2. Contents(after, head, Succ(tail, size), size)
        = Append(Contents(queue, head, tail, size), after[tail])
  BY <1>1, RingAppend
<1>3. Contents(queue, head, Succ(tail, size), size)
        = Append(Contents(queue, head, tail, size), queue[tail])
  BY RingAppend
<1> QED  BY <1>1, <1>2, <1>3 DEF after

(* The head moves on: the first element is gone.                           *)
LEMMA RingTail ==
  ASSUME NEW size \in Nat, size > 1, NEW queue \in [0 .. size - 1 -> Entries],
         NEW head \in 0 .. size - 1, NEW tail \in 0 .. size - 1, head # tail
  PROVE  /\ Contents(queue, head, tail, size) # <<>>
         /\ Head(Contents(queue, head, tail, size)) = queue[head]
         /\ Contents(queue, Succ(head, size), tail, size)
              = Tail(Contents(queue, head, tail, size))
<1> DEFINE n == Count(head, tail, size)
           old == Contents(queue, head, tail, size)
           new == Contents(queue, Succ(head, size), tail, size)
<1>1. Succ(head, size) = IF head + 1 = size THEN 0 ELSE head + 1
  BY SuccInRing
<1>2. /\ Count(Succ(head, size), tail, size) = n - 1
      /\ n \in Nat \ {0}
  BY <1>1 DEF Count
<1>3. Slot(head, 0, size) = head
  BY DEF Slot
<1>4. \A k \in 1 .. n - 1 : Slot(Succ(head, size), k - 1, size) = Slot(head, k, size)
  BY <1>1 DEF Count, Slot
<1>5. old \in Seq(Entries) /\ Len(old) = n /\ old # <<>>
  BY RingIsSequence
<1>6. \A k \in 1 .. n : old[k] = queue[Slot(head, k - 1, size)]
  BY DEF Contents
<1>7. new = [k \in 1 .. n - 1 |-> queue[Slot(Succ(head, size), k - 1, size)]]
  BY <1>2 DEF Contents
<1> HIDE DEF n, old, new
<1>8. Tail(old) = [k \in 1 .. n - 1 |-> old[k + 1]]
  <2>1. Len(old) = n /\ Tail(old) = [k \in 1 .. Len(old) - 1 |-> old[k + 1]]
    BY <1>5
  <2> QED  BY <2>1
<1>9. \A k \in 1 .. n - 1 : old[k + 1] = queue[Slot(Succ(head, size), k - 1, size)]
  <2> TAKE k \in 1 .. n - 1
  <2>1. k + 1 \in 1 .. n /\ (k + 1) - 1 = k
    BY <1>2
  <2> QED  BY <2>1, <1>4, <1>6
<1>10. new = Tail(old)
  BY <1>7, <1>8, <1>9
<1>11. Head(old) = queue[head]
  <2>1. 1 \in 1 .. n /\ 1 - 1 = 0
    BY <1>2
  <2>2. old[1] = queue[head]
    BY <1>3, <1>6, <2>1
  <2> QED  BY <1>5, <2>2
<1> QED  BY <1>5, <1>10, <1>11 DEF old, new

-----------------------------------------------------------------------------
(* What the refinement needs to know of an answer on its way: the handler  *)
(* posts for a fast request that expects one, the main loop for a job that *)
(* does, and a filled slot holds the request being answered.               *)
PostInv ==
  /\ handler \in {"post", "publish"} => IsFast(Incoming.op) /\ IsAnswered(Incoming.op)
  /\ handler = "publish" => outQueue[out_tail] = Incoming
  /\ main \in {"post", "publish"} => IsAnswered(Job.op)

LEMMA NextPostInv == IInv /\ PostInv /\ [Next]_vars => PostInv'
<1> SUFFICES ASSUME IInv, PostInv, [Next]_vars PROVE PostInv'
  OBVIOUS
<1> USE SizeAssumption
    DEF IInv, TypeOK, IrqLaw, JobPresent, RequestPresent, PostInv, inVars, outVars,
        slowVars, ppcVars, arm, NoPost, IsEmpty, Incoming, Job
<1>1. ASSUME NEW op \in Ops, NEW tag \in Tags \cup {NoTag}, PpcSend(op, tag)
      PROVE  PostInv'
  BY <1>1 DEF PpcSend
<1>2. CASE PpcRing \/ PpcIrq \/ PpcCollect \/ PpcDone \/ CardFlip
  BY <1>2 DEF PpcRing, PpcIrq, PpcCollect, PpcDone, CardFlip
<1>3. CASE IrqEnter
  BY <1>3 DEF IrqEnter, HandlerStep
<1>4. CASE CardIrq
  BY <1>4 DEF CardIrq, EnqueueSlow, HandlerStep, IrqsOn
<1>5. CASE BellLoop \/ DrainDone
  BY <1>5 DEF BellLoop, DrainDone, HandlerStep
<1>6. CASE ProcessFast
  BY <1>6 DEF ProcessFast, HandlerStep
<1>7. CASE FastPost
  BY <1>7 DEF FastPost, HandlerStep, FillOut
<1>8. CASE FastPublish
  BY <1>8 DEF FastPublish, HandlerStep, PublishOut
<1>9. CASE DeferSlow
  BY <1>9 DEF DeferSlow, EnqueueSlow, HandlerStep
<1>10. CASE InNext
  BY <1>10 DEF InNext, HandlerStep
<1>11. CASE MainLoop
  BY <1>11 DEF MainLoop, Goto, MainStep
<1>12. CASE ProcessSlow
  BY <1>12 DEF ProcessSlow, Goto, MainStep, AfterDispatch
<1>13. CASE SlowPost
  BY <1>13 DEF SlowPost, MainStep, FillOut
<1>14. CASE SlowPublish
  BY <1>14 DEF SlowPublish, MainStep, PublishOut
<1>15. CASE Flush \/ SlowNext \/ Recheck \/ WakeUp \/ Shutdown
  BY <1>15 DEF Flush, SlowNext, Recheck, WakeUp, Shutdown, Goto, MainStep
<1>16. CASE UNCHANGED vars
  BY <1>16 DEF vars
<1> QED
  BY <1>1, <1>2, <1>3, <1>4, <1>5, <1>6, <1>7, <1>8, <1>9, <1>10, <1>11, <1>12,
     <1>13, <1>14, <1>15, <1>16 DEF Next, PowerPC, Handler, MainThread

-----------------------------------------------------------------------------
(* The three lanes of the service, and what the steps do to them.  A       *)
(* request in progress is still in its ring but counts no more.            *)
LEMMA UnfinishedQueue ==
  ASSUME NEW S, NEW queue \in Seq(S)
  PROVE  /\ Unfinished(queue, FALSE) = queue
         /\ queue # <<>> => Unfinished(queue, TRUE) = Tail(queue)
         /\ queue # <<>> => Len(Tail(queue)) = Len(queue) - 1
         /\ \A x \in S : queue # <<>> => Tail(Append(queue, x)) = Append(Tail(queue), x)
<1>1. Unfinished(queue, FALSE) = queue
  BY DEF Unfinished
<1>2. ASSUME queue # <<>> PROVE SubSeq(queue, 2, Len(queue)) = Tail(queue)
  BY <1>2
<1>3. ASSUME NEW x \in S, queue # <<>>
      PROVE  Tail(Append(queue, x)) = Append(Tail(queue), x)
  BY <1>3
<1> QED  BY <1>1, <1>2, <1>3 DEF Unfinished

Busy == main \in {"flush", "next", "leave"}

(* A lane does not change while its ring and the progress on its first     *)
(* element stay as they are.                                               *)
LEMMA LanesKept ==
  /\ UNCHANGED <<inQueue, in_head, inTail>> /\ ((handler = "next") <=> (handler' = "next"))
       => UNCHANGED Pending
  /\ UNCHANGED <<slowQueue, slow_queue_head, slow_queue_tail>> /\ (Busy <=> Busy')
       => UNCHANGED Jobs
  /\ UNCHANGED <<outQueue, outHead, out_tail>> => UNCHANGED Replies
<1>1. ASSUME UNCHANGED <<inQueue, in_head, inTail>>, (handler = "next") <=> (handler' = "next")
      PROVE  UNCHANGED Pending
  BY <1>1 DEF Pending, InContents, Unfinished
<1>2. ASSUME UNCHANGED <<slowQueue, slow_queue_head, slow_queue_tail>>, Busy <=> Busy'
      PROVE  UNCHANGED Jobs
  BY <1>2 DEF Jobs, SlowContents, Unfinished, Busy
<1>3. ASSUME UNCHANGED <<outQueue, outHead, out_tail>> PROVE UNCHANGED Replies
  BY <1>3 DEF Replies
<1> QED  BY <1>1, <1>2, <1>3

(* The lanes as their rings show them.                                     *)
LEMMA Lanes ==
  ASSUME IInv
  PROVE  /\ InContents \in Seq(Entries) /\ Len(InContents) <= InSize - 1
         /\ InContents = <<>> <=> in_head = inTail
         /\ ~InFull => Len(InContents) < InSize - 1
         /\ handler # "next" => Pending = InContents
         /\ handler = "next" => InContents # <<>> /\ Pending = Tail(InContents)
         /\ SlowContents \in Seq(Entries)
         /\ SlowContents = <<>> <=> slow_queue_head = slow_queue_tail
         /\ SlowFull <=> Len(SlowContents) = SlowSize - 1
         /\ Len(SlowContents) <= SlowSize - 1
         /\ ~Busy => Jobs = SlowContents
         /\ Busy => SlowContents # <<>> /\ Jobs = Tail(SlowContents)
         /\ Replies \in Seq(Entries)
         /\ ~OutFull => Len(Replies) < OutSize - 1
<1>r. /\ InSize \in Nat /\ InSize > 1 /\ OutSize \in Nat /\ OutSize > 1
      /\ SlowSize \in Nat /\ SlowSize > 1
      /\ inQueue \in [0 .. InSize - 1 -> Entries]
      /\ in_head \in 0 .. InSize - 1 /\ inTail \in 0 .. InSize - 1
      /\ outQueue \in [0 .. OutSize - 1 -> Entries]
      /\ outHead \in 0 .. OutSize - 1 /\ out_tail \in 0 .. OutSize - 1
      /\ slowQueue \in [0 .. SlowSize - 1 -> Entries]
      /\ slow_queue_head \in 0 .. SlowSize - 1 /\ slow_queue_tail \in 0 .. SlowSize - 1
      /\ RequestPresent /\ JobPresent
  BY SizeAssumption DEF IInv, TypeOK, Entries
<1>1. /\ Count(in_head, inTail, InSize) \in 0 .. InSize - 1
      /\ InContents \in Seq(Entries) /\ Len(InContents) = Count(in_head, inTail, InSize)
      /\ InContents = <<>> <=> in_head = inTail
      /\ InFull <=> Count(in_head, inTail, InSize) = InSize - 1
  BY <1>r, RingIsSequence DEF InContents, InFull
<1>2. /\ Count(slow_queue_head, slow_queue_tail, SlowSize) \in 0 .. SlowSize - 1
      /\ SlowContents \in Seq(Entries)
      /\ Len(SlowContents) = Count(slow_queue_head, slow_queue_tail, SlowSize)
      /\ SlowContents = <<>> <=> slow_queue_head = slow_queue_tail
      /\ SlowFull <=> Count(slow_queue_head, slow_queue_tail, SlowSize) = SlowSize - 1
  BY <1>r, RingIsSequence DEF SlowContents, SlowFull
<1>3. /\ Count(outHead, out_tail, OutSize) \in 0 .. OutSize - 1
      /\ Replies \in Seq(Entries) /\ Len(Replies) = Count(outHead, out_tail, OutSize)
      /\ OutFull <=> Count(outHead, out_tail, OutSize) = OutSize - 1
  BY <1>r, RingIsSequence DEF Replies, OutFull
<1>4. /\ handler # "next" => Pending = InContents
      /\ handler = "next" => InContents # <<>> /\ Pending = Tail(InContents)
  BY <1>1, <1>r, UnfinishedQueue DEF Pending, RequestPresent, Unfinished
<1>5. /\ ~Busy => Jobs = SlowContents
      /\ Busy => SlowContents # <<>> /\ Jobs = Tail(SlowContents)
  BY <1>2, <1>r, UnfinishedQueue DEF Jobs, JobPresent, Unfinished, Busy
<1>6. /\ Len(InContents) <= InSize - 1 /\ (~InFull => Len(InContents) < InSize - 1)
      /\ Len(SlowContents) <= SlowSize - 1
      /\ SlowFull <=> Len(SlowContents) = SlowSize - 1
      /\ ~OutFull => Len(Replies) < OutSize - 1
  BY <1>r, <1>1, <1>2, <1>3
<1> QED  BY <1>1, <1>2, <1>3, <1>4, <1>5, <1>6, Zenon

(* A job is appended.                                                      *)
LEMMA JobAdded ==
  ASSUME IInv, ~SlowFull, NEW request \in Entries,
         slowQueue' = [slowQueue EXCEPT ![slow_queue_tail] = request],
         slow_queue_tail' = Succ(slow_queue_tail, SlowSize),
         UNCHANGED <<slow_queue_head, main>>
  PROVE  /\ Len(Jobs) < SlowSize - 1
         /\ Jobs' = Append(Jobs, request)
<1>1. SlowContents' = Append(SlowContents, request)
  <2>1. slow_queue_head \in 0 .. SlowSize - 1 /\ slow_queue_tail \in 0 .. SlowSize - 1
        /\ ~IsFull(slow_queue_head, slow_queue_tail, SlowSize)
        /\ SlowSize \in Nat /\ SlowSize > 1
        /\ slowQueue \in [0 .. SlowSize - 1 -> Entries]
    BY SizeAssumption DEF IInv, TypeOK, SlowFull, Entries
  <2>2. Contents([slowQueue EXCEPT ![slow_queue_tail] = request], slow_queue_head,
                 Succ(slow_queue_tail, SlowSize), SlowSize)
          = Append(SlowContents, request)
    BY <2>1, RingFill DEF SlowContents
  <2> QED  BY <2>2 DEF SlowContents
<1>2. CASE ~Busy
  <2>1. Jobs' = SlowContents'
    BY <1>2 DEF Jobs, Unfinished, Busy
  <2>2. Jobs = SlowContents /\ Len(SlowContents) < SlowSize - 1
    <3>1. /\ Jobs = SlowContents /\ Len(SlowContents) \in Nat
          /\ Len(SlowContents) <= SlowSize - 1 /\ Len(SlowContents) # SlowSize - 1
      BY <1>2, Lanes
    <3> QED  BY <3>1, SizeAssumption
  <2> QED  BY <1>1, <2>1, <2>2
<1>3. CASE Busy
  <2>1. SlowContents' # <<>> /\ SlowContents' \in Seq(Entries)
    BY <1>1, Lanes
  <2>2. Jobs' = Tail(SlowContents')
    BY <1>3, <2>1, UnfinishedQueue DEF Jobs, Unfinished, Busy
  <2>3. SlowContents \in Seq(Entries) /\ SlowContents # <<>> /\ Jobs = Tail(SlowContents)
        /\ Len(SlowContents) < SlowSize - 1
    BY <1>3, Lanes, SizeAssumption
  <2>4. Tail(Append(SlowContents, request)) = Append(Tail(SlowContents), request)
        /\ Len(Tail(SlowContents)) = Len(SlowContents) - 1
    BY <2>3, UnfinishedQueue
  <2> QED  BY <1>1, <2>2, <2>3, <2>4, SizeAssumption
<1> QED  BY <1>2, <1>3

(* An answer is published, the one in the slot at the tail.                *)
LEMMA ReplyAdded ==
  ASSUME IInv, ~OutFull, out_tail' = Succ(out_tail, OutSize), UNCHANGED <<outQueue, outHead>>
  PROVE  Len(Replies) < OutSize - 1 /\ Replies' = Append(Replies, outQueue[out_tail])
<1>1. /\ outHead \in 0 .. OutSize - 1 /\ out_tail \in 0 .. OutSize - 1
      /\ ~IsFull(outHead, out_tail, OutSize)
      /\ OutSize \in Nat /\ OutSize > 1
      /\ outQueue \in [0 .. OutSize - 1 -> Entries]
  BY SizeAssumption DEF IInv, TypeOK, OutFull, Entries
<1>2. Contents(outQueue, outHead, Succ(out_tail, OutSize), OutSize)
        = Append(Replies, outQueue[out_tail])
  BY <1>1, RingAppend DEF Replies
<1> QED  BY <1>2, Lanes DEF Replies

(* A slot that ipc_post has filled and not yet published is not read.      *)
LEMMA FilledSlotHidden ==
  ASSUME IInv, NEW entry, outQueue' = [outQueue EXCEPT ![out_tail] = entry],
         UNCHANGED <<outHead, out_tail>>
  PROVE  UNCHANGED Replies
<1>1. /\ outHead \in 0 .. OutSize - 1 /\ out_tail \in 0 .. OutSize - 1
      /\ OutSize \in Nat /\ OutSize > 1
  BY SizeAssumption DEF IInv, TypeOK
<1>2. \A k \in 1 .. Count(outHead, out_tail, OutSize) :
        Slot(outHead, k - 1, OutSize) # out_tail
  BY <1>1, LiveSlots
<1>3. \A k \in 1 .. Count(outHead, out_tail, OutSize) :
        outQueue'[Slot(outHead, k - 1, OutSize)] = outQueue[Slot(outHead, k - 1, OutSize)]
  BY <1>2
<1> QED  BY <1>3 DEF Replies, Contents

(* ipc_initialize maps to an idle service.                                 *)
LEMMA InitImplements == Init => Service!Init
<1> SUFFICES ASSUME Init PROVE Service!Init  OBVIOUS
<1>1. Pending = <<>> /\ Jobs = <<>> /\ Replies = <<>>
  BY SizeAssumption DEF Init, Pending, Jobs, Replies, Unfinished, InContents,
                        SlowContents, Contents, Count
<1>2. ServiceState = "serving"
  BY DEF Init, ServiceState
<1> QED  BY <1>1, <1>2 DEF Service!Init

Stutter == UNCHANGED <<Pending, Jobs, Replies, ServiceState>>

(* The PowerPC's steps: a request is submitted when the tail of in_queue   *)
(* moves, an answer collected when the head of out_queue does.             *)
LEMMA PowerPCImplements ==
  ASSUME IInv, PowerPC \/ CardFlip
  PROVE  \/ Stutter \/ Service!Collect
         \/ \E call \in Request : Service!Submit(call)
<1> USE DEF arm, slowVars, ppcVars
<1>s. UNCHANGED <<main, handler>> => UNCHANGED ServiceState
  BY DEF ServiceState
<1>1. ASSUME NEW op \in Ops, NEW tag \in Tags \cup {NoTag}, PpcSend(op, tag)
      PROVE  \E call \in Request : Service!Submit(call)
  <2> DEFINE call == [op |-> op, tag |-> tag]
  <2>1. call \in Request /\ call \in Entries
    BY RequestAssumption DEF Request, Entries
  <2>2. UNCHANGED <<Jobs, Replies, ServiceState>>
    BY <1>1, <1>s, LanesKept DEF PpcSend, Busy
  <2>3. InContents' = Append(InContents, call)
    <3>1. /\ in_head \in 0 .. InSize - 1 /\ inTail \in 0 .. InSize - 1
          /\ ~IsFull(in_head, inTail, InSize)
          /\ InSize \in Nat /\ InSize > 1
          /\ inQueue \in [0 .. InSize - 1 -> Entries]
      BY <1>1, SizeAssumption DEF PpcSend, IInv, TypeOK, InFull, Entries
    <3>2. Contents([inQueue EXCEPT ![inTail] = call], in_head, Succ(inTail, InSize), InSize)
            = Append(InContents, call)
      BY <2>1, <3>1, RingFill DEF InContents
    <3> QED  BY <1>1, <3>2 DEF PpcSend, InContents
  <2>4. /\ InContents \in Seq(Entries) /\ Len(InContents) \in Nat
        /\ Len(InContents) < InSize - 1
    BY <1>1, Lanes DEF PpcSend
  <2>5. handler' = handler
    BY <1>1 DEF PpcSend
  <2> HIDE DEF call
  <2>6. Len(Pending) < InSize - 1 /\ Pending' = Append(Pending, call)
    <3>1. CASE handler # "next"
      <4>1. Pending = InContents /\ Pending' = InContents'
        BY <2>5, <3>1, Lanes DEF Pending, Unfinished
      <4> QED  BY <2>3, <2>4, <4>1
    <3>2. CASE handler = "next"
      <4>1. InContents # <<>> /\ Pending = Tail(InContents)
        BY <3>2, Lanes
      <4>2. InContents' # <<>> /\ InContents' \in Seq(Entries)
        BY <2>1, <2>3, <2>4
      <4>3. Pending' = Tail(InContents')
        BY <2>5, <3>2, <4>2, UnfinishedQueue DEF Pending, Unfinished
      <4>4. /\ Tail(Append(InContents, call)) = Append(Tail(InContents), call)
            /\ Len(Tail(InContents)) = Len(InContents) - 1
        BY <2>1, <2>4, <4>1, UnfinishedQueue
      <4> QED  BY <2>3, <2>4, <4>1, <4>3, <4>4, SizeAssumption
    <3> QED  BY <3>1, <3>2
  <2> QED  BY <2>1, <2>2, <2>6 DEF Service!Submit
<1>2. CASE PpcRing \/ PpcIrq \/ PpcDone \/ CardFlip
  <2>1. UNCHANGED <<inQueue, in_head, inTail, slowQueue, slow_queue_head, slow_queue_tail,
                    outQueue, outHead, out_tail, main, handler>>
    BY <1>2 DEF PpcRing, PpcIrq, PpcDone, CardFlip
  <2>2. Busy <=> Busy'
    BY <2>1 DEF Busy
  <2> QED  BY <2>1, <2>2, <1>s, LanesKept DEF Stutter
<1>3. CASE PpcCollect
  <2>1. /\ UNCHANGED <<inQueue, in_head, inTail, slowQueue, slow_queue_head,
                       slow_queue_tail, outQueue, out_tail, main, handler>>
        /\ outHead # out_tail /\ outHead' = Succ(outHead, OutSize)
    BY <1>3 DEF PpcCollect, IsEmpty
  <2>2. Busy <=> Busy'
    BY <2>1 DEF Busy
  <2>3. UNCHANGED <<Pending, Jobs, ServiceState>>
    BY <2>1, <2>2, <1>s, LanesKept
  <2>4. /\ outHead \in 0 .. OutSize - 1 /\ out_tail \in 0 .. OutSize - 1
        /\ OutSize \in Nat /\ OutSize > 1
        /\ outQueue \in [0 .. OutSize - 1 -> Entries]
    BY SizeAssumption DEF IInv, TypeOK, Entries
  <2>5. Replies # <<>>
        /\ Contents(outQueue, Succ(outHead, OutSize), out_tail, OutSize) = Tail(Replies)
    BY <2>1, <2>4, RingTail DEF Replies
  <2>6. Replies' = Tail(Replies)
    BY <2>1, <2>5 DEF Replies
  <2> QED  BY <2>3, <2>5, <2>6 DEF Service!Collect
<1> QED  BY <1>1, <1>2, <1>3 DEF PowerPC

(* Appending a request to slow_queue adds a job, or panic2 ends the        *)
(* service because the jobs have no more room.                             *)
LEMMA EnqueueImplements ==
  ASSUME IInv, NEW call \in Entries, NEW from, NEW to, from # "panic", to # "panic",
         EnqueueSlow(call, from, to), main # "off"
  PROVE  /\ ServiceState \in {"serving", "ending"}
         /\ SlowFull => /\ Len(Jobs) >= SlowSize - 2 /\ UNCHANGED Jobs
                        /\ handler' = "panic" /\ ServiceState' = "overrun"
         /\ ~SlowFull => Service!AddJob(call) /\ UNCHANGED ServiceState /\ handler' = to
<1>1. handler = from /\ UNCHANGED main
  BY DEF EnqueueSlow, HandlerStep
<1>2. ServiceState \in {"serving", "ending"}
  BY <1>1 DEF ServiceState
<1>3. ASSUME SlowFull
      PROVE  /\ Len(Jobs) >= SlowSize - 2 /\ UNCHANGED Jobs
             /\ handler' = "panic" /\ ServiceState' = "overrun"
  <2>1. /\ handler' = "panic"
        /\ UNCHANGED <<slowQueue, slow_queue_head, slow_queue_tail>>
    BY <1>3 DEF EnqueueSlow, HandlerStep, slowVars
  <2>2. UNCHANGED Jobs
    BY <1>1, <2>1, LanesKept DEF Busy
  <2>3. SlowContents \in Seq(Entries) /\ Len(SlowContents) = SlowSize - 1
    BY <1>3, Lanes
  <2>4. Jobs = SlowContents \/ (SlowContents # <<>> /\ Jobs = Tail(SlowContents))
    BY Lanes
  <2>5. Len(Jobs) >= SlowSize - 2
    BY <2>3, <2>4, SizeAssumption
  <2>6. ServiceState' = "overrun"
    BY <2>1 DEF ServiceState
  <2> QED  BY <2>1, <2>2, <2>5, <2>6
<1>4. ASSUME ~SlowFull
      PROVE  Service!AddJob(call) /\ UNCHANGED ServiceState /\ handler' = to
  <2>1. /\ slowQueue' = [slowQueue EXCEPT ![slow_queue_tail] = call]
        /\ slow_queue_tail' = Succ(slow_queue_tail, SlowSize)
        /\ UNCHANGED <<slow_queue_head, main>> /\ handler' = to
    BY <1>4 DEF EnqueueSlow, HandlerStep
  <2>2. Len(Jobs) < SlowSize - 1 /\ Jobs' = Append(Jobs, call)
    BY <1>4, <2>1, JobAdded
  <2>3. UNCHANGED ServiceState
    BY <1>1, <2>1 DEF ServiceState
  <2> QED  BY <2>1, <2>2, <2>3 DEF Service!AddJob
<1> QED  BY <1>2, <1>3, <1>4

(* The request the handler works on is the first one pending.              *)
LEMMA FirstPending ==
  ASSUME IInv, in_head # inTail, handler # "next"
  PROVE  /\ Incoming \in Entries
         /\ Pending # <<>> /\ Head(Pending) = Incoming
         /\ UNCHANGED <<inQueue, in_head, inTail>> /\ handler' = "next"
              => Pending' = Tail(Pending)
<1>1. /\ in_head \in 0 .. InSize - 1 /\ inTail \in 0 .. InSize - 1
      /\ InSize \in Nat /\ InSize > 1
      /\ inQueue \in [0 .. InSize - 1 -> Entries]
  BY SizeAssumption DEF IInv, TypeOK, Entries
<1>2. InContents # <<>> /\ Head(InContents) = Incoming
  BY <1>1, RingTail DEF InContents, Incoming
<1>3. Pending = InContents /\ InContents \in Seq(Entries)
  BY Lanes
<1>4. ASSUME UNCHANGED <<inQueue, in_head, inTail>>, handler' = "next"
      PROVE  Pending' = Tail(Pending)
  <2>1. InContents' = InContents
    BY <1>4 DEF InContents
  <2>2. Pending' = Unfinished(InContents, TRUE)
    BY <1>4, <2>1 DEF Pending, Unfinished
  <2> QED  BY <1>2, <1>3, <2>2, UnfinishedQueue
<1> QED  BY <1>1, <1>2, <1>3, <1>4 DEF Incoming

(* The interrupt handler's steps.                                          *)
LEMMA HandlerImplements ==
  ASSUME IInv, FlushInv, PostInv, Handler \/ IrqEnter \/ CardIrq
  PROVE  \/ Stutter \/ Service!AnswerFast \/ Service!Defer
         \/ Service!CardEvent \/ Service!Overrun
<1> USE DEF NoPost, inVars, outVars, slowVars, IsEmpty
<1>m. (UNCHANGED main => (Busy <=> Busy')) /\ (main # "off" \/ handler = "none")
  BY DEF Busy, IInv, IrqLaw
<1>s. /\ UNCHANGED main /\ handler # "panic" /\ handler' # "panic" => UNCHANGED ServiceState
      /\ main # "off" /\ handler # "panic" => ServiceState \in {"serving", "ending"}
  BY DEF ServiceState
<1>1. CASE IrqEnter \/ BellLoop \/ DrainDone
  <2>1. /\ UNCHANGED <<inQueue, in_head, inTail, slowQueue, slow_queue_head,
                       slow_queue_tail, outQueue, outHead, out_tail, main>>
        /\ handler \in {"none", "bell", "drain"} /\ handler' \in {"none", "bell", "drain"}
    BY <1>1 DEF IrqEnter, BellLoop, DrainDone, HandlerStep
  <2> QED  BY <2>1, <1>m, <1>s, LanesKept DEF Stutter
<1>2. CASE CardIrq
  <2> DEFINE call == [op |-> "discover", tag |-> NoTag]
  <2>1. call \in Entries
    BY DEF Entries, Request, AllOps
  <2>2. /\ EnqueueSlow(call, "none", "none") /\ main # "off"
        /\ UNCHANGED <<in_head, outQueue, outHead, out_tail>>
    BY <1>2 DEF CardIrq, IrqsOn
  <2>3. handler = "none" /\ UNCHANGED <<inQueue, inTail>> /\ handler' \in {"none", "panic"}
    BY <2>2 DEF EnqueueSlow, HandlerStep
  <2>4. UNCHANGED <<Pending, Replies>>
    BY <2>2, <2>3, LanesKept
  <2>5. /\ ServiceState \in {"serving", "ending"}
        /\ SlowFull => /\ Len(Jobs) >= SlowSize - 2 /\ UNCHANGED Jobs
                       /\ ServiceState' = "overrun"
        /\ ~SlowFull => Service!AddJob(call) /\ UNCHANGED ServiceState
    BY <2>1, <2>2, EnqueueImplements
  <2> QED
    BY <2>4, <2>5, SizeAssumption DEF Service!CardEvent, Service!Overrun
<1>3. CASE ProcessFast
  <2>1. /\ in_head # inTail /\ IsFast(Incoming.op) /\ handler = "drain"
        /\ UNCHANGED <<inQueue, in_head, inTail, slowQueue, slow_queue_head,
                       slow_queue_tail, outQueue, outHead, out_tail, main>>
        /\ handler' = IF IsAnswered(Incoming.op) THEN "post" ELSE "next"
    BY <1>3 DEF ProcessFast, HandlerStep
  <2>2. UNCHANGED <<Jobs, Replies, ServiceState>>
    BY <2>1, <1>m, <1>s, LanesKept
  <2>3. CASE IsAnswered(Incoming.op)
    <3>1. UNCHANGED Pending
      BY <2>1, <2>3, LanesKept
    <3> QED  BY <2>2, <3>1 DEF Stutter
  <2>4. CASE ~IsAnswered(Incoming.op)
    <3>1. Pending # <<>> /\ Head(Pending) = Incoming /\ Pending' = Tail(Pending)
      BY <2>1, <2>4, FirstPending
    <3>2. ServiceState \in {"serving", "ending"}
      BY <2>1, <1>m, <1>s
    <3> QED  BY <2>1, <2>2, <2>4, <3>1, <3>2 DEF Service!AnswerFast, Service!Answer
  <2> QED  BY <2>3, <2>4
<1>4. CASE FastPost
  <2>1. /\ UNCHANGED <<inQueue, in_head, inTail, slowQueue, slow_queue_head,
                       slow_queue_tail, outHead, out_tail, main>>
        /\ handler = "post" /\ handler' = "publish"
        /\ outQueue' = [outQueue EXCEPT ![out_tail] = Incoming]
    BY <1>4 DEF FastPost, HandlerStep, FillOut
  <2>2. UNCHANGED Replies
    BY <2>1, FilledSlotHidden
  <2> QED  BY <2>1, <2>2, <1>m, <1>s, LanesKept DEF Stutter
<1>5. CASE FastPublish
  <2>1. /\ UNCHANGED <<inQueue, in_head, inTail, slowQueue, slow_queue_head,
                       slow_queue_tail, outQueue, outHead, main>>
        /\ handler = "publish" /\ handler' = "next"
        /\ out_tail' = Succ(out_tail, OutSize)
    BY <1>5 DEF FastPublish, HandlerStep, PublishOut
  <2>2. /\ ~OutFull /\ outQueue[out_tail] = Incoming /\ in_head # inTail
        /\ IsFast(Incoming.op) /\ IsAnswered(Incoming.op)
    BY <2>1 DEF FlushInv, PostInv, IInv, RequestPresent
  <2>3. Len(Replies) < OutSize - 1 /\ Replies' = Append(Replies, Incoming)
    BY <2>1, <2>2, ReplyAdded
  <2>4. Pending # <<>> /\ Head(Pending) = Incoming /\ Pending' = Tail(Pending)
    BY <2>1, <2>2, FirstPending
  <2>5. UNCHANGED <<Jobs, ServiceState>> /\ ServiceState \in {"serving", "ending"}
    BY <2>1, <1>m, <1>s, LanesKept
  <2> QED  BY <2>2, <2>3, <2>4, <2>5 DEF Service!AnswerFast, Service!Answer
<1>6. CASE DeferSlow
  <2>1. /\ in_head # inTail /\ ~IsFast(Incoming.op)
        /\ EnqueueSlow(Incoming, "drain", "next")
        /\ UNCHANGED <<in_head, outQueue, outHead, out_tail>>
    BY <1>6 DEF DeferSlow
  <2>2. /\ handler = "drain" /\ UNCHANGED <<inQueue, inTail, main>>
    BY <2>1 DEF EnqueueSlow, HandlerStep
  <2>3. /\ Incoming \in Entries /\ Pending # <<>> /\ Head(Pending) = Incoming
        /\ handler' = "next" => Pending' = Tail(Pending)
    BY <2>1, <2>2, FirstPending
  <2>4. main # "off"
    BY <2>2, <1>m
  <2>5. /\ ServiceState \in {"serving", "ending"}
        /\ SlowFull => /\ Len(Jobs) >= SlowSize - 2 /\ UNCHANGED Jobs
                       /\ handler' = "panic" /\ ServiceState' = "overrun"
        /\ ~SlowFull => Service!AddJob(Incoming) /\ UNCHANGED ServiceState /\ handler' = "next"
    BY <2>1, <2>3, <2>4, EnqueueImplements
  <2>6. UNCHANGED Replies
    BY <2>1, LanesKept
  <2>7. CASE SlowFull
    <3>1. UNCHANGED Pending
      BY <2>1, <2>2, <2>5, <2>7, LanesKept
    <3> QED  BY <2>5, <2>6, <2>7, <3>1, SizeAssumption DEF Service!Overrun
  <2>8. CASE ~SlowFull
    BY <2>1, <2>3, <2>5, <2>6, <2>8 DEF Service!Defer
  <2> QED  BY <2>7, <2>8
<1>7. CASE InNext
  <2>1. /\ UNCHANGED <<inQueue, inTail, slowQueue, slow_queue_head,
                       slow_queue_tail, outQueue, outHead, out_tail, main>>
        /\ handler = "next" /\ handler' = "drain"
        /\ in_head' = Succ(in_head, InSize) /\ in_head # inTail
    BY <1>7 DEF InNext, HandlerStep, IInv, RequestPresent
  <2>2. /\ in_head \in 0 .. InSize - 1 /\ inTail \in 0 .. InSize - 1
        /\ InSize \in Nat /\ InSize > 1
        /\ inQueue \in [0 .. InSize - 1 -> Entries]
    BY SizeAssumption DEF IInv, TypeOK, Entries
  <2>3. Contents(inQueue, Succ(in_head, InSize), inTail, InSize) = Tail(InContents)
    BY <2>1, <2>2, RingTail DEF InContents
  <2>4. Pending' = InContents' /\ InContents' = Tail(InContents)
    BY <2>1, <2>3 DEF Pending, Unfinished, InContents
  <2>5. Pending = Tail(InContents)
    BY <2>1, Lanes
  <2> QED  BY <2>1, <2>4, <2>5, <1>m, <1>s, LanesKept DEF Stutter
<1> QED  BY <1>1, <1>2, <1>3, <1>4, <1>5, <1>6, <1>7 DEF Handler

(* The job process_slow works on is the first one.                         *)
LEMMA FirstJob ==
  ASSUME IInv, slow_queue_head # slow_queue_tail, ~Busy
  PROVE  /\ Jobs # <<>> /\ Head(Jobs) = Job
         /\ UNCHANGED <<slowQueue, slow_queue_head, slow_queue_tail>> /\ Busy'
              => Jobs' = Tail(Jobs)
<1>1. /\ slow_queue_head \in 0 .. SlowSize - 1 /\ slow_queue_tail \in 0 .. SlowSize - 1
      /\ SlowSize \in Nat /\ SlowSize > 1
      /\ slowQueue \in [0 .. SlowSize - 1 -> Entries]
  BY SizeAssumption DEF IInv, TypeOK, Entries
<1>2. SlowContents # <<>> /\ Head(SlowContents) = Job
  BY <1>1, RingTail DEF SlowContents, Job
<1>3. Jobs = SlowContents /\ SlowContents \in Seq(Entries)
  BY Lanes
<1>4. ASSUME UNCHANGED <<slowQueue, slow_queue_head, slow_queue_tail>>, Busy'
      PROVE  Jobs' = Tail(Jobs)
  <2>1. SlowContents' = SlowContents
    BY <1>4 DEF SlowContents
  <2>2. Jobs' = Unfinished(SlowContents, TRUE)
    BY <1>4, <2>1 DEF Jobs, Unfinished, Busy
  <2> QED  BY <1>2, <1>3, <2>2, UnfinishedQueue
<1> QED  BY <1>2, <1>3, <1>4

(* The main loop's steps.  A job is performed when its answer is           *)
(* published, or when it is dispatched and has none.                       *)
LEMMA MainImplements ==
  ASSUME IInv, FlushInv, PostInv, MainThread
  PROVE  Stutter \/ Service!Perform \/ Service!End
<1> USE DEF NoPost, inVars, outVars, slowVars, IsEmpty
<1>h. handler = "none" /\ handler' = "none" /\ UNCHANGED Pending
  <2>1. handler = "none" /\ handler' = "none" /\ UNCHANGED <<inQueue, in_head, inTail>>
    BY DEF MainThread, MainLoop, ProcessSlow, SlowPost, SlowPublish, Flush, SlowNext,
           Recheck, WakeUp, Shutdown, Goto, MainStep
  <2> QED  BY <2>1, LanesKept
<1>s. /\ main \in {"flush", "leave", "vector"} => ServiceState = "ending"
      /\ main \notin {"flush", "leave", "vector", "off"} => ServiceState = "serving"
      /\ main' \in {"flush", "leave", "vector"} => ServiceState' = "ending"
      /\ main' \notin {"flush", "leave", "vector", "off"} => ServiceState' = "serving"
      /\ main' = "off" => ServiceState' = "ended"
  BY <1>h DEF ServiceState
<1>1. CASE MainLoop \/ Recheck \/ WakeUp \/ Flush
  <2>1. /\ UNCHANGED <<slowQueue, slow_queue_head, slow_queue_tail, outQueue, outHead, out_tail>>
        /\ \/ /\ main \in {"loop", "process", "idle", "wait"}
              /\ main' \in {"loop", "process", "idle", "wait"}
           \/ main = "flush" /\ main' = "leave"
    BY <1>1 DEF MainLoop, Recheck, WakeUp, Flush, Goto, MainStep
  <2>2. Busy <=> Busy'
    BY <2>1 DEF Busy
  <2> QED  BY <2>1, <2>2, <1>h, <1>s, LanesKept DEF Stutter
<1>2. CASE ProcessSlow
  <2>1. /\ UNCHANGED <<slowQueue, slow_queue_head, slow_queue_tail, outQueue, outHead, out_tail>>
        /\ main = "process" /\ main' = AfterDispatch /\ slow_queue_head # slow_queue_tail
    BY <1>2 DEF ProcessSlow, Goto, MainStep, IInv, JobPresent
  <2>2. CASE IsAnswered(Job.op)
    <3>1. main' = "post"
      BY <2>1, <2>2 DEF AfterDispatch, IsAnswered
    <3> QED  BY <2>1, <3>1, <1>h, <1>s, LanesKept DEF Stutter, Busy
  <2>3. CASE ~IsAnswered(Job.op)
    <3>1. /\ Job.op # "boot2run"
          /\ main' = IF Job.op = "jump" THEN "leave" ELSE "next"
      BY <2>1, <2>3 DEF AfterDispatch, IsAnswered
    <3>2. Jobs # <<>> /\ Head(Jobs) = Job /\ Jobs' = Tail(Jobs)
      BY <2>1, <3>1, FirstJob DEF Busy
    <3>3. UNCHANGED Replies
      BY <2>1, LanesKept
    <3> QED
      BY <2>1, <2>3, <3>1, <3>2, <3>3, <1>h, <1>s DEF Service!Perform, Service!Answer
  <2> QED  BY <2>2, <2>3
<1>3. CASE SlowPost
  <2>1. /\ UNCHANGED <<slowQueue, slow_queue_head, slow_queue_tail, outHead, out_tail>>
        /\ main = "post" /\ main' = "publish"
        /\ outQueue' = [outQueue EXCEPT ![out_tail] = Job]
    BY <1>3 DEF SlowPost, MainStep, FillOut
  <2>2. UNCHANGED Replies
    BY <2>1, FilledSlotHidden
  <2> QED  BY <2>1, <2>2, <1>h, <1>s, LanesKept DEF Stutter, Busy
<1>4. CASE SlowPublish
  <2>1. /\ UNCHANGED <<slowQueue, slow_queue_head, slow_queue_tail, outQueue, outHead>>
        /\ main = "publish" /\ main' = IF Job.op = "boot2run" THEN "flush" ELSE "next"
        /\ out_tail' = Succ(out_tail, OutSize)
    BY <1>4 DEF SlowPublish, MainStep, PublishOut
  <2>2. /\ ~OutFull /\ outQueue[out_tail] = Job /\ slow_queue_head # slow_queue_tail
        /\ IsAnswered(Job.op)
    BY <2>1 DEF FlushInv, PostInv, IInv, JobPresent
  <2>3. Job.op # "jump"
    BY <2>2 DEF IsAnswered
  <2>4. Len(Replies) < OutSize - 1 /\ Replies' = Append(Replies, Job)
    BY <2>1, <2>2, ReplyAdded
  <2>5. Jobs # <<>> /\ Head(Jobs) = Job /\ Jobs' = Tail(Jobs)
    BY <2>1, <2>2, FirstJob DEF Busy
  <2> QED
    BY <2>1, <2>2, <2>3, <2>4, <2>5, <1>h, <1>s DEF Service!Perform, Service!Answer
<1>5. CASE SlowNext
  <2>1. /\ UNCHANGED <<slowQueue, slow_queue_tail, outQueue, outHead, out_tail>>
        /\ \/ main = "next" /\ main' = "loop"
           \/ main = "leave" /\ main' = "vector"
        /\ slow_queue_head' = Succ(slow_queue_head, SlowSize)
        /\ slow_queue_head # slow_queue_tail
    BY <1>5 DEF SlowNext, MainStep, IInv, JobPresent
  <2>2. /\ slow_queue_head \in 0 .. SlowSize - 1 /\ slow_queue_tail \in 0 .. SlowSize - 1
        /\ SlowSize \in Nat /\ SlowSize > 1
        /\ slowQueue \in [0 .. SlowSize - 1 -> Entries]
    BY SizeAssumption DEF IInv, TypeOK, Entries
  <2>3. Contents(slowQueue, Succ(slow_queue_head, SlowSize), slow_queue_tail, SlowSize)
          = Tail(SlowContents)
    BY <2>1, <2>2, RingTail DEF SlowContents
  <2>4. Jobs' = SlowContents' /\ SlowContents' = Tail(SlowContents)
    BY <2>1, <2>3 DEF Jobs, Unfinished, SlowContents
  <2>5. Jobs = Tail(SlowContents)
    BY <2>1, Lanes DEF Busy
  <2> QED  BY <2>1, <2>4, <2>5, <1>h, <1>s, LanesKept DEF Stutter
<1>6. CASE Shutdown
  <2>1. /\ UNCHANGED <<slowQueue, slow_queue_head, slow_queue_tail, outQueue, outHead, out_tail>>
        /\ main = "vector" /\ main' = "off"
    BY <1>6 DEF Shutdown, MainStep
  <2> QED  BY <2>1, <1>h, <1>s, LanesKept DEF Service!End, Busy
<1> QED  BY <1>1, <1>2, <1>3, <1>4, <1>5, <1>6 DEF MainThread

LEMMA NextImplements ==
  IInv /\ FlushInv /\ PostInv /\ [Next]_vars => [Service!Next]_(Service!vars)
<1> SUFFICES ASSUME IInv, FlushInv, PostInv, [Next]_vars
             PROVE  Service!Next \/ Stutter
  BY DEF Stutter, Service!vars
<1>1. CASE PowerPC \/ CardFlip
  BY <1>1, PowerPCImplements DEF Service!Next
<1>2. CASE Handler \/ IrqEnter \/ CardIrq
  BY <1>2, HandlerImplements DEF Service!Next
<1>3. CASE MainThread
  BY <1>3, MainImplements DEF Service!Next
<1>4. CASE UNCHANGED vars
  <2>1. UNCHANGED <<inQueue, in_head, inTail, slowQueue, slow_queue_head, slow_queue_tail,
                    outQueue, outHead, out_tail, main, handler>>
    BY <1>4 DEF vars, inVars, outVars, slowVars
  <2> QED  BY <2>1, LanesKept DEF Stutter, ServiceState, Busy
<1> QED  BY <1>1, <1>2, <1>3, <1>4 DEF Next

(* Every step of the PowerPC, the interrupt handler and the main loop is a *)
(* step of the service or invisible: requests are accepted and answered in *)
(* order, each once, and a job is done only after those before it, for     *)
(* rings of every size.                                                    *)
THEOREM ServiceImplemented == Spec => ImplementsService
<1>1. Spec => [](FlushInv /\ PostInv)
  <2>1. Init => PostInv
    BY DEF Init, PostInv
  <2> QED  BY <2>1, InitFlush, NextFlush, NextPostInv, IInvHolds, PTL DEF Spec
<1> QED
  BY <1>1, InitImplements, NextImplements, IInvHolds, PTL
     DEF Spec, ImplementsService, Service!Spec

=============================================================================
