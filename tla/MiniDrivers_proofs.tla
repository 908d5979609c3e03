-------------------------- MODULE MiniDrivers_proofs ------------------------
(***************************************************************************)
(* What the two device drivers of mini guarantee: the NAND driver for      *)
(* every chip, block size and workload, the SD driver for any number of    *)
(* cards, swaps and transfers.                                             *)
(***************************************************************************)
EXTENDS NandDriver, SdCard, FiniteSetTheorems, TLAPS

(* A factor may be cancelled from a strict inequality of naturals.         *)
LEMMA Cancel ==
  ASSUME NEW b \in Nat \ {0}, NEW k \in Int, NEW m \in Int, b * k < b * m
  PROVE  k + 1 <= m /\ b * (k + 1) <= b * m
<1>1. k < m BY SMT
<1> QED BY <1>1, SMT

(* A page below NAND_MIN_PAGE and one above it are in different blocks,    *)
(* because NAND_MIN_PAGE starts a block: an erase stays on its side.       *)
LEMMA BlocksApart ==
  ASSUME NEW p \in Nat, NEW q \in Nat, p < MinPage, MinPage <= q
  PROVE  p \div BlockPages # q \div BlockPages
<1> DEFINE b == BlockPages
           k == p \div b
           m == MinPage \div b
<1>1. b \in Nat \ {0} /\ MinPage \in Nat /\ MinPage % b = 0 BY PageAssumption
<1>2. k \in Int /\ m \in Int BY <1>1, SMT
<1>3. b * k <= p /\ MinPage = b * m BY <1>1, SMT
<1>4. b * k < b * m BY <1>3, <1>1, <1>2, SMT
<1>5. b * (k + 1) <= q
  <2> HIDE DEF k, m, b
  <2> QED BY <1>1, <1>2, <1>3, <1>4, Cancel, SMT
<1>6. SUFFICES ASSUME q \div b = k PROVE FALSE BY DEF b, k
<1>7. q < b * ((q \div b) + 1) BY <1>1, SMT
<1> QED BY <1>5, <1>6, <1>7, <1>1, SMT

-----------------------------------------------------------------------------
(* What the driver may ask the controller to carry out: reads of pages     *)
(* that exist, writes and erases of pages that are not forbidden.          *)
Readable(r) == r.op = "read" => r.page \in Pages
Allowed(r)  == r.op \in {"write", "erase"} => ~Forbidden(r.page)

RequestsOK ==
  /\ \A k \in DOMAIN jobs : Readable(jobs[k])
  /\ Readable(current) /\ Readable(command) /\ Allowed(command)

Booting == main \notin {"idle", "start", "refuse"}

(* While mini boots, the controller works for the boot code only, and      *)
(* irq_flag says whether its page is there.                                *)
BootShape ==
  Booting =>
    /\ current = None
    /\ command \in {None, BootCommand}
    /\ command # None => ~irq
    /\ irq_flag \/ main = "bootRead" => command = None /\ ~irq
    /\ main = "bootRead" \/ irq_flag \/ command # None \/ irq
    /\ main = "bootTest" => bootLeft > 0
    /\ main \in {"bootKill", "bootSleep"} => bootLeft > 0
    /\ main = "bootSleep" => ~irq_flag

(* Afterwards it works for current_request only.                           *)
ServiceShape ==
  ~Booting =>
    /\ CommandIsCurrent
    /\ main = "start" => current # None
    /\ main = "refuse" => jobs # <<>>
    /\ current # None => current.op \in {"status", "read", "write", "erase"}

IInv == TypeOK /\ RequestsOK /\ BootShape /\ ServiceShape

LEMMA InitIInv == Init => IInv
<1> SUFFICES ASSUME Init PROVE IInv  OBVIOUS
<1> USE PageAssumption, NandRequestAssumption DEF Init, None, BootCommand, Pages
<1>1. TypeOK
  <2>1. flash \in [Pages -> Contents] /\ ipc_data \in [data : Contents, bits : 0 .. 2]
    BY DEF Contents
  <2>2. jobs \in Seq(Request) /\ bootLeft \in 0 .. BootReads
    OBVIOUS
  <2> QED  BY <2>1, <2>2 DEF TypeOK
<1>2. RequestsOK  BY DEF RequestsOK, Readable, Allowed
<1>3. BootShape /\ ServiceShape  BY DEF BootShape, ServiceShape, Booting
<1> QED  BY <1>1, <1>2, <1>3 DEF IInv

LEMMA NextIInv == IInv /\ [Next]_vars => IInv'
<1> SUFFICES ASSUME IInv, [Next]_vars PROVE IInv'  OBVIOUS
<1> USE PageAssumption, NandRequestAssumption
    DEF IInv, TypeOK, RequestsOK, BootShape, ServiceShape, Booting,
        CommandIsCurrent, driver, chip, client
<1>n. /\ None \notin Request
      /\ None.op = "none" /\ None.page = 0
      /\ BootCommand # None
      /\ BootCommand.op = "read"
      /\ BootCommand.page = 0
      /\ 0 \in Pages
  BY DEF None, BootCommand, Request, AllOps, Pages
<1>j. ASSUME jobs # <<>>
      PROVE  /\ Job \in Request /\ Readable(Job)
             /\ Tail(jobs) \in Seq(Request)
             /\ \A k \in DOMAIN Tail(jobs) : Readable(Tail(jobs)[k])
  <2> USE <1>j
  <2>1. Job = jobs[1] /\ 1 \in DOMAIN jobs /\ Job \in Request
    BY DEF Job
  <2>2. /\ Tail(jobs) \in Seq(Request)
        /\ \A k \in DOMAIN Tail(jobs) : k + 1 \in DOMAIN jobs /\ Tail(jobs)[k] = jobs[k + 1]
    OBVIOUS
  <2> QED  BY <2>1, <2>2
<1>r. \A r \in Request, err \in -1 .. 1, data \in Contents : Reply(r, err, data) \in Answer
  BY DEF Request, Answer, Reply
<1>e. Erased \in Contents  BY DEF Contents
<1>1. CASE BootRead
  <2>1. CASE bootLeft = 0
    BY <1>1, <2>1 DEF BootRead, BootStep
  <2>2. CASE bootLeft # 0
    <3>1. Readable(command)' /\ Allowed(command)'
      BY <1>1, <2>2, <1>n DEF BootRead, BootStep, Readable, Allowed
    <3>2. /\ main' = "bootTest" /\ command' = BootCommand /\ irq_flag' = FALSE /\ irq' = FALSE
          /\ bootLeft' = bootLeft /\ bootLeft > 0 /\ current' = None
          /\ UNCHANGED <<flash, ipc_data, nandError, jobs, answers, awaiting>>
      BY <1>1, <2>2 DEF BootRead, BootStep
    <3>3. TypeOK' /\ RequestsOK'
      <4>1. TypeOK'
        BY <3>2
      <4>2. Readable(current)'
        BY <3>2, <1>n DEF Readable
      <4> QED  BY <3>1, <3>2, <4>1, <4>2
    <3>4. BootShape' /\ ServiceShape'
      BY <3>2, <1>n
    <3> QED  BY <3>3, <3>4
  <2> QED  BY <2>1, <2>2
<1>2. CASE BootTest
  BY <1>2 DEF BootTest, BootStep
<1>3. CASE BootRecheck
  BY <1>3 DEF BootRecheck, BootStep
<1>4. CASE BootWake
  BY <1>4 DEF BootWake, BootStep
<1>5. CASE Refuse
  BY <1>5 DEF Refuse, Take
<1>6. CASE Immediate
  BY <1>6, <1>j, <1>r, <1>e DEF Immediate, Take
<1>7. CASE Accept
  BY <1>7, <1>j, <1>n DEF Accept, Take, Busy, Request, AllOps
<1>8. CASE PostRefusal
  BY <1>8, <1>j, <1>r, <1>e DEF PostRefusal
<1>9. CASE Start
  <2>1. current \in Request
    BY <1>9 DEF Start
  <2>2. ipc_data' \in [data : Contents, bits : 0 .. 2]
    BY <1>9, <2>1 DEF Start, Request, Contents
  <2>3. Allowed(command)' /\ Readable(command)'
    BY <1>9 DEF Start, Allowed, Readable
  <2> QED  BY <1>9, <2>1, <2>2, <2>3 DEF Start
<1>10. CASE Controller
  <2>1. command # None /\ command.page \in Nat /\ command' = None /\ irq'
    BY <1>10, <1>n DEF Controller, Request
  <2>2. Readable(command)' /\ Allowed(command)'
    BY <2>1, <1>n DEF Readable, Allowed
  <2>3. flash' \in [Pages -> Contents] /\ ipc_data' \in [data : Contents, bits : 0 .. 2]
    <3>1. CASE nandError'
      BY <3>1, <1>10 DEF Controller
    <3>2. CASE ~nandError'
      <4>1. flash' \in [Pages -> Contents]
        BY <3>2, <1>10, <1>e DEF Controller, Contents
      <4>2. command.op = "read" => flash[command.page] \in Contents
        BY DEF Readable
      <4> QED  BY <3>2, <1>10, <4>1, <4>2 DEF Controller
    <3> QED  BY <3>1, <3>2
  <2> QED  BY <1>10, <2>1, <2>2, <2>3 DEF Controller
<1>11. CASE NandIrq
  <2>1. IrqData \in Contents /\ \A error \in BOOLEAN : IrqResult(error) \in -1 .. 1
    BY DEF IrqResult, IrqData, nand_correct, Repaired, Contents, Request, None
  <2>2. answers' \in SUBSET Answer
    <3>1. CASE current = None
      BY <3>1, <1>11 DEF NandIrq
    <3>2. CASE current # None
      BY <3>2, <1>11, <2>1, <1>r DEF NandIrq
    <3> QED  BY <3>1, <3>2
  <2>3. ipc_data' \in [data : Contents, bits : 0 .. 2]
    BY <1>11 DEF NandIrq
  <2>4. Readable(current)'
    BY <1>11, <1>n DEF NandIrq, Readable
  <2>5. current' = None /\ command' = command /\ ~irq' /\ irq_flag'
    BY <1>11 DEF NandIrq
  <2>6. main # "bootSleep" /\ command = None
    BY <1>11 DEF NandIrq, IrqOff
  <2>7. BootShape' /\ ServiceShape'
    BY <1>11, <2>5, <2>6 DEF NandIrq
  <2> QED  BY <1>11, <2>2, <2>3, <2>4, <2>5, <2>7 DEF NandIrq
<1>12. CASE \E r \in Requests : Send(r)
  <2> PICK r \in Requests : Send(r)  BY <1>12
  <2>1. r \in Request /\ Readable(r)
    <3>1. Pages \subseteq Nat /\ Pages \cup WritePages \subseteq Nat
      BY DEF Pages
    <3>2. r \in [op : Ops, page : Pages \cup WritePages, data : Data, tag : Tags \cup {NoTag}]
      BY DEF Requests
    <3>3. r \in Request
      BY <3>1, <3>2 DEF Request
    <3> QED  BY <3>3 DEF Send, Readable
  <2>2. /\ jobs' \in Seq(Request)
        /\ \A k \in DOMAIN jobs' : jobs'[k] = r \/ (k \in DOMAIN jobs /\ jobs'[k] = jobs[k])
        /\ jobs' # <<>>
    BY <2>1 DEF Send
  <2>3. awaiting' \in SUBSET Tags
    BY <2>1 DEF Send, Request
  <2> QED  BY <2>1, <2>2, <2>3 DEF Send
<1>14. CASE \E a \in answers : Collect(a)
  BY <1>14 DEF Collect
<1>13. CASE UNCHANGED vars
  BY <1>13 DEF vars
<1> QED
  BY <1>1, <1>2, <1>3, <1>4, <1>5, <1>6, <1>7, <1>8, <1>9, <1>10, <1>11, <1>12,
     <1>13, <1>14 DEF Next, Boot, Serve, Clients

LEMMA IInvHolds == Spec => []IInv
  BY InitIInv, NextIInv, PTL DEF Spec

(* Every variable keeps its type; in particular an answer's error code is  *)
(* 0, 1 or -1 (nand_correct, nand_irq).                                    *)
THEOREM TypeCorrect == Spec => []TypeOK
<1>1. IInv => TypeOK  BY DEF IInv
<1> QED  BY <1>1, IInvHolds, PTL

(* Once mini serves requests, the controller works for current_request     *)
(* only, so the single page buffer is never shared (nand_ipc, nand_irq).   *)
THEOREM BufferHasOneOwner == Spec => []CommandIsCurrent
<1>1. IInv => CommandIsCurrent  BY DEF IInv, ServiceShape, Booting, CommandIsCurrent
<1> QED  BY <1>1, IInvHolds, PTL

(* nand_wait never sleeps on a page that is there already.                 *)
THEOREM NoLostPage == Spec => []NeverSleepsOnPage
<1>1. IInv => NeverSleepsOnPage
  BY DEF IInv, BootShape, Booting, NeverSleepsOnPage
<1> QED  BY <1>1, IInvHolds, PTL

(* No request, of any client, changes a page of boot1 or boot2: the pages  *)
(* that may be named are not forbidden, and a block has pages on one side  *)
(* of NAND_MIN_PAGE only.                                                  *)
THEOREM BootAreaSafe == Spec => BootAreaIntact
<1>1. IInv /\ [Next]_vars => [\A p \in Pages : p < MinPage => flash'[p] = flash[p]]_vars
  <2> SUFFICES ASSUME IInv, [Next]_vars, NEW p \in Pages, p < MinPage
               PROVE  flash'[p] = flash[p]
    OBVIOUS
  <2> USE PageAssumption DEF IInv, TypeOK
  <2>1. p \in Nat  BY DEF Pages
  <2>2. CASE Controller
    <3>1. CASE command.op = "write"
      <4>1. command.page # p
        BY <3>1, <2>1 DEF RequestsOK, Allowed, Forbidden
      <4> QED  BY <2>2, <3>1, <4>1 DEF Controller
    <3>2. CASE command.op = "erase"
      <4>1. command.page \in Nat /\ MinPage <= command.page
        BY <2>2, <3>2 DEF Controller, RequestsOK, Allowed, Forbidden, Request, None, BootCommand
      <4>2. p \notin Block(command.page)
        BY <4>1, <2>1, BlocksApart DEF Block
      <4> QED  BY <2>2, <3>2, <4>2 DEF Controller
    <3>3. CASE command.op \notin {"write", "erase"}
      BY <2>2, <3>3 DEF Controller
    <3> QED  BY <3>1, <3>2, <3>3
  <2>3. CASE ~Controller
    BY <2>3 DEF Next, vars, Boot, Serve, Clients, BootRead, BootTest, BootRecheck,
        BootWake, BootStep, Refuse, Immediate, Accept, Take, PostRefusal, Start,
        NandIrq, Send, Collect
  <2> QED  BY <2>2, <2>3
<1> QED  BY <1>1, IInvHolds, PTL DEF Spec, BootAreaIntact

-----------------------------------------------------------------------------
(* What page buffer and chip hold while a command is under way, and when   *)
(* its interrupt is pending.                                               *)
WorkDone ==
  /\ command.op = "write" => ipc_data.data = command.data
  /\ irq /\ current.op = "read" /\ ~nandError => ipc_data.data = flash[current.page]
  /\ irq /\ current.op = "write" /\ ~nandError
       => flash[current.page] \in {current.data, Mixed}
  /\ irq /\ current.op = "erase" /\ ~nandError
       => \A p \in Block(current.page) : flash[p] = Erased

LEMMA NextWorkDone == IInv /\ WorkDone /\ [Next]_vars => WorkDone'
<1> SUFFICES ASSUME IInv, WorkDone, [Next]_vars PROVE WorkDone'  OBVIOUS
<1> USE DEF IInv, driver, chip, client
<1>n. None.op = "none" /\ BootCommand.op = "read"
  BY DEF None, BootCommand
<1>1. CASE BootRead
  BY <1>1, <1>n DEF BootRead, BootStep, WorkDone, BootShape, Booting
<1>2. CASE BootTest \/ BootRecheck \/ BootWake \/ Refuse \/ Immediate \/ PostRefusal
  BY <1>2 DEF BootTest, BootRecheck, BootWake, BootStep, Refuse, Immediate, PostRefusal,
              Take, WorkDone, Block
<1>3. CASE Accept
  BY <1>3, <1>n DEF Accept, Take, Busy, WorkDone, ServiceShape, CommandIsCurrent, Booting
<1>4. CASE Start
  <2>1. ~irq /\ irq' = FALSE /\ command = None /\ command' \in {None, current}
    BY <1>4 DEF Start, ServiceShape, CommandIsCurrent, Booting
  <2>2. current.op = "write" => ipc_data'.data = current.data
    BY <1>4 DEF Start
  <2> QED  BY <2>1, <2>2, <1>n DEF WorkDone
<1>5. CASE Controller
  <2>1. /\ command # None /\ command' = None /\ UNCHANGED current
        /\ command = current \/ current = None
    BY <1>5 DEF Controller, BootShape, ServiceShape, CommandIsCurrent, Booting
  <2>2. CASE current = None
    BY <2>1, <2>2, <1>n DEF WorkDone
  <2>3. CASE current.op = "read" /\ command = current
    BY <1>5, <2>1, <2>3, <1>n DEF Controller, WorkDone
  <2>4. CASE current.op = "write" /\ command = current
    <3>1. current.page \in Pages
      BY <2>4, <2>1, PageAssumption
         DEF RequestsOK, Allowed, Forbidden, Pages, TypeOK, Request
    <3> QED  BY <1>5, <2>1, <2>4, <3>1, <1>n DEF Controller, WorkDone, TypeOK
  <2>5. CASE current.op = "erase" /\ command = current
    BY <1>5, <2>1, <2>5, <1>n DEF Controller, WorkDone, Block
  <2>6. CASE current.op \notin {"read", "write", "erase"}
    BY <1>5, <2>1, <2>6, <1>n DEF Controller, WorkDone
  <2> QED  BY <2>1, <2>2, <2>3, <2>4, <2>5, <2>6
<1>6. CASE NandIrq
  <2>1. command' = None /\ current' = None /\ irq' = FALSE
    BY <1>6 DEF NandIrq, BootShape, ServiceShape, CommandIsCurrent, Booting
  <2> QED  BY <2>1, <1>n DEF WorkDone
<1>7. CASE Clients \/ UNCHANGED vars
  BY <1>7 DEF Clients, Send, Collect, vars, WorkDone, Block
<1> QED
  BY <1>1, <1>2, <1>3, <1>4, <1>5, <1>6, <1>7 DEF Next, Boot, Serve

(* An answer tells the truth about the chip unless the controller failed   *)
(* in that very command, whatever nand_irq then finds in NAND_CMD.         *)
THEOREM AnswersAreTrue == Spec => AnswerTruthful
<1>1. Init => WorkDone
  BY DEF Init, WorkDone, None
<1>2. Spec => []WorkDone
  BY <1>1, NextWorkDone, IInvHolds, PTL DEF Spec
<1>3. IInv /\ WorkDone /\ [Next]_vars => [AnswersNew]_vars
  <2> SUFFICES ASSUME IInv, WorkDone, [Next]_vars, NEW a \in answers' \ answers,
                      ~nandError
               PROVE  AnswerTrue(a)
    BY DEF AnswersNew
  <2> USE DEF AnswerTrue, Reply, driver, chip, client
  <2>1. CASE Immediate
    BY <2>1 DEF Immediate
  <2>2. CASE PostRefusal
    BY <2>2 DEF PostRefusal
  <2>3. CASE NandIrq
    <3>1. PICK error \in BOOLEAN :
            current # None /\ a = Reply(current, IrqResult(error), IrqData)
      BY <2>3 DEF NandIrq
    <3>2. a.op = "read" /\ a.err >= 0 => ipc_data.bits # 2
      BY <3>1 DEF IrqResult, nand_correct, IInv, TypeOK
    <3>3. /\ a.op = current.op /\ a.page = current.page /\ a.err = IrqResult(error)
          /\ a.op # "read" => a.data = current.data
          /\ a.op = "read" => a.data = IF ipc_data.bits = 2 THEN Mixed ELSE ipc_data.data
      BY <3>1 DEF IrqData, Repaired
    <3>4. a.op = "read" /\ a.err >= 0 => a.data = flash[a.page]
      BY <2>3, <3>2, <3>3 DEF NandIrq, WorkDone
    <3>5. a.op = "write" /\ a.err = 0 => flash[a.page] \in {a.data, Mixed}
      BY <2>3, <3>3 DEF NandIrq, IrqResult, WorkDone
    <3>6. a.op = "erase" /\ a.err = 0 => \A p \in Block(a.page) : flash[p] = Erased
      BY <2>3, <3>3 DEF NandIrq, IrqResult, WorkDone
    <3> QED  BY <3>4, <3>5, <3>6
  <2>4. CASE ~(Immediate \/ PostRefusal \/ NandIrq)
    BY <2>4 DEF Next, vars, Boot, Serve, Clients, BootRead, BootTest, BootRecheck,
        BootWake, BootStep, Refuse, Accept, Take, Start, Controller, Send, Collect
  <2> QED  BY <2>1, <2>2, <2>3, <2>4
<1> QED  BY <1>2, <1>3, IInvHolds, PTL DEF Spec, AnswerTruthful

-----------------------------------------------------------------------------
(* Where the request with tag t is: the places OneAnswer counts.           *)
Queued(t)   == {k \in DOMAIN jobs : jobs[k].tag = t}
Answered(t) == {a \in answers : a.tag = t}

Nowhere(t)    == Queued(t) = {} /\ current.tag # t /\ Answered(t) = {}
InQueue(t)    == (\E k : Queued(t) = {k}) /\ current.tag # t /\ Answered(t) = {}
InForce(t)    == Queued(t) = {} /\ current.tag = t /\ Answered(t) = {}
InOutQueue(t) == Queued(t) = {} /\ current.tag # t /\ \E a : Answered(t) = {a}

OnePlace(t) == IF t \in awaiting THEN InQueue(t) \/ InForce(t) \/ InOutQueue(t)
                                 ELSE Nowhere(t)

(* A request that nand_ipc drops expects no answer.                        *)
DroppedUntagged == \A k \in DOMAIN jobs : jobs[k].op = "unknown" => jobs[k].tag = NoTag

PlaceInv == DroppedUntagged /\ \A t \in Tags : OnePlace(t)

(* What the queue still holds of a tag once process_slow has taken its     *)
(* first request.                                                          *)
LEMMA TakenFromQueue ==
  ASSUME TypeOK, jobs # <<>>, jobs' = Tail(jobs), DroppedUntagged
  PROVE  /\ DroppedUntagged'
         /\ Job.op = "unknown" => Job.tag = NoTag
         /\ \A t \in Tags :
              /\ Job.tag = t => Queued(t) # {}
              /\ Queued(t) = {} => Queued(t)' = {}
              /\ \A k : Queued(t) = {k} =>
                   Queued(t)' = IF Job.tag = t THEN {} ELSE {k - 1}
<1>1. /\ jobs \in Seq(Request) /\ Len(jobs) \in Nat \ {0}
      /\ DOMAIN jobs = 1 .. Len(jobs) /\ DOMAIN jobs' = 1 .. Len(jobs) - 1
      /\ \A k \in 1 .. Len(jobs) - 1 : jobs'[k] = jobs[k + 1]
      /\ Job = jobs[1]
  BY DEF TypeOK, Job
<1>2. DroppedUntagged' /\ (Job.op = "unknown" => Job.tag = NoTag)
  BY <1>1 DEF DroppedUntagged
<1>3. ASSUME NEW t \in Tags
      PROVE  /\ Job.tag = t => Queued(t) # {}
             /\ Queued(t) = {} => Queued(t)' = {}
             /\ \A k : Queued(t) = {k} =>
                  Queued(t)' = IF Job.tag = t THEN {} ELSE {k - 1}
  <2>1. \A k : k \in Queued(t)' <=> k \in 1 .. Len(jobs) - 1 /\ k + 1 \in Queued(t)
    BY <1>1 DEF Queued
  <2>2. Queued(t) \subseteq 1 .. Len(jobs)
    BY <1>1 DEF Queued
  <2>3. Job.tag = t <=> 1 \in Queued(t)
    BY <1>1 DEF Queued
  <2>4. Queued(t) = {} => Queued(t)' = {}
    BY <2>1
  <2>5. ASSUME NEW k, Queued(t) = {k}
        PROVE  Queued(t)' = IF Job.tag = t THEN {} ELSE {k - 1}
    <3>1. k \in 1 .. Len(jobs)
      BY <2>2, <2>5
    <3>2. CASE Job.tag = t
      <4>1. k = 1
        BY <2>3, <2>5, <3>2
      <4>2. \A i : i \notin Queued(t)'
        BY <2>1, <2>5, <4>1
      <4> QED  BY <3>2, <4>2
    <3>3. CASE Job.tag # t
      <4>1. k - 1 \in 1 .. Len(jobs) - 1
        BY <1>1, <2>3, <2>5, <3>1, <3>3
      <4>2. \A i : i \in Queued(t)' <=> i = k - 1
        BY <2>1, <2>5, <3>1, <4>1
      <4> QED  BY <3>3, <4>2
    <3> QED  BY <3>2, <3>3
  <2> QED  BY <2>3, <2>4, <2>5
<1> QED  BY <1>2, <1>3

(* An answer that nand_ipc posts at once takes the place of its request.   *)
LEMMA AnsweredAtOnce ==
  ASSUME TypeOK, PlaceInv, jobs # <<>>, jobs' = Tail(jobs), UNCHANGED <<current, awaiting>>,
         NEW err, answers' = answers \cup {Reply(Job, err, Erased)}
  PROVE  PlaceInv'
<1> DEFINE reply == Reply(Job, err, Erased)
<1>1. reply.tag = Job.tag
  BY DEF Reply
<1>2. DroppedUntagged
  BY DEF PlaceInv
<1>3. ASSUME NEW t \in Tags PROVE OnePlace(t)'
  <2>1. /\ OnePlace(t)
        /\ Job.tag = t => Queued(t) # {}
        /\ Queued(t) = {} => Queued(t)' = {}
        /\ \A k : Queued(t) = {k} =>
             Queued(t)' = IF Job.tag = t THEN {} ELSE {k - 1}
    BY <1>2, TakenFromQueue DEF PlaceInv
  <2>2. Answered(t)' = IF Job.tag = t THEN Answered(t) \cup {reply} ELSE Answered(t)
    BY <1>1 DEF Answered
  <2>3. CASE Job.tag = t
    <3>1. t \in awaiting /\ InQueue(t)
      BY <2>1, <2>3 DEF OnePlace, Nowhere, InQueue, InForce, InOutQueue
    <3>2. Queued(t)' = {} /\ Answered(t)' = {reply} /\ current'.tag # t
      BY <2>1, <2>2, <2>3, <3>1, NandRequestAssumption DEF InQueue
    <3> QED  BY <3>1, <3>2 DEF OnePlace, InOutQueue
  <2>4. CASE Job.tag # t
    <3>1. Answered(t)' = Answered(t) /\ current' = current /\ awaiting' = awaiting
      BY <2>2, <2>4
    <3>2. (Queued(t) = {} => Queued(t)' = {}) /\ ((\E k : Queued(t) = {k}) => \E k : Queued(t)' = {k})
      BY <2>1, <2>4
    <3> QED  BY <2>1, <3>1, <3>2 DEF OnePlace, Nowhere, InQueue, InForce, InOutQueue
  <2> QED  BY <2>3, <2>4
<1> QED  BY <1>2, <1>3, TakenFromQueue DEF PlaceInv

LEMMA NextPlaceInv == IInv /\ PlaceInv /\ [Next]_vars => PlaceInv'
<1> SUFFICES ASSUME IInv, PlaceInv, [Next]_vars PROVE PlaceInv'  OBVIOUS
<1> USE NandRequestAssumption DEF PlaceInv, OnePlace, Nowhere, InQueue, InForce, InOutQueue
<1>n. None.tag = NoTag /\ NoTag \notin Tags
  BY DEF None
<1>1. ASSUME UNCHANGED <<jobs, current, answers, awaiting>>
      PROVE  PlaceInv'
  BY <1>1 DEF DroppedUntagged, Queued, Answered
<1>2. CASE Boot \/ Refuse \/ Start \/ Controller \/ UNCHANGED vars
  <2>1. UNCHANGED <<jobs, current, answers, awaiting>>
    BY <1>2 DEF Boot, BootRead, BootTest, BootRecheck, BootWake, BootStep, Refuse, Take,
                Start, Controller, client, driver, vars
  <2> QED  BY <2>1, <1>1
<1>3. CASE Immediate
  <2>1. /\ jobs # <<>> /\ jobs' = Tail(jobs) /\ UNCHANGED <<current, awaiting>>
        /\ \/ Job.op = "reset" /\ answers' = answers \cup {Reply(Job, 0, Erased)}
           \/ Job.op = "unknown" /\ answers' = answers
    BY <1>3 DEF Immediate, Take
  <2>2. TypeOK /\ DroppedUntagged
    BY DEF IInv
  <2>3. CASE Job.op = "reset" /\ answers' = answers \cup {Reply(Job, 0, Erased)}
    BY <2>1, <2>2, <2>3, AnsweredAtOnce
  <2>4. CASE Job.op = "unknown" /\ answers' = answers
    <3>1. \A t \in Tags : Answered(t)' = Answered(t)
      BY <2>4 DEF Answered
    <3> QED  BY <2>1, <2>2, <2>4, <3>1, TakenFromQueue
  <2> QED  BY <2>1, <2>3, <2>4
<1>4. CASE Accept
  <2>1. /\ jobs # <<>> /\ jobs' = Tail(jobs) /\ UNCHANGED <<answers, awaiting>>
        /\ current = None /\ current' = Job
    BY <1>4 DEF Accept, Take, Busy
  <2>2. \A t \in Tags : Answered(t)' = Answered(t)
    BY <2>1 DEF Answered
  <2> QED  BY <2>1, <2>2, TakenFromQueue, <1>n DEF IInv
<1>5. CASE PostRefusal
  <2>1. /\ jobs # <<>> /\ jobs' = Tail(jobs) /\ UNCHANGED <<current, awaiting>>
        /\ answers' = answers \cup {Reply(Job, -1, Erased)}
    BY <1>5 DEF PostRefusal, driver, IInv, ServiceShape, Booting
  <2> QED  BY <2>1, AnsweredAtOnce DEF IInv
<1>6. CASE NandIrq
  <2>1. PICK error \in BOOLEAN :
        /\ UNCHANGED <<jobs, awaiting>> /\ current' = None
        /\ answers' = IF current = None THEN answers
                      ELSE answers \cup {Reply(current, IrqResult(error), IrqData)}
    BY <1>6 DEF NandIrq
  <2>2. Reply(current, IrqResult(error), IrqData).tag = current.tag
    BY DEF Reply
  <2>3. \A t \in Tags :
          /\ Queued(t)' = Queued(t)
          /\ Answered(t)' = IF current.tag = t
                              THEN Answered(t) \cup {Reply(current, IrqResult(error), IrqData)}
                              ELSE Answered(t)
    BY <2>1, <2>2, <1>n DEF Answered, Queued
  <2> QED  BY <2>1, <2>3, <1>n DEF DroppedUntagged
<1>7. CASE \E r \in Requests : Send(r)
  <2> PICK r \in Requests : Send(r)  BY <1>7
  <2>1. /\ r.op = "unknown" => r.tag = NoTag
        /\ r.tag \notin awaiting
        /\ jobs' = Append(jobs, r)
        /\ awaiting' = awaiting \cup ({r.tag} \ {NoTag})
        /\ UNCHANGED <<current, answers>>
    BY <1>n DEF Send, driver, IInv, TypeOK
  <2>2. /\ Len(jobs) \in Nat /\ DOMAIN jobs = 1 .. Len(jobs)
        /\ DOMAIN jobs' = 1 .. Len(jobs) + 1
        /\ \A k \in 1 .. Len(jobs) : jobs'[k] = jobs[k]
        /\ jobs'[Len(jobs) + 1] = r
    BY <2>1 DEF IInv, TypeOK
  <2>3. DroppedUntagged'
    BY <2>1, <2>2 DEF DroppedUntagged
  <2>4. \A t \in Tags :
          /\ Answered(t)' = Answered(t)
          /\ Queued(t)' = IF r.tag = t THEN Queued(t) \cup {Len(jobs) + 1} ELSE Queued(t)
    BY <2>1, <2>2 DEF Queued, Answered
  <2> QED  BY <2>1, <2>3, <2>4, <1>n
<1>8. CASE \E a \in answers : Collect(a)
  <2> PICK a \in answers : Collect(a)  BY <1>8
  <2>1. /\ UNCHANGED <<jobs, current>> /\ answers' = answers \ {a}
        /\ awaiting' = awaiting \ {a.tag}
    BY DEF Collect, driver
  <2>2. \A t \in Tags :
          /\ Queued(t)' = Queued(t)
          /\ Answered(t)' = Answered(t) \ {a}
          /\ a.tag = t => a \in Answered(t)
          /\ a.tag # t => a \notin Answered(t)
    BY <2>1 DEF Queued, Answered
  <2> QED  BY <2>1, <2>2 DEF DroppedUntagged
<1> QED
  BY <1>2, <1>3, <1>4, <1>5, <1>6, <1>7, <1>8 DEF Next, Serve, Clients

(* A client's request is in slow_queue, in current_request or answered,    *)
(* never in two of them, and never answered twice: nand_ipc copies it out  *)
(* of the queue before it starts a command, nand_irq clears                *)
(* current_request with the answer, and a refusal is an answer too.        *)
THEOREM AnsweredOnce == Spec => []OneAnswer
<1>1. Init => PlaceInv
  BY NandRequestAssumption
     DEF Init, None, PlaceInv, OnePlace, Nowhere, DroppedUntagged, Queued, Answered
<1>2. Spec => []PlaceInv
  BY <1>1, NextPlaceInv, IInvHolds, PTL DEF Spec
<1>3. PlaceInv => OneAnswer
  <2> SUFFICES ASSUME PlaceInv, NEW t \in Tags
               PROVE  Cardinality(Queued(t)) + (IF current.tag = t THEN 1 ELSE 0)
                        + Cardinality(Answered(t)) = IF t \in awaiting THEN 1 ELSE 0
    BY DEF OneAnswer, Queued, Answered
  <2>1. Cardinality({}) = 0 /\ \A x : Cardinality({x}) = 1
    BY FS_EmptySet, FS_Singleton
  <2>2. OnePlace(t)
    BY DEF PlaceInv
  <2>3. CASE Nowhere(t) /\ t \notin awaiting
    BY <2>1, <2>3 DEF Nowhere
  <2>4. CASE InQueue(t) /\ t \in awaiting
    <3>1. Cardinality(Queued(t)) = 1
      BY <2>1, <2>4, Zenon DEF InQueue
    <3> QED  BY <2>1, <2>4, <3>1 DEF InQueue
  <2>5. CASE InForce(t) /\ t \in awaiting
    BY <2>1, <2>5 DEF InForce
  <2>6. CASE InOutQueue(t) /\ t \in awaiting
    <3>1. Cardinality(Answered(t)) = 1
      BY <2>1, <2>6, Zenon DEF InOutQueue
    <3> QED  BY <2>1, <2>6, <3>1 DEF InOutQueue
  <2> QED
    BY <2>2, <2>3, <2>4, <2>5, <2>6 DEF OnePlace
<1> QED  BY <1>2, <1>3, PTL

-----------------------------------------------------------------------------
(* The SD card driver.                                                     *)
(* A transfer that is under way and not begun over an unfinished command:  *)
(* the controller works on nothing else, and what says that the data has   *)
(* moved comes after the data of this request and of the card in use.      *)
Choosing == [what |-> "transfer", step |-> "SELECT_CARD"]
Moving   == [what |-> "transfer", step |-> "data"]

HwType   == hw \in {NoCmd} \cup [kind : Kinds, phase : {"cmd", "xfer"}, req : Nat]
ExecType == exec \in {NoExec} \cup [at : {"start", "cmd", "xfer", "done"}, kind : Kinds,
                                    req : Nat, error : BOOLEAN]
SdType == HwType /\ ExecType /\ requests \in Nat /\ discover \in Nat

CardInv ==
  /\ ready => inserted /\ known = present /\ present # NoCard
  /\ inserted /\ ~newCard => acked = known
  /\ job.what = "discover" => newCard /\ power
  /\ job = Moving => inserted /\ ~newCard
  /\ job = Choosing => inserted

DataInv ==
  job = Moving =>
    /\ exec.kind = "data" /\ exec.req = requests
    /\ ~stray =>
         /\ exec.at = "start" => hw = NoCmd /\ pend \subseteq {"slot"} /\ intrStatus = {}
         /\ hw # NoCmd => hw.kind = "data" /\ hw.req = requests
         /\ "xfer" \in pend \cup intrStatus => buf = Want
         /\ exec.at = "done" /\ ~exec.error => buf = Want

(* A change of cards that the driver has not begun to look into.           *)
Noticed == discover > 0 \/ "slot" \in pend
Addressed == inserted /\ known = present
SlotInv ==
  ~Noticed =>
    /\ job.what # "discover" => \/ unsound
                                \/ Addressed /\ power /\ size = present
                                \/ ~inserted /\ present = NoCard
    /\ job.what = "discover" =>
         /\ job.step \in {"SEND_CSD", "SELECT_CARD", "SET_BLOCKLEN"} => Addressed
         /\ job.step \in {"SELECT_CARD", "SET_BLOCKLEN"} => size = present

SdInv == SdType /\ CardInv /\ DataInv /\ SlotInv /\ TransferTruthful

(* The commands of a discovery follow each other in the order of Steps.    *)
LEMMA NextStep ==
  /\ After("GO_IDLE_STATE") = "SEND_IF_COND" /\ After("SEND_IF_COND") = "APP_OP_COND"
  /\ After("APP_OP_COND") = "ALL_SEND_CID" /\ After("ALL_SEND_CID") = "SEND_RELATIVE_ADDR"
  /\ After("SEND_RELATIVE_ADDR") = "SEND_CSD" /\ After("SEND_CSD") = "SELECT_CARD"
  /\ After("SELECT_CARD") = "SET_BLOCKLEN"
  <1>1. ASSUME NEW k \in 1 .. 8 PROVE (CHOOSE i \in DOMAIN Steps : Steps[i] = Steps[k]) = k
    BY DEF Steps
  <1>2. ASSUME NEW k \in 1 .. 8 PROVE After(Steps[k]) = Steps[1 + k]
    BY <1>1 DEF After
  <1>3. /\ After(Steps[1]) = Steps[2] /\ After(Steps[2]) = Steps[3] /\ After(Steps[3]) = Steps[4]
        /\ After(Steps[4]) = Steps[5] /\ After(Steps[5]) = Steps[6] /\ After(Steps[6]) = Steps[7]
        /\ After(Steps[7]) = Steps[8]
    BY <1>2
  <1> QED
    BY <1>3 DEF Steps

(* sdhc_exec_command begins with an empty intr_status.                     *)
LEMMA ExecBegins ==
  ASSUME NEW kind \in Kinds, NEW req \in Nat, Exec(kind, req)
  PROVE  /\ ExecType' /\ exec'.at = "start" /\ exec'.kind = kind /\ exec'.req = req
         /\ intrStatus' = {}
         /\ ~stray' => hw = NoCmd /\ pend = {}
  BY DEF Exec, ExecType, Cleared

LEMMA KindOfStep == ASSUME NEW step PROVE KindOf(step) \in Kinds /\ 0 \in Nat /\ "data" \in Kinds
  BY DEF KindOf, Kinds

(* The steps of a command keep what it is.                                 *)
LEMMA ExecMoves ==
  ASSUME ExecType, exec.at # "idle", NEW at \in {"cmd", "xfer"}, exec' = [exec EXCEPT !.at = at]
  PROVE  ExecType' /\ exec'.at = at /\ exec'.kind = exec.kind /\ exec'.req = exec.req
  BY DEF ExecType, NoExec

LEMMA ExecEnds ==
  ASSUME ExecType, exec.at # "idle", NEW error \in BOOLEAN, Ends(error)
  PROVE  /\ ExecType' /\ exec'.at = "done" /\ exec'.kind = exec.kind /\ exec'.req = exec.req
         /\ exec'.error = error
  <1>1. exec \in [at : {"start", "cmd", "xfer", "done"}, kind : Kinds, req : Nat, error : BOOLEAN]
    BY DEF ExecType, NoExec
  <1>2. CASE error = TRUE
    BY <1>1, <1>2 DEF Ends, ExecType
  <1>3. CASE error = FALSE
    BY <1>1, <1>3 DEF Ends, ExecType
  <1> QED
    BY <1>2, <1>3

LEMMA NoCmdIsTyped ==
  /\ hw' = NoCmd => HwType'
  /\ exec' = NoExec => ExecType'
  BY DEF HwType, ExecType

(* The controller and the command in progress are what they may be.        *)
LEMMA NextSdType ==
  ASSUME SdInv, SdNext
  PROVE  SdType'
  <1>0. SdType
    BY DEF SdInv
  <1>1. CASE StartDiscover
    BY <1>0, <1>1, ExecBegins, KindOfStep DEF SdType, HwType, ExecType, NoCmd, NoExec,
       Kinds, slotVars, StartDiscover, Do, HostReset, NewCard, Gone
  <1>2. CASE EarlyStep
    BY <1>0, <1>2, ExecBegins, KindOfStep DEF SdType, HwType, ExecType, NoCmd, NoExec,
       Kinds, slotVars, EarlyStep, Discovering, GoOn, GiveUp, Do, HostReset
  <1>3. CASE AddressStep
    BY <1>0, <1>3, ExecBegins, KindOfStep DEF SdType, HwType, ExecType, NoCmd, NoExec,
       Kinds, slotVars, AddressStep, Discovering, GoOn, GiveUp, Do, HostReset
  <1>4. CASE SizeStep
    BY <1>0, <1>4, ExecBegins, KindOfStep DEF SdType, HwType, ExecType, NoCmd, NoExec,
       Kinds, slotVars, SizeStep, Discovering, GoOn, GiveUp, Do, HostReset
  <1>5. CASE SelectStep
    BY <1>0, <1>5, ExecBegins, KindOfStep DEF SdType, HwType, ExecType, NoCmd, NoExec,
       Kinds, slotVars, SelectStep, Discovering, GoOn, Do
  <1>6. CASE LastStep
    BY <1>0, <1>6, NoCmdIsTyped DEF SdType, HwType, ExecType, NoCmd, NoExec, Kinds,
       slotVars, LastStep, Discovering, GiveUp, HostReset
  <1>7. CASE Selected
    BY <1>0, <1>7, ExecBegins, KindOfStep DEF SdType, HwType, ExecType, NoCmd, NoExec,
       Kinds, slotVars, Selected, Report, Refused
  <1>8. CASE Transferred
    BY <1>0, <1>8, NoCmdIsTyped DEF SdType, HwType, ExecType, NoCmd, NoExec, Kinds,
       slotVars, Transferred, Report
  <1>9. CASE Issue /\ UNCHANGED cardVars
    BY <1>0, <1>9, ExecMoves, ExecEnds DEF SdType, HwType, ExecType, NoCmd, NoExec,
       Kinds, slotVars, cardVars, Issue
  <1>10. CASE Inhibited /\ UNCHANGED cardVars
    BY <1>0, <1>10, ExecMoves, ExecEnds DEF SdType, HwType, ExecType, NoCmd, NoExec,
       Kinds, slotVars, cardVars, Inhibited
  <1>11. CASE WaitEnds("cmd") /\ UNCHANGED cardVars
    BY <1>0, <1>11, ExecMoves, ExecEnds DEF SdType, HwType, ExecType, NoCmd, NoExec,
       Kinds, slotVars, cardVars, WaitEnds
  <1>12. CASE WaitEnds("xfer") /\ UNCHANGED cardVars
    BY <1>0, <1>12, ExecMoves, ExecEnds DEF SdType, HwType, ExecType, NoCmd, NoExec,
       Kinds, slotVars, cardVars, WaitEnds
  <1>13. CASE WaitTimesOut /\ UNCHANGED cardVars
    BY <1>0, <1>13, ExecMoves, ExecEnds DEF SdType, HwType, ExecType, NoCmd, NoExec,
       Kinds, slotVars, cardVars, WaitTimesOut
  <1>14. CASE Acknowledge
    BY <1>0, <1>14 DEF SdType, HwType, ExecType, NoCmd, NoExec, Kinds, slotVars,
       hostVars, Acknowledge
  <1>15. CASE Transfer
    BY <1>0, <1>15, ExecBegins, KindOfStep DEF SdType, HwType, ExecType, NoCmd, NoExec,
       Kinds, slotVars, Transfer, Do, Refused
  <1>16. CASE Interrupt /\ UNCHANGED cardVars
    BY <1>0, <1>16 DEF SdType, HwType, ExecType, NoCmd, NoExec, Kinds, slotVars,
       cardVars, Interrupt, NStatus, Errors
  <1>17. CASE CardAnswers /\ UNCHANGED cardVars
    BY <1>0, <1>17 DEF SdType, HwType, ExecType, NoCmd, NoExec, Kinds, slotVars,
       cardVars, CardAnswers, Answers
  <1>18. CASE CardTransfers /\ UNCHANGED cardVars
    BY <1>0, <1>18 DEF SdType, HwType, ExecType, NoCmd, NoExec, Kinds, slotVars,
       cardVars, CardTransfers, Answers
  <1>19. CASE CardFails /\ UNCHANGED cardVars
    BY <1>0, <1>19 DEF SdType, HwType, ExecType, NoCmd, NoExec, Kinds, slotVars,
       cardVars, CardFails, Answers
  <1>20. CASE Swap /\ UNCHANGED cardVars
    BY <1>0, <1>20 DEF SdType, HwType, ExecType, NoCmd, NoExec, Kinds, slotVars,
       cardVars, Swap
  <1> QED
    BY <1>1, <1>2, <1>3, <1>4, <1>5, <1>6, <1>7, <1>8, <1>9, <1>10, <1>11, <1>12, <1>13,
       <1>14, <1>15, <1>16, <1>17, <1>18, <1>19, <1>20 DEF SdNext, Driver, Discover,
       Host, Hardware

(* A card with an address is the one in the slot, and acknowledged before  *)
(* data moves.                                                             *)
LEMMA NextCardInv ==
  ASSUME SdInv, SdNext
  PROVE  CardInv'
  <1>0. CardInv
    BY DEF SdInv
  <1>1. CASE StartDiscover
    BY <1>0, <1>1 DEF CardInv, Idle, Choosing, Moving, slotVars, StartDiscover, Do,
       HostReset, NewCard, Gone
  <1>2. CASE EarlyStep
    BY <1>0, <1>2 DEF CardInv, Idle, Choosing, Moving, slotVars, EarlyStep, Discovering,
       GoOn, GiveUp, Do, HostReset
  <1>3. CASE AddressStep
    <2>1. CASE Ok
      <3>1. ready' => present # NoCard
        BY <1>3, <2>1, Zenon DEF AddressStep
      <3>2. known' = present /\ inserted' = TRUE /\ job'.what = "discover"
            /\ UNCHANGED <<present, newCard, acked, power>>
        BY <1>3, <2>1 DEF AddressStep, GoOn, Do
      <3> QED
        BY <1>0, <1>3, <3>1, <3>2 DEF CardInv, AddressStep, Discovering, Choosing, Moving
    <2>2. CASE ~Ok
      BY <1>0, <1>3, <2>2 DEF CardInv, Idle, Choosing, Moving, slotVars, AddressStep,
         Discovering, GoOn, GiveUp, Do, HostReset
    <2> QED
      BY <2>1, <2>2
  <1>4. CASE SizeStep
    <2>1. CASE Ok
      BY <1>0, <1>4, <2>1 DEF CardInv, Idle, Choosing, Moving, slotVars, SizeStep,
         Discovering, GoOn, GiveUp, Do, HostReset
    <2>2. CASE ~Ok
      BY <1>0, <1>4, <2>2 DEF CardInv, Idle, Choosing, Moving, slotVars, SizeStep,
         Discovering, GoOn, GiveUp, Do, HostReset
    <2> QED
      BY <2>1, <2>2
  <1>5. CASE SelectStep
    BY <1>0, <1>5 DEF CardInv, Idle, Choosing, Moving, slotVars, SelectStep,
       Discovering, GoOn, Do
  <1>6. CASE LastStep
    <2>1. CASE Ok
      BY <1>0, <1>6, <2>1 DEF CardInv, Idle, Choosing, Moving, slotVars, LastStep,
         Discovering, GiveUp, HostReset
    <2>2. CASE ~Ok
      BY <1>0, <1>6, <2>2 DEF CardInv, Idle, Choosing, Moving, slotVars, LastStep,
         Discovering, GiveUp, HostReset
    <2> QED
      BY <2>1, <2>2
  <1>7. CASE Selected
    BY <1>0, <1>7 DEF CardInv, Idle, Choosing, Moving, slotVars, Selected, Report, Refused
  <1>8. CASE Transferred
    BY <1>0, <1>8 DEF CardInv, Idle, Choosing, Moving, slotVars, Transferred, Report
  <1>9. CASE Issue /\ UNCHANGED cardVars
    BY <1>0, <1>9 DEF CardInv, Idle, Choosing, Moving, slotVars, cardVars, Issue
  <1>10. CASE Inhibited /\ UNCHANGED cardVars
    BY <1>0, <1>10 DEF CardInv, Idle, Choosing, Moving, slotVars, cardVars, Inhibited, Ends
  <1>11. CASE WaitEnds("cmd") /\ UNCHANGED cardVars
    BY <1>0, <1>11 DEF CardInv, Idle, Choosing, Moving, slotVars, cardVars, WaitEnds,
       Ends, Taken
  <1>12. CASE WaitEnds("xfer") /\ UNCHANGED cardVars
    BY <1>0, <1>12 DEF CardInv, Idle, Choosing, Moving, slotVars, cardVars, WaitEnds,
       Ends, Taken
  <1>13. CASE WaitTimesOut /\ UNCHANGED cardVars
    BY <1>0, <1>13 DEF CardInv, Idle, Choosing, Moving, slotVars, cardVars,
       WaitTimesOut, Ends
  <1>14. CASE Acknowledge
    BY <1>0, <1>14 DEF CardInv, Idle, Choosing, Moving, slotVars, hostVars, Acknowledge
  <1>15. CASE Transfer
    BY <1>0, <1>15 DEF CardInv, Idle, Choosing, Moving, slotVars, Transfer, Do, Refused
  <1>16. CASE Interrupt /\ UNCHANGED cardVars
    BY <1>0, <1>16 DEF CardInv, Idle, Choosing, Moving, slotVars, cardVars, Interrupt,
       NStatus, Errors
  <1>17. CASE CardAnswers /\ UNCHANGED cardVars
    BY <1>0, <1>17 DEF CardInv, Idle, Choosing, Moving, slotVars, cardVars, CardAnswers,
       Answers
  <1>18. CASE CardTransfers /\ UNCHANGED cardVars
    BY <1>0, <1>18 DEF CardInv, Idle, Choosing, Moving, slotVars, cardVars,
       CardTransfers, Answers
  <1>19. CASE CardFails /\ UNCHANGED cardVars
    BY <1>0, <1>19 DEF CardInv, Idle, Choosing, Moving, slotVars, cardVars, CardFails,
       Answers
  <1>20. CASE Swap /\ UNCHANGED cardVars
    BY <1>0, <1>20 DEF CardInv, Idle, Choosing, Moving, slotVars, cardVars, Swap
  <1> QED
    BY <1>1, <1>2, <1>3, <1>4, <1>5, <1>6, <1>7, <1>8, <1>9, <1>10, <1>11, <1>12, <1>13,
       <1>14, <1>15, <1>16, <1>17, <1>18, <1>19, <1>20 DEF SdNext, Driver, Discover,
       Host, Hardware

(* What says that the data has moved comes after it.                       *)
LEMMA NextDataInv ==
  ASSUME SdInv, SdNext
  PROVE  DataInv'
  <1>0. SdType /\ CardInv /\ DataInv
    BY DEF SdInv
  <1>1. CASE StartDiscover
    BY <1>0, <1>1, ExecBegins, KindOfStep DEF DataInv, SdType, Want, Idle, Choosing,
       Moving, slotVars, StartDiscover, Do, HostReset, NewCard, Gone
  <1>2. CASE EarlyStep
    BY <1>0, <1>2, ExecBegins, KindOfStep DEF DataInv, SdType, Want, Idle, Choosing,
       Moving, slotVars, EarlyStep, Discovering, GoOn, GiveUp, Do, HostReset
  <1>3. CASE AddressStep
    BY <1>0, <1>3, ExecBegins, KindOfStep DEF DataInv, SdType, Want, Idle, Choosing,
       Moving, slotVars, AddressStep, Discovering, GoOn, GiveUp, Do, HostReset
  <1>4. CASE SizeStep
    BY <1>0, <1>4, ExecBegins, KindOfStep DEF DataInv, SdType, Want, Idle, Choosing,
       Moving, slotVars, SizeStep, Discovering, GoOn, GiveUp, Do, HostReset
  <1>5. CASE SelectStep
    BY <1>0, <1>5, ExecBegins, KindOfStep DEF DataInv, SdType, Want, Idle, Choosing,
       Moving, slotVars, SelectStep, Discovering, GoOn, Do
  <1>6. CASE LastStep
    BY <1>0, <1>6 DEF DataInv, SdType, Want, Idle, Choosing, Moving, slotVars, LastStep,
       Discovering, GiveUp, HostReset
  <1>7. CASE Selected
    BY <1>0, <1>7, ExecBegins, KindOfStep DEF DataInv, SdType, Want, Idle, Choosing,
       Moving, slotVars, Selected, Report, Refused
  <1>8. CASE Transferred
    BY <1>0, <1>8 DEF DataInv, SdType, Want, Idle, Choosing, Moving, slotVars,
       Transferred, Report
  <1>9. CASE Issue /\ UNCHANGED cardVars
    BY <1>0, <1>9, ExecMoves, ExecEnds DEF DataInv, SdType, Want, Idle, Choosing,
       Moving, slotVars, cardVars, Issue
  <1>10. CASE Inhibited /\ UNCHANGED cardVars
    BY <1>0, <1>10, ExecMoves, ExecEnds DEF DataInv, SdType, Want, Idle, Choosing,
       Moving, slotVars, cardVars, Inhibited, Ends
  <1>11. CASE WaitEnds("cmd") /\ UNCHANGED cardVars
    BY <1>0, <1>11, ExecMoves, ExecEnds DEF DataInv, SdType, Want, Idle, Choosing,
       Moving, slotVars, cardVars, WaitEnds, Ends, Taken
  <1>12. CASE WaitEnds("xfer") /\ UNCHANGED cardVars
    BY <1>0, <1>12, ExecMoves, ExecEnds DEF DataInv, SdType, Want, Idle, Choosing,
       Moving, slotVars, cardVars, WaitEnds, Ends, Taken
  <1>13. CASE WaitTimesOut /\ UNCHANGED cardVars
    BY <1>0, <1>13, ExecMoves, ExecEnds DEF DataInv, SdType, Want, Idle, Choosing,
       Moving, slotVars, cardVars, WaitTimesOut, Ends
  <1>14. CASE Acknowledge
    BY <1>0, <1>14 DEF DataInv, SdType, Want, Idle, Choosing, Moving, slotVars,
       hostVars, Acknowledge
  <1>15. CASE Transfer
    BY <1>0, <1>15, ExecBegins, KindOfStep DEF DataInv, SdType, Want, Idle, Choosing,
       Moving, slotVars, Transfer, Do, Refused
  <1>16. CASE Interrupt /\ UNCHANGED cardVars
    BY <1>0, <1>16 DEF DataInv, SdType, Want, Idle, Choosing, Moving, slotVars,
       cardVars, Interrupt, NStatus, Errors
  <1>17. CASE CardAnswers /\ UNCHANGED cardVars
    BY <1>0, <1>17 DEF DataInv, SdType, Want, Idle, Choosing, Moving, HwType, NoCmd,
       CardInv, NoExec, ExecType, slotVars, cardVars, CardAnswers, Answers
  <1>18. CASE CardTransfers /\ UNCHANGED cardVars
    BY <1>0, <1>18 DEF DataInv, SdType, Want, Idle, Choosing, Moving, HwType, NoCmd,
       CardInv, NoExec, ExecType, slotVars, cardVars, CardTransfers, Answers
  <1>19. CASE CardFails /\ UNCHANGED cardVars
    BY <1>0, <1>19 DEF DataInv, SdType, Want, Idle, Choosing, Moving, slotVars,
       cardVars, CardFails, Answers
  <1>20. CASE Swap /\ UNCHANGED cardVars
    BY <1>0, <1>20 DEF DataInv, SdType, Want, Idle, Choosing, Moving, slotVars,
       cardVars, Swap
  <1> QED
    BY <1>1, <1>2, <1>3, <1>4, <1>5, <1>6, <1>7, <1>8, <1>9, <1>10, <1>11, <1>12, <1>13,
       <1>14, <1>15, <1>16, <1>17, <1>18, <1>19, <1>20 DEF SdNext, Driver, Discover,
       Host, Hardware

(* A change of cards the driver has not begun to look into is still known. *)
LEMMA NextSlotInv ==
  ASSUME SdInv, SdNext
  PROVE  SlotInv'
  <1>0. SdType /\ CardInv /\ SlotInv
    BY DEF SdInv
  <1>1. CASE StartDiscover
    BY <1>0, <1>1 DEF SlotInv, Noticed, Addressed, SdType, CardInv, Idle, Choosing,
       Moving, slotVars, StartDiscover, Do, HostReset, NewCard, Gone
  <1>2. CASE EarlyStep
    BY <1>0, <1>2, NextStep DEF SlotInv, Noticed, Addressed, SdType, CardInv, Idle,
       Choosing, Moving, slotVars, EarlyStep, Discovering, GoOn, GiveUp, Do, HostReset
  <1>3. CASE AddressStep
    <2>1. CASE Ok
      BY <1>0, <1>3, <2>1, NextStep DEF SlotInv, Noticed, Addressed, SdType, CardInv,
         Idle, Choosing, Moving, slotVars, AddressStep, Discovering, GoOn, GiveUp, Do,
         HostReset
    <2>2. CASE ~Ok
      BY <1>0, <1>3, <2>2, NextStep DEF SlotInv, Noticed, Addressed, SdType, CardInv,
         Idle, Choosing, Moving, slotVars, AddressStep, Discovering, GoOn, GiveUp, Do,
         HostReset
    <2> QED
      BY <2>1, <2>2
  <1>4. CASE SizeStep
    <2>1. CASE Ok
      BY <1>0, <1>4, <2>1, NextStep DEF SlotInv, Noticed, Addressed, SdType, CardInv,
         Idle, Choosing, Moving, slotVars, SizeStep, Discovering, GoOn, GiveUp, Do,
         HostReset
    <2>2. CASE ~Ok
      BY <1>0, <1>4, <2>2, NextStep DEF SlotInv, Noticed, Addressed, SdType, CardInv,
         Idle, Choosing, Moving, slotVars, SizeStep, Discovering, GoOn, GiveUp, Do,
         HostReset
    <2> QED
      BY <2>1, <2>2
  <1>5. CASE SelectStep
    BY <1>0, <1>5, NextStep DEF SlotInv, Noticed, Addressed, SdType, CardInv, Idle,
       Choosing, Moving, slotVars, SelectStep, Discovering, GoOn, Do
  <1>6. CASE LastStep
    <2>1. CASE Ok
      BY <1>0, <1>6, <2>1 DEF SlotInv, Noticed, Addressed, SdType, CardInv, Idle,
         Choosing, Moving, slotVars, LastStep, Discovering, GiveUp, HostReset
    <2>2. CASE ~Ok
      BY <1>0, <1>6, <2>2 DEF SlotInv, Noticed, Addressed, SdType, CardInv, Idle,
         Choosing, Moving, slotVars, LastStep, Discovering, GiveUp, HostReset
    <2> QED
      BY <2>1, <2>2
  <1>7. CASE Selected
    BY <1>0, <1>7 DEF SlotInv, Noticed, Addressed, SdType, CardInv, Idle, Choosing,
       Moving, slotVars, Selected, Report, Refused
  <1>8. CASE Transferred
    BY <1>0, <1>8 DEF SlotInv, Noticed, Addressed, SdType, CardInv, Idle, Choosing,
       Moving, slotVars, Transferred, Report
  <1>9. CASE Issue /\ UNCHANGED cardVars
    BY <1>0, <1>9 DEF SlotInv, Noticed, Addressed, SdType, CardInv, Idle, Choosing,
       Moving, slotVars, cardVars, Issue
  <1>10. CASE Inhibited /\ UNCHANGED cardVars
    BY <1>0, <1>10 DEF SlotInv, Noticed, Addressed, SdType, CardInv, Idle, Choosing,
       Moving, slotVars, cardVars, Inhibited, Ends
  <1>11. CASE WaitEnds("cmd") /\ UNCHANGED cardVars
    BY <1>0, <1>11 DEF SlotInv, Noticed, Addressed, SdType, CardInv, Idle, Choosing,
       Moving, slotVars, cardVars, WaitEnds, Ends, Taken
  <1>12. CASE WaitEnds("xfer") /\ UNCHANGED cardVars
    BY <1>0, <1>12 DEF SlotInv, Noticed, Addressed, SdType, CardInv, Idle, Choosing,
       Moving, slotVars, cardVars, WaitEnds, Ends, Taken
  <1>13. CASE WaitTimesOut /\ UNCHANGED cardVars
    BY <1>0, <1>13 DEF SlotInv, Noticed, Addressed, SdType, CardInv, Idle, Choosing,
       Moving, slotVars, cardVars, WaitTimesOut, Ends
  <1>14. CASE Acknowledge
    BY <1>0, <1>14 DEF SlotInv, Noticed, Addressed, SdType, CardInv, Idle, Choosing,
       Moving, slotVars, hostVars, Acknowledge
  <1>15. CASE Transfer
    BY <1>0, <1>15 DEF SlotInv, Noticed, Addressed, SdType, CardInv, Idle, Choosing,
       Moving, slotVars, Transfer, Do, Refused
  <1>16. CASE Interrupt /\ UNCHANGED cardVars
    BY <1>0, <1>16 DEF SlotInv, Noticed, Addressed, SdType, CardInv, Idle, Choosing,
       Moving, slotVars, cardVars, Interrupt, NStatus, Errors
  <1>17. CASE CardAnswers /\ UNCHANGED cardVars
    BY <1>0, <1>17 DEF SlotInv, Noticed, Addressed, SdType, CardInv, Idle, Choosing,
       Moving, slotVars, cardVars, CardAnswers, Answers
  <1>18. CASE CardTransfers /\ UNCHANGED cardVars
    BY <1>0, <1>18 DEF SlotInv, Noticed, Addressed, SdType, CardInv, Idle, Choosing,
       Moving, slotVars, cardVars, CardTransfers, Answers
  <1>19. CASE CardFails /\ UNCHANGED cardVars
    BY <1>0, <1>19 DEF SlotInv, Noticed, Addressed, SdType, CardInv, Idle, Choosing,
       Moving, slotVars, cardVars, CardFails, Answers
  <1>20. CASE Swap /\ UNCHANGED cardVars
    BY <1>0, <1>20 DEF SlotInv, Noticed, Addressed, SdType, CardInv, Idle, Choosing,
       Moving, slotVars, cardVars, Swap
  <1> QED
    BY <1>1, <1>2, <1>3, <1>4, <1>5, <1>6, <1>7, <1>8, <1>9, <1>10, <1>11, <1>12, <1>13,
       <1>14, <1>15, <1>16, <1>17, <1>18, <1>19, <1>20 DEF SdNext, Driver, Discover,
       Host, Hardware

(* Data that is reported moved has moved.                                  *)
LEMMA NextTruthful ==
  ASSUME SdInv, SdNext
  PROVE  TransferTruthful'
  <1>0. SdType /\ DataInv /\ TransferTruthful
    BY DEF SdInv
  <1>1. CASE StartDiscover
    BY <1>0, <1>1 DEF TransferTruthful, DataInv, Moving, NoReply, Want, slotVars,
       StartDiscover, Do, HostReset, NewCard, Gone
  <1>2. CASE EarlyStep
    BY <1>0, <1>2 DEF TransferTruthful, DataInv, Moving, NoReply, Want, slotVars,
       EarlyStep, Discovering, GoOn, GiveUp, Do, HostReset
  <1>3. CASE AddressStep
    BY <1>0, <1>3 DEF TransferTruthful, DataInv, Moving, NoReply, Want, slotVars,
       AddressStep, Discovering, GoOn, GiveUp, Do, HostReset
  <1>4. CASE SizeStep
    BY <1>0, <1>4 DEF TransferTruthful, DataInv, Moving, NoReply, Want, slotVars,
       SizeStep, Discovering, GoOn, GiveUp, Do, HostReset
  <1>5. CASE SelectStep
    BY <1>0, <1>5 DEF TransferTruthful, DataInv, Moving, NoReply, Want, slotVars,
       SelectStep, Discovering, GoOn, Do
  <1>6. CASE LastStep
    BY <1>0, <1>6 DEF TransferTruthful, DataInv, Moving, NoReply, Want, slotVars,
       LastStep, Discovering, GiveUp, HostReset
  <1>7. CASE Selected
    BY <1>0, <1>7 DEF TransferTruthful, DataInv, Moving, NoReply, Want, slotVars,
       Selected, Report, Refused
  <1>8. CASE Transferred
    <2>1. CASE Ok
      <3>1. job = Moving /\ exec.at = "done" /\ ~exec.error
        BY <1>8, <2>1 DEF Transferred, Moving, Ok
      <3>2. answer'.got = buf /\ answer'.want = Want /\ answer'.stray = stray
        BY <1>8 DEF Transferred, Report
      <3>3. stray \/ buf = Want
        BY <1>0, <3>1 DEF DataInv
      <3> QED
        BY <3>2, <3>3, Zenon DEF TransferTruthful
    <2>2. CASE ~Ok
      BY <1>0, <1>8, <2>2 DEF TransferTruthful, DataInv, Moving, NoReply, Want,
         slotVars, Transferred, Report
    <2> QED
      BY <2>1, <2>2
  <1>9. CASE Issue /\ UNCHANGED cardVars
    BY <1>0, <1>9 DEF TransferTruthful, DataInv, Moving, NoReply, Want, slotVars,
       cardVars, Issue
  <1>10. CASE Inhibited /\ UNCHANGED cardVars
    BY <1>0, <1>10 DEF TransferTruthful, DataInv, Moving, NoReply, Want, slotVars,
       cardVars, Inhibited, Ends
  <1>11. CASE WaitEnds("cmd") /\ UNCHANGED cardVars
    BY <1>0, <1>11 DEF TransferTruthful, DataInv, Moving, NoReply, Want, slotVars,
       cardVars, WaitEnds, Ends, Taken
  <1>12. CASE WaitEnds("xfer") /\ UNCHANGED cardVars
    BY <1>0, <1>12 DEF TransferTruthful, DataInv, Moving, NoReply, Want, slotVars,
       cardVars, WaitEnds, Ends, Taken
  <1>13. CASE WaitTimesOut /\ UNCHANGED cardVars
    BY <1>0, <1>13 DEF TransferTruthful, DataInv, Moving, NoReply, Want, slotVars,
       cardVars, WaitTimesOut, Ends
  <1>14. CASE Acknowledge
    BY <1>0, <1>14 DEF TransferTruthful, DataInv, Moving, NoReply, Want, slotVars,
       hostVars, Acknowledge
  <1>15. CASE Transfer
    BY <1>0, <1>15 DEF TransferTruthful, DataInv, Moving, NoReply, Want, slotVars,
       Transfer, Do, Refused
  <1>16. CASE Interrupt /\ UNCHANGED cardVars
    BY <1>0, <1>16 DEF TransferTruthful, DataInv, Moving, NoReply, Want, slotVars,
       cardVars, Interrupt, NStatus, Errors
  <1>17. CASE CardAnswers /\ UNCHANGED cardVars
    BY <1>0, <1>17 DEF TransferTruthful, DataInv, Moving, NoReply, Want, slotVars,
       cardVars, CardAnswers, Answers
  <1>18. CASE CardTransfers /\ UNCHANGED cardVars
    BY <1>0, <1>18 DEF TransferTruthful, DataInv, Moving, NoReply, Want, slotVars,
       cardVars, CardTransfers, Answers
  <1>19. CASE CardFails /\ UNCHANGED cardVars
    BY <1>0, <1>19 DEF TransferTruthful, DataInv, Moving, NoReply, Want, slotVars,
       cardVars, CardFails, Answers
  <1>20. CASE Swap /\ UNCHANGED cardVars
    BY <1>0, <1>20 DEF TransferTruthful, DataInv, Moving, NoReply, Want, slotVars,
       cardVars, Swap
  <1> QED
    BY <1>1, <1>2, <1>3, <1>4, <1>5, <1>6, <1>7, <1>8, <1>9, <1>10, <1>11, <1>12, <1>13,
       <1>14, <1>15, <1>16, <1>17, <1>18, <1>19, <1>20 DEF SdNext, Driver, Discover,
       Host, Hardware

LEMMA SdInitInv == SdInit => SdInv
  BY DEF SdInit, HostInit, SdInv, SdType, HwType, ExecType, CardInv, DataInv, SlotInv,
     Noticed,
     TransferTruthful, Idle, Choosing, Moving, NoReply

LEMMA SdStepInv == SdInv /\ [SdNext]_sdVars => SdInv'
  <1>1. ASSUME SdInv, SdNext PROVE SdInv'
    BY <1>1, NextSdType, NextCardInv, NextDataInv, NextSlotInv, NextTruthful DEF SdInv
  <1>2. ASSUME SdInv, UNCHANGED sdVars PROVE SdInv'
    <2> USE <1>2 DEF SdInv, sdVars, hostVars, cardVars
    <2>1. SdType' /\ CardInv'
      BY DEF SdType, HwType, ExecType, CardInv
    <2>2. DataInv' /\ TransferTruthful'
      BY DEF DataInv, Want, TransferTruthful
    <2>3. SlotInv'
      BY DEF SlotInv, Noticed, Addressed
    <2> QED
      BY <2>1, <2>2, <2>3
  <1> QED
    BY <1>1, <1>2

THEOREM SdInvHolds == SdSpec => []SdInv
  BY SdInitInv, SdStepInv, PTL DEF SdSpec

(* A transfer of the SD driver that is reported done moved this request's  *)
(* data, and of the card the client acknowledged, unless it was begun      *)
(* while the controller still worked on a command that had timed out.      *)
THEOREM TransfersAreTruthful == SdSpec => []TransferTruthful
  <1>1. SdInv => TransferTruthful
    BY DEF SdInv
  <1> QED
    BY <1>1, SdInvHolds, PTL

(* A card put in, taken out or changed at any point of a discovery or a    *)
(* transfer is in the end what the driver believes in, or it is known that *)
(* the discovery failed.                                                   *)
THEOREM SwapsAreNoticed == SdSpec => []SwapNoticed
  <1>1. SdInv => SwapNoticed
    BY DEF SdInv, SdType, SlotInv, Noticed, Addressed, SwapNoticed, Settled, Idle
  <1> QED
    BY <1>1, SdInvHolds, PTL

=============================================================================
