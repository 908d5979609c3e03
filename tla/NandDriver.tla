----------------------------- MODULE NandDriver -----------------------------
(***************************************************************************)
(* The NAND driver of mini (mini-tree-mod/nand.c).                         *)
(*                                                                         *)
(* It is used in two ways, one after the other.  While mini boots, boot2.c *)
(* reads pages itself and sleeps in nand_wait until nand_irq has set       *)
(* irq_flag.  Afterwards nand_ipc serves requests that arrive through      *)
(* slow_queue: it starts a command, returns, and nand_irq answers when the *)
(* controller is done.  There is one current_request; a request that       *)
(* arrives meanwhile is refused with -1.                                   *)
(*                                                                         *)
(* An operation stands for the requests the driver treats the same way:    *)
(* "status" is GETID and GETSTATUS, "unknown" any number without a case.   *)
(***************************************************************************)
EXTENDS Integers, Sequences, FiniteSets

CONSTANTS
  MaxPage, MinPage, BlockPages,  \* NAND_MAX_PAGE, NAND_MIN_PAGE, BLOCK_SIZE
  Data,         \* what a client may write to a page
  Erased,       \* the content of an erased page
  Mixed,        \* the content of a page programmed twice without an erase
  Tags, NoTag,  \* tags of requests that expect an answer, and of the others
  Ops,          \* the operations clients request
  WritePages,   \* the pages clients ask to write or to erase
  BootReads,    \* how many pages the boot code reads
  MaxJobs       \* bound: NAND requests in slow_queue

Pages  == 0 .. MaxPage - 1
AllOps == {"reset", "status", "read", "write", "erase", "unknown"}

ASSUME PageAssumption ==
  /\ BlockPages \in Nat \ {0} /\ MinPage \in Nat /\ MaxPage \in Nat \ {0}
  /\ MinPage % BlockPages = 0 /\ MaxPage % BlockPages = 0
  /\ WritePages \subseteq Nat

ASSUME NandRequestAssumption ==
  /\ Ops \subseteq AllOps /\ NoTag \notin Tags /\ BootReads \in Nat /\ MaxJobs \in Nat

VARIABLES
  flash,     \* the content of the chip, page by page
  current,   \* current_request
  ipc_data,  \* the page buffer: its content and the bits wrong in it
  irq_flag,
  command,   \* what the controller is working on
  irq,       \* the controller's interrupt is pending
  nandError, \* the controller failed to carry out the command it worked on last
  main,      \* where the main loop is: booting, idle, in nand_ipc
  bootLeft,  \* pages the boot code has yet to read
  jobs,      \* NAND requests in slow_queue
  answers,   \* answers in out_queue
  awaiting   \* tags of the requests without an answer

driver == <<current, ipc_data, irq_flag>>
chip   == <<command, irq, nandError>>
client == <<jobs, answers, awaiting>>
vars   == <<flash, driver, chip, main, bootLeft, client>>

-----------------------------------------------------------------------------
Contents == Data \cup {Erased, Mixed}

Request == [op : AllOps, page : Nat, data : Data, tag : Tags \cup {NoTag}]
None    == [op |-> "none", page |-> 0, data |-> Erased, tag |-> NoTag]

(* The read of a page for the boot code, which no request asked for.       *)
BootCommand == [None EXCEPT !.op = "read"]

Answer == [op : AllOps, page : Nat, data : Contents, tag : Tags \cup {NoTag},
           err : -1 .. 1]

Reply(r, err, data) ==
  [op |-> r.op, page |-> r.page, data |-> data, tag |-> r.tag, err |-> err]

Block(page) == {p \in Pages : p \div BlockPages = page \div BlockPages}

(* The request process_slow hands to nand_ipc.                             *)
Job == Head(jobs)

ForbiddenOffByOne(page) == page + 1 < MinPage \/ page >= MaxPage

(* "a safety check to prevent you from accidentally wiping out boot1 or    *)
(* boot2": no command is issued for these pages.                           *)
Forbidden(page) == page < MinPage \/ page >= MaxPage

(* nand_correct: NAND_ECC_OK, NAND_ECC_CORRECTED or NAND_ECC_UNCORRECTABLE *)
(* for 0, 1 or more wrong bits in a sector of the page.                    *)
nand_correct(bits) == CASE bits = 0 -> 0 [] bits = 1 -> 1 [] OTHER -> -1

(* The data as read: one wrong bit is repaired in place.                   *)
Repaired(buffer) == IF buffer.bits = 2 THEN Mixed ELSE buffer.data

(* Interrupts are off in nand_wait, between irq_kill and irq_restore.      *)
IrqOff == main = "bootSleep"

Init ==
  /\ flash = [p \in Pages |-> Erased]
  /\ current = None
  /\ ipc_data = [data |-> Erased, bits |-> 0]
  /\ irq_flag = FALSE
  /\ command = None /\ irq = FALSE /\ nandError = FALSE
  /\ main = "bootRead" /\ bootLeft = BootReads
  /\ jobs = <<>> /\ answers = {} /\ awaiting = {}

-----------------------------------------------------------------------------
(* The boot code, boot2.c, reading pages one after the other.              *)
BootStep(from, to) ==
  /\ main = from /\ main' = to
  /\ UNCHANGED <<flash, current, ipc_data, client>>

(* nand_read_page: irq_flag := 0 and the command starts.                   *)
BootRead ==
  /\ BootStep("bootRead", IF bootLeft = 0 THEN "idle" ELSE "bootTest")
  /\ IF bootLeft = 0 THEN UNCHANGED <<irq_flag, command>>
     ELSE irq_flag' = FALSE /\ command' = BootCommand
  /\ UNCHANGED <<irq, nandError, bootLeft>>

(* nand_wait: while(!irq_flag), before irq_kill.                           *)
BootTest ==
  /\ BootStep("bootTest", IF irq_flag THEN "bootRead" ELSE "bootKill")
  /\ bootLeft' = IF irq_flag THEN bootLeft - 1 ELSE bootLeft
  /\ UNCHANGED <<irq_flag, chip>>

(* irq_kill, and the flag is tested once more.                             *)
BootRecheck ==
  /\ BootStep("bootKill", IF irq_flag THEN "bootTest" ELSE "bootSleep")
  /\ UNCHANGED <<irq_flag, chip, bootLeft>>

(* irq_wait returns when an interrupt is pending; irq_restore.             *)
BootWake ==
  /\ irq /\ BootStep("bootSleep", "bootTest")
  /\ UNCHANGED <<irq_flag, chip, bootLeft>>

-----------------------------------------------------------------------------
(* The main loop takes a NAND request and calls nand_ipc.                  *)
Take ==
  /\ main = "idle" /\ jobs # <<>>
  /\ UNCHANGED <<flash, ipc_data, irq_flag, chip, bootLeft>>

(* Mutant: a finished command makes room before its interrupt is taken.    *)
BusyTooShort == command # None

Busy == current # None

(* Mutant: a request that comes too early is dropped.                      *)
RefuseSilently ==
  /\ Take /\ Busy
  /\ jobs' = Tail(jobs) /\ UNCHANGED <<main, current, answers, awaiting>>

(* A request is in progress: this one will be refused.                     *)
Refuse ==
  /\ Take /\ Busy
  /\ main' = "refuse" /\ UNCHANGED <<current, client>>

(* RESET is answered at once; an unknown number is dropped.                *)
Immediate ==
  /\ Take /\ ~Busy /\ Job.op \in {"reset", "unknown"}
  /\ jobs' = Tail(jobs)
  /\ answers' = IF Job.op = "reset" THEN answers \cup {Reply(Job, 0, Erased)}
                                    ELSE answers
  /\ UNCHANGED <<main, current, awaiting>>

(* current_request = *req; the command follows.                            *)
Accept ==
  /\ Take /\ ~Busy /\ Job.op \notin {"reset", "unknown"}
  /\ current' = Job /\ jobs' = Tail(jobs) /\ main' = "start"
  /\ UNCHANGED <<answers, awaiting>>

PostRefusal ==
  /\ main = "refuse" /\ main' = "idle"
  /\ jobs' = Tail(jobs)
  /\ answers' = answers \cup {Reply(Job, -1, Erased)}
  /\ UNCHANGED <<flash, driver, chip, bootLeft, awaiting>>

(* nand_write_page and nand_erase_block return before the command for a    *)
(* forbidden page, and leave current_request as it is.                     *)
Start ==
  /\ main = "start" /\ main' = "idle"
  /\ irq_flag' = FALSE
  /\ ipc_data' = IF current.op = "write" THEN [data |-> current.data, bits |-> 0]
                                         ELSE ipc_data
  /\ command' = IF current.op \in {"write", "erase"} /\ Forbidden(current.page)
                  THEN command ELSE current
  /\ UNCHANGED <<flash, current, irq, nandError, bootLeft, client>>

-----------------------------------------------------------------------------
(* The controller, outside the repository: it carries out the command,     *)
(* or reports an error and leaves chip and buffer alone, and interrupts.   *)
Controller ==
  /\ command # None
  /\ command' = None /\ irq' = TRUE
  /\ \/ /\ nandError' = FALSE
        /\ flash' = CASE command.op = "write" ->
                           [flash EXCEPT ![command.page] =
                              IF @ = Erased THEN ipc_data.data ELSE Mixed]
                      [] command.op = "erase" ->
                           [p \in Pages |-> IF p \in Block(command.page)
                                              THEN Erased ELSE flash[p]]
                      [] OTHER -> flash
        /\ IF command.op = "read"
             THEN \E bits \in 0 .. 2 :
                    ipc_data' = [data |-> flash[command.page], bits |-> bits]
             ELSE UNCHANGED ipc_data
     \/ /\ command.op \in {"read", "write", "erase"} /\ nandError' = TRUE
        /\ UNCHANGED <<flash, ipc_data>>
  /\ UNCHANGED <<current, irq_flag, main, bootLeft, client>>

(* What nand_irq answers when it finds NAND_ERROR set or not: -1 on an     *)
(* error, but for a READ the result of nand_correct takes its place.       *)
IrqResult(error) ==
  CASE current.op = "read" -> nand_correct(ipc_data.bits)
    [] OTHER -> IF error THEN -1 ELSE 0

(* What it copies to the client: the page, for a READ.                     *)
IrqData == IF current.op = "read" THEN Repaired(ipc_data) ELSE current.data

(* Mutant: current_request stays in force after its answer.                *)
IrqKeepsRequest ==
  /\ irq /\ irq' = FALSE /\ ~IrqOff /\ irq_flag' = TRUE
  /\ \E error \in BOOLEAN :
       answers' = IF current = None THEN answers
                  ELSE answers \cup {Reply(current, IrqResult(error), IrqData)}
  /\ UNCHANGED <<flash, current, ipc_data, command, nandError, main, bootLeft, jobs, awaiting>>

(* irq_handler and nand_irq.  The handler writes 0x7fffffff to NAND_CMD    *)
(* before nand_irq looks for NAND_ERROR in it, so whether it finds the     *)
(* error of the command, none or one that was not there is up to the       *)
(* controller.                                                             *)
NandIrq ==
  /\ irq /\ irq' = FALSE /\ ~IrqOff
  /\ irq_flag' = TRUE
  /\ \E error \in BOOLEAN :
       answers' = IF current = None THEN answers
                  ELSE answers \cup {Reply(current, IrqResult(error), IrqData)}
  /\ current' = None
  /\ ipc_data' = IF current.op = "read" /\ ipc_data.bits = 1
                   THEN [ipc_data EXCEPT !.bits = 0] ELSE ipc_data
  /\ UNCHANGED <<flash, command, nandError, main, bootLeft, jobs, awaiting>>

-----------------------------------------------------------------------------
(* Clients, outside the repository: they keep to pages that exist when     *)
(* they read, and wait for an answer before they use its tag again.        *)
Send(r) ==
  /\ Len(jobs) < MaxJobs
  /\ IF r.op = "unknown" THEN r.tag = NoTag ELSE r.tag \in Tags \ awaiting
  /\ r.op \in {"write", "erase"} => r.page \in WritePages
  /\ r.op = "read" => r.page \in Pages
  /\ jobs' = Append(jobs, r)
  /\ awaiting' = awaiting \cup ({r.tag} \ {NoTag})
  /\ UNCHANGED <<flash, driver, chip, main, bootLeft, answers>>

Collect(a) ==
  /\ answers' = answers \ {a}
  /\ awaiting' = awaiting \ {a.tag}
  /\ UNCHANGED <<flash, driver, chip, main, bootLeft, jobs>>

Boot == BootRead \/ BootTest \/ BootRecheck \/ BootWake
Serve == Refuse \/ Immediate \/ Accept \/ PostRefusal \/ Start

Requests ==
  {r \in [op : Ops, page : Pages \cup WritePages, data : Data, tag : Tags \cup {NoTag}] :
     /\ r.op \in {"reset", "status", "unknown"} => r.page = 0
     /\ r.op # "write" => r.data = CHOOSE d \in Data : TRUE}

Clients == (\E r \in Requests : Send(r)) \/ (\E a \in answers : Collect(a))

Next == Boot \/ Serve \/ Controller \/ NandIrq \/ Clients

(* The main loop runs on, the controller finishes what it started and the  *)
(* CPU takes the interrupt, which the boot code masks only for a moment.   *)
Fairness ==
  /\ WF_vars(Boot) /\ WF_vars(Serve) /\ WF_vars(Controller) /\ SF_vars(NandIrq)

Spec == Init /\ [][Next]_vars

FairSpec == Spec /\ Fairness

-----------------------------------------------------------------------------
TypeOK ==
  /\ flash \in [Pages -> Contents]
  /\ current \in Request \cup {None}
  /\ ipc_data \in [data : Contents, bits : 0 .. 2]
  /\ irq_flag \in BOOLEAN /\ irq \in BOOLEAN /\ nandError \in BOOLEAN
  /\ command \in Request \cup {None, BootCommand}
  /\ main \in {"bootRead", "bootTest", "bootKill", "bootSleep", "idle",
               "start", "refuse"}
  /\ bootLeft \in 0 .. BootReads
  /\ jobs \in Seq(Request)
  /\ answers \in SUBSET Answer
  /\ awaiting \in SUBSET Tags

(* Whatever clients ask for, no page below NAND_MIN_PAGE ever changes, an  *)
(* erase of a whole block included (nand_write_page, nand_erase_block).    *)
BootAreaIntact ==
  [][\A p \in Pages : p < MinPage => flash'[p] = flash[p]]_vars

(* What an answer says of the chip.                                        *)
AnswerTrue(a) ==
  /\ a.op = "read" /\ a.err >= 0 => a.data = flash[a.page]
  /\ a.op = "write" /\ a.err = 0 => flash[a.page] \in {a.data, Mixed}
  /\ a.op = "erase" /\ a.err = 0 => \A p \in Block(a.page) : flash[p] = Erased

AnswersNew == \A a \in answers' \ answers : nandError \/ AnswerTrue(a)

(* An answer tells the truth about the chip: READ without an error has the *)
(* content of its page, WRITE and ERASE without an error took effect.  The *)
(* driver keeps one page buffer, so this is where a second command started *)
(* too early, or the result of one command reported for another, would     *)
(* show.  Excused is the answer to a command the controller failed in: the *)
(* error of a READ is lost to nand_correct (nand.c:88), and that of any    *)
(* command may be lost to the write of NAND_CMD in irq.c:66.               *)
AnswerTruthful == [][AnswersNew]_vars

(* A request is in exactly one place until its answer is collected: in     *)
(* slow_queue, in current_request or answered, and answered once.          *)
OneAnswer ==
  \A t \in Tags :
    Cardinality({k \in DOMAIN jobs : jobs[k].tag = t})
      + (IF current.tag = t THEN 1 ELSE 0)
      + Cardinality({a \in answers : a.tag = t})
        = IF t \in awaiting THEN 1 ELSE 0

(* No more than one command at a time, and only for current_request: the   *)
(* buffer the controller works on belongs to the request in progress.      *)
CommandIsCurrent ==
  main \in {"idle", "start", "refuse"} =>
    /\ command # None => command = current /\ ~irq
    /\ irq => current # None
    /\ main = "start" => command = None /\ ~irq

(* nand_ipc refuses a request with "previous IPC request is not done yet": *)
(* when it does, the controller is working on the previous request, or has *)
(* finished it and the interrupt is about to answer.                       *)
RefusedOnlyWhileBusy ==
  (Busy /\ main = "idle") => command # None \/ irq

(* The boot code never sleeps on a page that was read already.             *)
NeverSleepsOnPage ==
  main = "bootSleep" => ~irq_flag /\ (command # None \/ irq)

ForbiddenStarted ==
  main = "start" /\ current.op \in {"write", "erase"} /\ Forbidden(current.page)

(* Every request is answered, as long as clients keep to the pages they    *)
(* may write.                                                              *)
AllAnswered ==
  []~ForbiddenStarted => \A t \in Tags : t \in awaiting ~> \E a \in answers : a.tag = t
=============================================================================
