------------------------------ MODULE UsbDisk -------------------------------
(***************************************************************************)
(* The USB disk under the file system of the USB build (fs-usb/diskio.c,   *)
(* usbstorage.c, usb.c, ehci.c): the disk is mounted once, then sectors    *)
(* are read and written.  A SCSI command is a command block, the data and  *)
(* a status block, each a bulk message; when one fails the device is reset *)
(* and the command tried again.  The device and the wire are external: a   *)
(* device that follows the bulk-only protocol, may refuse a command, move  *)
(* less than asked, halt an endpoint or fall silent.                       *)
(*                                                                         *)
(* ehci.c:330 notes a failed message through a null pointer, so its caller *)
(* sees the bytes that moved and no error; only silence is one.  A packet  *)
(* is one sector, or the whole of a short answer; its toggle bit tells a   *)
(* new packet from a repeated one.                                         *)
(***************************************************************************)
EXTENDS Naturals, FiniteSets

CONSTANTS
  Wrap,         \* sectors in 64 KiB, where the length of a message wraps
  Cycles,       \* times a command is tried (4)
  MaxFaults,    \* bound: what goes wrong on the wire or in the device
  MaxRequests   \* bound: reads and writes

ASSUME UsbDiskAssumption ==
  Wrap \in Nat \ {0} /\ Cycles \in Nat \ {0} /\ MaxFaults \in Nat /\ MaxRequests \in Nat

VARIABLES
  job,        \* what the command is for: a step of the mounting, a transfer
  pc,         \* where __cycle is
  op,         \* the command: its direction and its sectors
  left,       \* len: what is still to move
  tries,
  reported,   \* the status byte of the last status block
  moved,      \* read: which sector lies at each place of the buffer; write: the reverse
  mounted, tag, toggles,      \* __mounted, dev->tag, dev->toggles
  device, dToggles, halted,   \* the device
  faults, requests,
  answer,     \* the last transfer: its result and what there is to know of it
  missed,     \* a reset the device did not carry out
  silence, skewed   \* the device fell silent; a reset met a toggle that was not 0

command  == <<op, moved>>
driver   == <<job, mounted, requests, answer>>
wire     == <<toggles, device, dToggles, halted>>
history  == <<missed, silence, skewed>>
usbVars  == <<command, pc, left, tries, reported, driver, tag, wire, faults, history>>

Ends == {"in", "out"}
Idle == [phase |-> "idle", want |-> 0, pos |-> 0, tag |-> 0, status |-> 0]
NoAnswer == [ok |-> FALSE, right |-> FALSE, status |-> 0, short |-> FALSE]
Fresh == [e \in Ends |-> 0]

UsbInit ==
  /\ job = "boot" /\ pc = "end" /\ op = [write |-> FALSE, n |-> 0] /\ left = 0 /\ tries = 0
  /\ reported = 0 /\ moved = <<>>
  /\ mounted = FALSE /\ tag = 1 /\ toggles = Fresh
  /\ device = Idle /\ dToggles = Fresh /\ halted = {}
  /\ faults = 0 /\ requests = 0 /\ answer = NoAnswer
  /\ missed = FALSE /\ silence = FALSE /\ skewed = FALSE

-----------------------------------------------------------------------------
Fault   == faults < MaxFaults /\ faults' = faults + 1
NoFault == UNCHANGED faults

Agree(e) == toggles[e] = dToggles[e]
Flip(t, e, k) == [t EXCEPT ![e] = (@ + k) % 2]

(* The controller hands the toggle back and ehci_do_urb keeps it; both     *)
(* ends count k packets.                                                   *)
NotKept(e, k) == toggles
Kept(e, k)    == Flip(toggles, e, k)
Both(e, k) == toggles' = Kept(e, k) /\ dToggles' = Flip(dToggles, e, k)

(* Nothing comes for a second.  The device or the wire may break down, or  *)
(* the device has nothing to say.  Among the data the device is reset      *)
(* before the command is given up.                                         *)
TimesOut   == pc' = IF pc = "data" THEN "leave" ELSE "silent"
Silence(e) ==
  /\ TimesOut /\ Fault /\ silence' = TRUE
  /\ UNCHANGED <<wire, left, reported, moved, tag>>
Stall(e) ==
  /\ pc' = "reset" /\ (IF e \in halted THEN NoFault ELSE Fault)
  /\ halted' = halted \cup {e}
  /\ UNCHANGED <<toggles, device, dToggles, left, reported, moved, tag, silence>>

Same == UNCHANGED <<driver, op, tries, missed, skewed>>

-----------------------------------------------------------------------------
(* __send_cbw.  A command that asks for less than its block says, because  *)
(* it is a later try, is a phase error to the device.                      *)
Begun(status) == [phase |-> IF left > 0 THEN "data" ELSE "status", want |-> left, pos |-> 0,
                  tag |-> tag, status |-> status]

SendCbw ==
  /\ pc = "cbw" /\ Same
  /\ \/ Stall("out")
     \/ Silence("out")
     \/ /\ "out" \notin halted
        /\ UNCHANGED <<halted, left, reported, moved, tag, silence>>
        /\ pc' = IF left > 0 THEN "data" ELSE "csw"
        /\ \/ /\ ~Agree("out") /\ NoFault          \* taken for a repetition
              /\ toggles' = Kept("out", 1)
              /\ UNCHANGED <<device, dToggles>>
           \/ /\ Agree("out") /\ device.phase = "idle" /\ Both("out", 1) /\ NoFault
              /\ device' = Begun(IF left = op.n THEN 0 ELSE 2)
           \/ /\ Agree("out") /\ device.phase = "idle" /\ Both("out", 1) /\ Fault
              /\ left = 0 /\ device' = Begun(1)
           \/ /\ Agree("out") /\ device.phase # "idle" /\ Both("out", 1) /\ NoFault
              /\ device' = [device EXCEPT !.phase = "lost"]

(* What the device makes of the command once p sectors have moved: it is   *)
(* done or goes on; or it has had enough, with a bad status or just with   *)
(* fewer sectors.                                                          *)
GoesOn(p) ==
  /\ NoFault
  /\ device' = [device EXCEPT !.pos = p, !.phase = IF p = device.want THEN "status" ELSE @]
Quits(p) ==
  /\ Fault
  /\ \E s \in {0, 1} : device' =
       [device EXCEPT !.pos = p, !.phase = "status", !.status = IF @ = 2 THEN 2 ELSE s]

(* One message carries what is left, modulo 64 KiB.                        *)
Carried == left % Wrap
Here    == op.n - left

(* Every sector the host sends must go, or the command fails.              *)
Accepted(k) == FALSE
Refused(k)  == k # left

DataOut ==
  /\ pc = "data" /\ op.write /\ Same
  /\ \/ Stall("out")
     \/ Silence("out")
     \/ \E k \in 0 .. Carried :
          /\ "out" \notin halted /\ Agree("out") /\ device.phase = "data"
          /\ Both("out", k)
          /\ (k = Carried /\ GoesOn(device.pos + k)) \/ Quits(device.pos + k)
          /\ halted' = IF k < Carried THEN halted \cup {"out"} ELSE halted
          /\ moved' = [i \in DOMAIN moved |->
               IF i > device.pos /\ i <= device.pos + k THEN Here + i - device.pos ELSE moved[i]]
          /\ IF Refused(k) THEN pc' = "reset" /\ UNCHANGED left ELSE pc' = "csw" /\ left' = 0
          /\ UNCHANGED <<reported, tag, silence>>
     \/ /\ "out" \notin halted /\ device.phase # "data" /\ NoFault
        /\ device' = [device EXCEPT !.phase = "lost"] /\ halted' = Ends
        /\ toggles' = Kept("out", Carried)
        /\ IF Refused(Carried) THEN pc' = "reset" /\ UNCHANGED left ELSE pc' = "csw" /\ left' = 0
        /\ UNCHANGED <<dToggles, reported, moved, tag, silence>>

(* However much comes, the status is read next.                            *)
DataIn ==
  /\ pc = "data" /\ ~op.write /\ Same /\ UNCHANGED <<reported, tag>>
  /\ \/ Silence("in")
     \/ /\ "in" \in halted /\ pc' = "csw" /\ NoFault
        /\ UNCHANGED <<wire, left, moved, silence>>
     \/ /\ "in" \notin halted /\ device.phase = "idle" /\ NoFault /\ TimesOut
        /\ UNCHANGED <<wire, left, moved, silence>>
     \/ \E k \in 0 .. Carried :
          /\ "in" \notin halted /\ (Agree("in") \/ Carried = 0) /\ device.phase = "data"
          /\ k <= device.want - device.pos /\ Both("in", k)
          /\ moved' = [i \in DOMAIN moved |->
               IF i > Here /\ i <= Here + k THEN device.pos + i - Here ELSE moved[i]]
          /\ left' = left - k /\ UNCHANGED silence
          /\ \/ /\ k = Carried \/ k = device.want - device.pos
                /\ GoesOn(device.pos + k) /\ UNCHANGED halted
                /\ pc' = IF k = Carried THEN "csw" ELSE "data"
             \/ /\ Quits(device.pos + k) /\ pc' = "csw"
                /\ halted' = IF k < Carried THEN halted \cup {"in"} ELSE halted
     \/ /\ "in" \notin halted /\ ~Agree("in") /\ device.phase = "data" /\ Carried > 0
        /\ dToggles' = Flip(dToggles, "in", 1) /\ GoesOn(device.pos + 1)  \* a sector is dropped
        /\ UNCHANGED <<toggles, halted, left, moved, pc, silence>>
     \/ /\ "in" \notin halted /\ device.phase \in {"status", "lost"} /\ NoFault
        /\ device' = [device EXCEPT !.phase = IF @ = "status" THEN "idle" ELSE @]
        /\ IF Agree("in")                          \* the status block among the data
           THEN Both("in", 1) /\ pc' = "csw"
           ELSE dToggles' = Flip(dToggles, "in", 1) /\ UNCHANGED toggles /\ TimesOut
        /\ UNCHANGED <<halted, left, moved, silence>>

(* __read_csw: the tag is counted on when the block has it.                *)
ReadCsw ==
  /\ pc = "csw" /\ Same /\ UNCHANGED <<left, moved>>
  /\ \/ Stall("in")
     \/ Silence("in")
     \/ /\ "in" \notin halted /\ NoFault /\ UNCHANGED <<halted, silence>>
        /\ \/ /\ device.phase = "idle" /\ TimesOut
              /\ UNCHANGED <<toggles, device, dToggles, reported, tag>>
           \/ /\ device.phase \in {"data", "lost"} /\ pc' = "reset"
              /\ UNCHANGED <<toggles, device, dToggles, reported, tag>>
           \/ /\ device.phase = "status" /\ ~Agree("in") /\ TimesOut
              /\ device' = Idle /\ dToggles' = Flip(dToggles, "in", 1)
              /\ UNCHANGED <<toggles, reported, tag>>
           \/ /\ device.phase = "status" /\ Agree("in") /\ Both("in", 1)
              /\ device' = Idle /\ reported' = device.status
              /\ IF device.tag = tag THEN tag' = tag + 1 /\ pc' = "done"
                                     ELSE pc' = "reset" /\ UNCHANGED tag

(* __usbstorage_reset: the device starts anew and its toggles with it, the *)
(* host's stay.  In the loop, once more after the last try, and before the *)
(* command is left for a silence among its data.                           *)
Uncounted == tries
Counted   == tries + 1

Cleared ==
  /\ device' = Idle /\ halted' = {} /\ dToggles' = Fresh /\ missed' = FALSE
  /\ skewed' = (skewed \/ toggles # Fresh)
NotCleared ==
  /\ Fault /\ missed' = TRUE /\ UNCHANGED <<device, halted, dToggles, skewed>>

Reset ==
  /\ pc \in {"reset", "last", "leave"}
  /\ \/ /\ (Cleared /\ NoFault) \/ NotCleared
        /\ UNCHANGED silence
        /\ IF pc = "leave" THEN pc' = "silent" /\ UNCHANGED tries
           ELSE IF pc = "last" THEN pc' = "failed" /\ UNCHANGED tries
           ELSE IF tries < Cycles THEN pc' = "cbw" /\ tries' = Counted
           ELSE pc' = "last" /\ UNCHANGED tries
     \/ /\ Fault /\ TimesOut /\ silence' = TRUE
        /\ UNCHANGED <<device, halted, dToggles, missed, skewed, tries>>
  /\ UNCHANGED <<command, left, reported, driver, tag, toggles>>

Cycle == SendCbw \/ DataOut \/ DataIn \/ ReadCsw \/ Reset

-----------------------------------------------------------------------------
Start(j, w, n) ==
  /\ job' = j /\ pc' = "cbw" /\ op' = [write |-> w, n |-> n] /\ left' = n /\ tries' = 1
  /\ moved' = [i \in 1 .. n |-> 0] /\ reported' = 0

(* disk_initialize, again and again: the controller, the port and the      *)
(* device start anew; then the first unit is mounted.                      *)
Boot ==
  /\ job = "boot" /\ pc = "end"
  /\ \/ NoFault /\ Start("ready", TRUE, 0)
     \/ Fault /\ UNCHANGED <<command, pc, left, tries, reported, job>>
  /\ tag' = 1 /\ toggles' = Fresh /\ device' = Idle /\ dToggles' = Fresh /\ halted' = {}
  /\ missed' = FALSE /\ silence' = FALSE /\ skewed' = FALSE
  /\ UNCHANGED <<mounted, requests, answer>>

NotMounted ==
  /\ job' = "boot" /\ pc' = "end"
  /\ UNCHANGED <<command, left, tries, reported, mounted, answer>>

(* TEST UNIT READY; REQUEST SENSE if that was refused; INQUIRY, whose      *)
(* result nobody looks at; READ CAPACITY.                                  *)
Readied ==
  /\ job = "ready" /\ NoFault /\ UNCHANGED <<mounted, answer>>
  /\ \/ pc = "done" /\ reported # 0 /\ Start("sense", FALSE, 1)
     \/ pc = "done" /\ reported = 0 /\ Start("inquiry", FALSE, 1)
     \/ pc \in {"failed", "silent"} /\ NotMounted
Sensed ==
  /\ job = "sense" /\ UNCHANGED <<mounted, answer>>
  /\ \/ pc = "done" /\ NoFault /\ Start("inquiry", FALSE, 1)
     \/ pc = "done" /\ moved[1] = 1 /\ Fault /\ NotMounted
     \/ pc \in {"failed", "silent"} /\ NoFault /\ NotMounted
Inquired ==
  /\ job = "inquiry" /\ pc \in {"done", "failed", "silent"} /\ NoFault
  /\ Start("capacity", FALSE, 1) /\ UNCHANGED <<mounted, answer>>

Outcome(ok) == [ok |-> ok, right |-> \A i \in DOMAIN moved : moved[i] = i,
                status |-> reported, short |-> ~op.write /\ left > 0]

Sized ==
  /\ job = "capacity" /\ NoFault
  /\ \/ /\ pc = "done" /\ mounted' = TRUE /\ answer' = Outcome(TRUE)
        /\ job' = "none" /\ pc' = "end" /\ UNCHANGED <<command, left, tries, reported>>
     \/ pc \in {"failed", "silent"} /\ NotMounted

Mounting ==
  /\ Readied \/ Sensed \/ Inquired \/ Sized
  /\ UNCHANGED <<requests, tag, wire, history>>

(* disk_read, disk_write.  Silence is the end of the disk.                 *)
Request ==
  /\ job = "none" /\ requests < MaxRequests /\ requests' = requests + 1
  /\ IF mounted THEN \E w \in BOOLEAN, n \in 1 .. Wrap : Start("transfer", w, n) /\ UNCHANGED answer
     ELSE answer' = NoAnswer /\ UNCHANGED <<command, pc, left, tries, reported, job>>
  /\ UNCHANGED <<mounted, tag, wire, faults, history>>

StillThere == mounted
Unmounted  == FALSE

Finish ==
  /\ job = "transfer" /\ pc \in {"done", "failed", "silent"}
  /\ answer' = Outcome(pc = "done")
  /\ mounted' = IF pc = "silent" THEN Unmounted ELSE mounted
  /\ job' = "none" /\ pc' = "end"
  /\ UNCHANGED <<command, left, tries, reported, requests, tag, wire, faults, history>>

Goes == Cycle \/ Boot \/ Mounting \/ Finish
UsbNext == Goes \/ Request

UsbSpec == UsbInit /\ [][UsbNext]_usbVars /\ WF_usbVars(Goes)

-----------------------------------------------------------------------------
(* What is reported done was done to the right sectors, whatever was tried *)
(* again, unless the device said otherwise: its status, and a read that    *)
(* ended early, are not looked at.                                         *)
DoneRight == answer.ok => answer.right \/ answer.status # 0 \/ answer.short

(* A command is sent to a device that waits for one: what an earlier       *)
(* command left behind has been cleared, unless the device missed the      *)
(* reset or a silent INQUIRY was passed over.                              *)
InStep == pc = "cbw" => device.phase = "idle" \/ missed \/ job = "capacity"

(* The disk is given up only when it fell silent, or after a reset that    *)
(* found the host's toggles not where the device's begin.                  *)
LostForAReason == job = "none" /\ ~mounted => silence \/ skewed

(* Every command ends, and the disk is mounted when the device recovers.   *)
Settles == job # "none" ~> job = "none"
=============================================================================
