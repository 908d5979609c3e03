------------------------------- MODULE SdHost -------------------------------
(***************************************************************************)
(* The SD host controller of mini and the card behind it                   *)
(* (mini-tree-mod/sdhc.c): commands with and without data, the interrupt   *)
(* handler that collects their completion in intr_status, and the waits    *)
(* of sdhc_exec_command, which time out.                                   *)
(*                                                                         *)
(* The command's caller, the interrupt handler, the controller and the     *)
(* person who swaps the card are four actors.  A command that timed out    *)
(* is not cancelled (sdhc.c:727 is commented out): the controller goes on  *)
(* with it and its interrupt comes when it comes.                          *)
(***************************************************************************)
EXTENDS Naturals, FiniteSets

CONSTANTS
  Cards,      \* the cards there are
  NoCard,
  MaxSwaps,   \* bound: times a card is put in or taken out
  MaxDiscover \* bound: IPC_SDHC_DISCOVER requests waiting in the slow queue

VARIABLES
  present,    \* the card in the slot
  swaps,      \* how often that has changed
  power,      \* the bus is powered
  ready,      \* the card has been given an address since it was powered
  hw,         \* the command the controller is busy with
  pend,       \* SDHC_NINTR_STATUS: interrupts not yet taken
  intrStatus, \* hp->intr_status: what the handler has left for the caller
  buf,        \* what DMA has last moved: for which request, of which card
  exec,       \* sdhc_exec_command: where it is, and its c_error
  discover,   \* IPC_SDHC_DISCOVER requests in the slow queue
  stray       \* the command was begun while an earlier one had not ended

slotVars == <<present, swaps, ready>>
hostVars == <<present, swaps, power, ready, hw, pend, intrStatus, buf, exec, discover, stray>>

-----------------------------------------------------------------------------
NoCmd  == [kind |-> "none", phase |-> "none", req |-> 0]
NoExec == [at |-> "idle", kind |-> "none", req |-> 0, error |-> FALSE]
NoData == [req |-> 0, card |-> NoCard]

(* "init": understood by a powered card; "plain": needs an addressed card; *)
(* "busy": the same, with a busy phase (R1B); "data": with a DMA transfer. *)
Kinds == {"init", "plain", "busy", "data"}

HostInit ==
  /\ present \in Cards \cup {NoCard} /\ swaps = 0
  /\ power = FALSE /\ ready = FALSE
  /\ hw = NoCmd /\ pend = {} /\ intrStatus = {} /\ buf = NoData
  /\ exec = NoExec
  /\ discover = IF present = NoCard THEN 0 ELSE 1
  /\ stray = FALSE

(* sdhc_host_reset: the controller forgets its command and its interrupts. *)
HostReset == hw' = NoCmd /\ pend' = {}

(* sdhc_exec_command, to the wait for the inhibit bits. *)
Cleared == {}
NotCleared == intrStatus

Exec(kind, req) ==
  /\ exec' = [at |-> "start", kind |-> kind, req |-> req, error |-> FALSE]
  /\ intrStatus' = Cleared
  /\ stray' = (hw # NoCmd \/ pend # {})

Ends(error) == exec' = [exec EXCEPT !.at = "done", !.error = error]

(* sdhc_start_command: the inhibit bits are clear, or stay set for 5 s. *)
Issue ==
  /\ exec.at = "start" /\ hw = NoCmd
  /\ hw' = [kind |-> exec.kind, phase |-> "cmd", req |-> exec.req]
  /\ exec' = [exec EXCEPT !.at = "cmd"]
  /\ UNCHANGED <<slotVars, power, pend, intrStatus, buf, discover, stray>>

Inhibited ==
  /\ exec.at = "start" /\ hw # NoCmd
  /\ Ends(TRUE)
  /\ UNCHANGED <<slotVars, power, hw, pend, intrStatus, buf, discover, stray>>

(* sdhc_wait_intr: any bit of intr_status ends the wait; the bits asked    *)
(* for and the error are taken; an error resets the command and data       *)
(* lines.                                                                  *)
Taken(bit) == intrStatus \cap {bit, "error"}

WaitEnds(bit) ==
  /\ exec.at = bit /\ intrStatus # {}
  /\ intrStatus' = intrStatus \ Taken(bit)
  /\ hw' = IF "error" \in Taken(bit) THEN NoCmd ELSE hw
  /\ IF Taken(bit) # {bit} THEN Ends(TRUE)
     ELSE IF bit = "cmd" /\ exec.kind = "data" THEN exec' = [exec EXCEPT !.at = "xfer"]
     ELSE Ends(FALSE)
  /\ UNCHANGED <<slotVars, power, pend, buf, discover, stray>>

(* The wait times out: the controller is not reset. *)
WaitTimesOut ==
  /\ exec.at \in {"cmd", "xfer"} /\ intrStatus = {} /\ pend = {}
  /\ Ends(TRUE)
  /\ UNCHANGED <<slotVars, power, hw, pend, intrStatus, buf, discover, stray>>

(* sdhc_intr.  An error resets the lines; that of a timeout is passed on,   *)
(* and so is whatever comes together with the end of a command or transfer. *)
Errors  == {"timeout", "crc"}
NStatus == (pend \ Errors) \cup IF pend \cap Errors = {} THEN {} ELSE {"error"}

Interrupt ==
  /\ pend # {}
  /\ pend' = {}
  /\ hw' = IF "error" \in NStatus THEN NoCmd ELSE hw
  /\ intrStatus' = IF pend \cap {"timeout", "cmd", "xfer"} = {} THEN intrStatus
                   ELSE intrStatus \cup NStatus
  /\ discover' = IF "slot" \in pend THEN discover + 1 ELSE discover
  /\ UNCHANGED <<slotVars, power, buf, exec, stray>>

Host == Issue \/ Inhibited \/ WaitEnds("cmd") \/ WaitEnds("xfer") \/ WaitTimesOut

-----------------------------------------------------------------------------
(* The controller and the card. *)
Answers == power /\ present # NoCard /\ (hw.kind = "init" \/ ready)

CardAnswers ==
  /\ hw.phase = "cmd" /\ Answers
  /\ pend' = pend \cup {"cmd"}
  /\ hw' = IF hw.kind \in {"init", "plain"} THEN NoCmd ELSE [hw EXCEPT !.phase = "xfer"]
  /\ UNCHANGED <<slotVars, power, intrStatus, buf, exec, discover, stray>>

CardTransfers ==
  /\ hw.phase = "xfer" /\ Answers
  /\ pend' = pend \cup {"xfer"}
  /\ buf' = IF hw.kind = "data" THEN [req |-> hw.req, card |-> present] ELSE buf
  /\ hw' = NoCmd
  /\ UNCHANGED <<slotVars, power, intrStatus, exec, discover, stray>>

(* No answer, or a damaged one. *)
CardFails ==
  /\ hw # NoCmd
  /\ \/ pend' = pend \cup {"timeout"} /\ ~Answers
     \/ pend' = pend \cup {"crc"} /\ Answers
  /\ hw' = NoCmd
  /\ UNCHANGED <<slotVars, power, intrStatus, buf, exec, discover, stray>>

(* A card is put in or taken out, slower than interrupts are taken. *)
Swap ==
  /\ swaps < MaxSwaps /\ pend = {} /\ discover < MaxDiscover
  /\ swaps' = swaps + 1
  /\ IF present = NoCard THEN present' \in Cards ELSE present' = NoCard
  /\ ready' = FALSE
  /\ pend' = pend \cup {"slot"}
  /\ UNCHANGED <<power, hw, intrStatus, buf, exec, discover, stray>>

Hardware == CardAnswers \/ CardTransfers \/ CardFails
=============================================================================
