------------------------------- MODULE SdCard -------------------------------
(***************************************************************************)
(* The SD card driver of mini (mini-tree-mod/sdmmc.c) on its host          *)
(* controller: discovery of a card, the acknowledgement of a new one, and  *)
(* reads and writes, which the IPC server runs one at a time.              *)
(***************************************************************************)
EXTENDS SdHost, Sequences

CONSTANTS
  MaxTries,      \* times a card is asked whether it is ready (100)
  MaxRequests    \* bound: transfers asked for

VARIABLES
  inserted, newCard, selected,   \* card.inserted, card.new_card, card.selected
  known,     \* the card that card.rca, card.cid belong to
  size,      \* the card that card.num_sectors belongs to
  job,       \* what the main loop is doing: discovery, a transfer, nothing
  tries,     \* how often a card may still be asked
  acked,     \* the card the client has acknowledged
  requests,  \* transfers asked for
  answer,    \* the last transfer: what it was for, what it moved, its result
  unsound    \* the last discovery failed

cardVars == <<inserted, newCard, selected, known, size, job, tries, acked, requests, answer, unsound>>
sdVars   == <<hostVars, cardVars>>

Idle     == [what |-> "idle", step |-> "none"]
NoReply  == [ok |-> FALSE, want |-> NoData, got |-> NoData, stray |-> FALSE]

(* The commands of sdmmc_needs_discover, in order. *)
Steps == <<"GO_IDLE_STATE", "SEND_IF_COND", "APP_OP_COND", "ALL_SEND_CID", "SEND_RELATIVE_ADDR",
           "SEND_CSD", "SELECT_CARD", "SET_BLOCKLEN">>
KindOf(step) == CASE step \in {"SEND_CSD", "SET_BLOCKLEN"} -> "plain"
                  [] step = "SELECT_CARD" -> "busy"
                  [] OTHER -> "init"
After(step) == Steps[1 + CHOOSE i \in DOMAIN Steps : Steps[i] = step]

SdInit ==
  /\ HostInit
  /\ inserted = FALSE /\ newCard = FALSE /\ selected = FALSE
  /\ known = NoCard /\ size = NoCard /\ job = Idle /\ tries = MaxTries
  /\ acked = NoCard /\ requests = 0 /\ answer = NoReply /\ unsound = FALSE

-----------------------------------------------------------------------------
Do(what, step) == job' = [what |-> what, step |-> step] /\ Exec(KindOf(step), 0)

(* IPC_SDHC_DISCOVER, to the first command or to the first failure: what   *)
(* it makes of card.new_card, and of card.inserted when the slot is empty. *)
OldCard    == newCard
NewCard    == TRUE
StillThere == inserted
Gone       == FALSE

StartDiscover ==
  /\ job = Idle /\ discover > 0
  /\ discover' = discover - 1
  /\ HostReset
  /\ newCard' = NewCard
  /\ \/ /\ present = NoCard
        /\ inserted' = Gone /\ unsound' = FALSE
        /\ UNCHANGED <<power, exec, intrStatus, stray, job>>
     \/ /\ present # NoCard
        /\ power' = TRUE
        /\ Do("discover", "GO_IDLE_STATE")
        /\ UNCHANGED <<inserted, unsound>>
     \/ /\ present # NoCard
        /\ power' = FALSE /\ unsound' = TRUE
        /\ UNCHANGED <<exec, intrStatus, stray, job, inserted>>
  /\ UNCHANGED <<slotVars, buf, selected, known, size, acked, requests, answer, tries>>

Discovering(step) == job = [what |-> "discover", step |-> step] /\ exec.at = "done"
Ok == ~exec.error

(* out_clock and out_power: sdhc_bus_power(0) resets the controller. *)
GiveUp ==
  /\ job' = Idle /\ exec' = NoExec /\ unsound' = TRUE
  /\ power' = FALSE /\ ready' = FALSE
  /\ HostReset
  /\ UNCHANGED <<intrStatus, stray, present, swaps>>

GoOn(step) ==
  /\ Do("discover", After(step))
  /\ UNCHANGED <<hw, pend, power, unsound, present, swaps>>

AsMany   == tries
Fewer    == tries - 1

(* SEND_IF_COND may fail; the loop over SD_APP_OP_COND tries a hundred     *)
(* times.                                                                  *)
EarlyStep ==
  /\ \/ \E step \in {"GO_IDLE_STATE", "ALL_SEND_CID"} :
          /\ Discovering(step) /\ UNCHANGED tries
          /\ IF Ok THEN GoOn(step) /\ UNCHANGED ready ELSE GiveUp
     \/ Discovering("SEND_IF_COND") /\ GoOn("SEND_IF_COND") /\ tries' = MaxTries /\ UNCHANGED ready
     \/ /\ Discovering("APP_OP_COND")
        /\ \/ Ok /\ GoOn("APP_OP_COND") /\ tries' = MaxTries /\ UNCHANGED ready
           \/ tries = 1 /\ GiveUp /\ tries' = MaxTries
           \/ /\ tries > 1 /\ tries' = Fewer
              /\ Do("discover", "APP_OP_COND")
              /\ UNCHANGED <<hw, pend, power, ready, unsound, present, swaps>>
  /\ UNCHANGED <<buf, discover, inserted, newCard, selected, known, size, acked, requests, answer>>

(* The card takes its address; it counts as inserted from here on. *)
AddressStep ==
  /\ Discovering("SEND_RELATIVE_ADDR")
  /\ IF Ok
     THEN /\ GoOn("SEND_RELATIVE_ADDR")
          /\ known' = present /\ ready' = (power /\ present # NoCard)
          /\ selected' = FALSE /\ inserted' = TRUE
     ELSE GiveUp /\ UNCHANGED <<known, selected, inserted>>
  /\ UNCHANGED <<buf, discover, newCard, size, acked, requests, answer, tries>>

SizeStep ==
  /\ Discovering("SEND_CSD")
  /\ IF Ok THEN GoOn("SEND_CSD") /\ size' = present /\ UNCHANGED ready
     ELSE GiveUp /\ UNCHANGED size
  /\ UNCHANGED <<buf, discover, inserted, newCard, selected, known, acked, requests, answer, tries>>

(* The result of sdmmc_select is not looked at here. *)
SelectStep ==
  /\ Discovering("SELECT_CARD")
  /\ selected' = (selected \/ Ok)
  /\ GoOn("SELECT_CARD")
  /\ UNCHANGED <<ready, buf, discover, inserted, newCard, known, size, acked, requests, answer, tries>>

LastStep ==
  /\ Discovering("SET_BLOCKLEN")
  /\ IF Ok
     THEN /\ job' = Idle /\ exec' = NoExec /\ unsound' = FALSE
          /\ UNCHANGED <<hw, pend, power, ready, intrStatus, stray, present, swaps, inserted, selected>>
     ELSE GiveUp /\ inserted' = FALSE /\ selected' = FALSE
  /\ UNCHANGED <<buf, discover, newCard, known, size, acked, requests, answer, tries>>

Discover == StartDiscover \/ EarlyStep \/ AddressStep \/ SizeStep \/ SelectStep \/ LastStep

-----------------------------------------------------------------------------
(* sdmmc_ack_card. *)
Acknowledge ==
  /\ job = Idle /\ newCard
  /\ newCard' = FALSE
  /\ acked' = IF inserted THEN known ELSE NoCard
  /\ UNCHANGED <<hostVars, inserted, selected, known, size, job, requests, answer, unsound, tries>>

Want == [req |-> requests, card |-> acked]

Report(ok) ==
  /\ answer' = [ok |-> ok, want |-> Want, got |-> buf, stray |-> stray]
  /\ job' = Idle /\ exec' = NoExec

(* sdmmc_read, sdmmc_write: refused without a card, selected when need be, *)
(* refused until the card is acknowledged.                                 *)
Refused(isNew) == isNew

Transfer ==
  /\ job = Idle /\ requests < MaxRequests
  /\ requests' = requests + 1
  /\ IF ~inserted THEN answer' = NoReply /\ UNCHANGED <<job, exec, intrStatus, stray>>
     ELSE IF ~selected THEN Do("transfer", "SELECT_CARD") /\ answer' = NoReply
     ELSE IF Refused(newCard) THEN answer' = NoReply /\ UNCHANGED <<job, exec, intrStatus, stray>>
     ELSE /\ job' = [what |-> "transfer", step |-> "data"] /\ answer' = NoReply
          /\ Exec("data", requests')
  /\ UNCHANGED <<slotVars, power, hw, pend, buf, discover,
                 inserted, newCard, selected, known, size, acked, unsound, tries>>

Selected ==
  /\ job = [what |-> "transfer", step |-> "SELECT_CARD"] /\ exec.at = "done"
  /\ selected' = (selected \/ Ok)
  /\ IF ~Ok \/ Refused(newCard) THEN Report(FALSE) /\ UNCHANGED <<intrStatus, stray>>
     ELSE /\ job' = [what |-> "transfer", step |-> "data"] /\ UNCHANGED answer
          /\ Exec("data", requests)
  /\ UNCHANGED <<slotVars, power, hw, pend, buf, discover,
                 inserted, newCard, known, size, acked, requests, unsound, tries>>

Transferred ==
  /\ job = [what |-> "transfer", step |-> "data"] /\ exec.at = "done"
  /\ Report(Ok)
  /\ UNCHANGED <<slotVars, power, hw, pend, intrStatus, stray, buf, discover,
                 inserted, newCard, selected, known, size, acked, requests, unsound, tries>>

Driver == Discover \/ Selected \/ Transferred \/ (Host /\ UNCHANGED cardVars)

SdNext ==
  \/ Driver \/ Acknowledge \/ Transfer
  \/ (Interrupt \/ Hardware \/ Swap) /\ UNCHANGED cardVars

SdSpec == SdInit /\ [][SdNext]_sdVars /\ WF_sdVars(Driver)
            /\ WF_sdVars(Interrupt /\ UNCHANGED cardVars)

-----------------------------------------------------------------------------
(* A transfer that is reported done has been done, by this request and on   *)
(* the card the client acknowledged, unless a command has timed out since   *)
(* the controller was reset: the late interrupt of that one may have been   *)
(* taken for the completion of this one (sdhc.c:721).                       *)
TransferTruthful == answer.ok /\ answer.got # answer.want => answer.stray

(* When nothing is under way, the card the driver believes in is the one in *)
(* the slot, powered, and its size is known, unless the last discovery      *)
(* failed: card.inserted is set before SEND_CSD (sdmmc.c:199), and a        *)
(* discovery that fails earlier leaves what the last card left.             *)
Settled == job = Idle /\ discover = 0 /\ "slot" \notin pend
SwapNoticed ==
  Settled => \/ unsound
             \/ inserted /\ power /\ known = present /\ size = present
             \/ ~inserted /\ present = NoCard

(* Discovery and transfers come to an end. *)
JobsEnd == (job # Idle) ~> (job = Idle)
=============================================================================
