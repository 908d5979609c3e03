----------------------------- MODULE DiscSwitch -----------------------------
(***************************************************************************)
(* The emulated drive: the message loop of di/main.c, the game switch it   *)
(* performs (DVDSelectGame) and the drive commands of DIP_Ioctl and        *)
(* DIP_Ioctlv in di/dip.c.                                                 *)
(*                                                                         *)
(* Requests of the menu (the ES module) and of the console, and the expiry *)
(* of timers, come through one message queue to one thread.  A game is not *)
(* switched when it is asked for but half a second later, when a timer     *)
(* sends its message, and the console learns of it only by asking for the  *)
(* state of the cover.                                                     *)
(***************************************************************************)
EXTENDS Integers, Sequences, FiniteSets

CONSTANTS
  Gamecount,    \* DICfg->Gamecount
  WbfsGames,    \* slots of games in WBFS images
  DmlGames,     \* slots of GameCube games
  Broken,       \* slots whose files are missing
  NoGame,       \* no slot
  MenuCommands, \* commands the menu gives
  Polite,       \* whether the console follows the drive's protocol
  MaxTimers,    \* timers the kernel has for this module
  MaxRequests   \* bound: switches asked for

Slots == 0 .. Gamecount - 1

ASSUME DiscSwitchAssumption ==
  /\ Gamecount \in Nat \ {0} /\ WbfsGames \cup DmlGames \cup Broken \subseteq Slots
  /\ WbfsGames \cap DmlGames = {} /\ DmlGames \cap Broken = {}
  /\ NoGame \notin Slots \cup {Gamecount} /\ Polite \in BOOLEAN
  /\ MenuCommands \subseteq {"select", "load", "eject", "insert"}
  /\ MaxTimers \in Nat /\ MaxRequests \in Nat

VARIABLES
  queue,       \* the message queue of the module
  timers,      \* the kernel's timers
  switchtimer, \* the timer created last
  requested,   \* requested_game; NoGame before the first request
  disc,        \* the game DVDSelectGame was called for last: GamePath, FMode
  key,         \* the game whose title key KeyIDT is
  splits,      \* splitcount is not 0: some WBFS image could be opened since the start
  cover,       \* DICover
  ChangeDisc, Partition, DiscType, error,
  delivered,   \* the game the last message was answered with data of
  hung,        \* the module is in a loop it does not leave
  waiting,     \* clients waiting for an answer
  phase,       \* the console: what it does next
  noticed,     \* the console: the game it read the disc id of
  asked,       \* the menu: the slot it asked for last
  requests     \* the menu: switches asked for

switch == <<timers, switchtimer, requested>>
drive  == <<disc, key, splits, cover, ChangeDisc, Partition, DiscType, error, hung>>
client == <<waiting, phase, noticed, asked, requests>>
vars   == <<queue, switch, drive, delivered, client>>

-----------------------------------------------------------------------------
Timers   == 1 .. MaxTimers
NoTimer  == 0
Expired  == [from |-> "timer", cmd |-> "expired", slot |-> NoGame]
Msg(from, cmd, slot) == [from |-> from, cmd |-> cmd, slot |-> slot]

(* The commands without an effect on the drive: 0x86, 0x95, 0xDD, 0x8E,    *)
(* IDENTIFY, GETCOVER, SET_MOTOR, READ_BCA, LOW_SEEK, GET_GAMECOUNT.       *)
PpcCommands == {"cover", "ack", "reset", "readid", "open", "close", "read",
                "unencrypted", "geterror", "reportkey", "other"}

(* DVDSelectGame takes a slot that does not exist for the first one.       *)
Clamp(slot) == IF slot \in Slots THEN slot ELSE 0

Readable(slot) == slot \notin Broken
Loads(slot)    == slot \in DmlGames \/ Readable(slot)

(* A WBFS image that could not be opened.  Its reads do not end: WBFS_Read *)
(* finds no split file for the offset and asks again.  Before any image    *)
(* could be opened it leaves the loop out and fails, which its callers     *)
(* ignore; but then they work with tables and buffers that do not exist,   *)
(* so the module may as well end there.                                    *)
Gone  == disc \in WbfsGames /\ ~Readable(disc)
Hangs == Gone /\ splits

(* Mutant: the title key of a game is kept for the next.                   *)
KeyKept(slot) == IF slot \in WbfsGames /\ key = NoGame THEN slot ELSE key

(* DVDSelectGame of a WBFS image destroys the old key and reads with the   *)
(* new one; other games leave it alone.                                    *)
KeyAfter(slot) ==
  CASE slot \notin WbfsGames -> key
    [] slot \in WbfsGames /\ Readable(slot) -> slot
    [] OTHER -> NoGame

SplitsAfter(slot) == splits \/ (slot \in WbfsGames /\ Readable(slot))

(* After boot: the configured game was selected.                           *)
Init ==
  /\ queue = <<>>
  /\ timers = [t \in Timers |-> "free"] /\ switchtimer = NoTimer
  /\ requested = NoGame
  /\ disc \in Slots
  /\ key = IF disc \in WbfsGames /\ Readable(disc) THEN disc ELSE NoGame
  /\ splits = (disc \in WbfsGames /\ Readable(disc))
  /\ cover = {"open"} /\ ChangeDisc = Loads(disc)
  /\ Partition = FALSE /\ DiscType = "rev" /\ error = "none" /\ hung = FALSE
  /\ delivered = NoGame
  /\ waiting = {} /\ phase = "poll" /\ noticed = NoGame
  /\ asked = NoGame /\ requests = 0

-----------------------------------------------------------------------------
(* The message at hand.                                                    *)
Message == Head(queue)
Serves(cmd) == ~hung /\ queue # <<>> /\ Message.cmd = cmd

(* "Reset error after a successful command": the test is of msg->command,  *)
(* the type of the message, so GET_ERROR is no exception.                  *)
ErrorAfter(ret, newError) == IF ret = "success" THEN "none" ELSE newError

(* MessageQueueAck: the client goes on.                                    *)
Answer(ret, newError) ==
  /\ queue' = Tail(queue)
  /\ waiting' = waiting \ {Message.from}
  /\ error' = ErrorAfter(ret, newError)
  /\ UNCHANGED <<hung, asked, requests>>

Goto(p) == phase' = IF Polite THEN p ELSE phase

Quiet == UNCHANGED <<switch, disc, key, splits, cover, ChangeDisc, Partition, DiscType,
                     phase, noticed>> /\ delivered' = NoGame

(* TimerCreate: the new timer is the one to be destroyed later, and the    *)
(* one before is forgotten.                                                *)
CreateTimer ==
  LET free == {t \in Timers : timers[t] = "free"}
  IN  IF free = {} THEN switchtimer' = NoTimer /\ UNCHANGED timers
      ELSE \E t \in free : /\ switchtimer' = t
                           /\ timers' = [timers EXCEPT ![t] = "armed"]

(* DVD_SELECT_GAME and DVD_LOAD_DISC.  The latter answers with the number  *)
(* of the slot, or Gamecount when there is no such game.                   *)
ServeRequest ==
  /\ Serves("select") \/ Serves("load")
  /\ requested' = Message.slot
  /\ CreateTimer
  /\ Answer(IF Message.cmd = "select" \/ Message.slot = 1 THEN "success" ELSE "number", error)
  /\ delivered' = NoGame
  /\ UNCHANGED <<disc, key, splits, cover, ChangeDisc, Partition, DiscType, phase, noticed>>

(* DVD_EJECT_DISC and DVD_INSERT_DISC.                                     *)
ServeTray ==
  /\ Serves("eject") \/ Serves("insert")
  /\ cover' = IF Message.cmd = "eject" THEN cover \cup {"open"} ELSE cover \ {"open"}
  /\ Answer("success", error) /\ delivered' = NoGame
  /\ UNCHANGED <<switch, disc, key, splits, ChangeDisc, Partition, DiscType, phase, noticed>>

(* Mutant: the change is over before it is reported.                       *)
ServeCoverLate ==
  /\ Serves("cover")
  /\ cover' = IF ChangeDisc THEN cover \ {"open"} ELSE cover
  /\ ChangeDisc' = FALSE
  /\ Goto(IF "open" \in cover' THEN "reset" ELSE "poll")
  /\ Answer("success", error) /\ delivered' = NoGame
  /\ UNCHANGED <<switch, disc, key, splits, Partition, DiscType, noticed>>

(* 0x7A: the cover is reported open once after a change.                   *)
ServeCover ==
  /\ Serves("cover")
  /\ cover' = IF ChangeDisc THEN cover \ {"open"} ELSE cover
  /\ ChangeDisc' = FALSE
  /\ Goto(IF "open" \in cover THEN "reset" ELSE "poll")
  /\ Answer("success", error) /\ delivered' = NoGame
  /\ UNCHANGED <<switch, disc, key, splits, Partition, DiscType, noticed>>

(* 0x89.                                                                   *)
ServeAck ==
  /\ Serves("ack")
  /\ cover' = cover \cup {"acked"}
  /\ Answer("success", error) /\ delivered' = NoGame
  /\ UNCHANGED <<switch, disc, key, splits, ChangeDisc, Partition, DiscType, phase, noticed>>

ServeReset ==
  /\ Serves("reset")
  /\ cover' = {} /\ Partition' = FALSE
  /\ Goto("readid")
  /\ Answer("success", error) /\ delivered' = NoGame
  /\ UNCHANGED <<switch, disc, key, splits, ChangeDisc, DiscType, noticed>>

Hang ==
  /\ \E cmd \in {"readid", "open", "read", "unencrypted"} : Serves(cmd)
  /\ Gone
  /\ Message.cmd = "read" => Partition
  /\ Message.cmd = "unencrypted" => DiscType # "inv"
  /\ hung' = TRUE
  /\ UNCHANGED <<queue, switch, disc, key, splits, cover, ChangeDisc, Partition, DiscType,
                 error, delivered, client>>

(* DVD_READ_DISCID succeeds whatever DVDLowRead returned; what the type is *)
(* taken from is then what was in the buffer before.                       *)
ServeReadId ==
  /\ Serves("readid") /\ ~Hangs
  /\ DiscType' \in CASE ~Readable(disc) -> {"rev", "dol", "inv"}
                     [] disc \in DmlGames -> {"dol"}
                     [] OTHER -> {"rev"}
  /\ noticed' = disc /\ Goto("open")
  /\ Answer("success", error)
  /\ delivered' = IF Readable(disc) THEN disc ELSE NoGame
  /\ UNCHANGED <<switch, disc, key, splits, cover, ChangeDisc, Partition>>

(* DVD_OPEN_PARTITION.                                                     *)
ServeOpen ==
  /\ Serves("open") /\ ~Hangs
  /\ Partition' = (Partition \/ Readable(disc))
  /\ Goto("poll")
  /\ Answer(IF Readable(disc) THEN "success" ELSE "fatal", IF Gone THEN "disc" ELSE error)
  /\ delivered' = IF Readable(disc) THEN disc ELSE NoGame
  /\ UNCHANGED <<switch, disc, key, splits, cover, ChangeDisc, DiscType, noticed>>

(* DVD_CLOSE_PARTITION.                                                    *)
ServeClose ==
  /\ Serves("close")
  /\ Partition' = FALSE
  /\ Answer("success", error) /\ delivered' = NoGame
  /\ UNCHANGED <<switch, disc, key, splits, cover, ChangeDisc, DiscType, phase, noticed>>

(* DVD_LOW_READ, and DVD_READ_UNENCRYPTED of a disc whose type was read.   *)
MayRead == (Message.cmd = "read" /\ Partition) \/ (Message.cmd = "unencrypted" /\ DiscType # "inv")

ServeRead ==
  /\ Serves("read") \/ Serves("unencrypted")
  /\ MayRead /\ ~Hangs
  /\ \/ /\ Readable(disc)
        /\ Answer("success", error) /\ delivered' = disc
     \/ /\ ~Readable(disc)
        /\ \/ \E e \in {error, "disc"} : Answer("fatal", e)
           \/ Gone /\ Answer("success", error)
        /\ delivered' = NoGame
     \/ /\ Answer("error", "range")      \* beyond PartitionSize, or 0x46090000
        /\ delivered' = NoGame
  /\ UNCHANGED <<switch, disc, key, splits, cover, ChangeDisc, Partition, DiscType, phase, noticed>>

ServeRefused ==
  /\ Serves("read") \/ Serves("unencrypted")
  /\ ~MayRead /\ Answer("fatal", error) /\ Quiet

ServeError ==
  /\ Serves("geterror") /\ Answer("success", error) /\ Quiet

ServeReportKey ==
  /\ Serves("reportkey") /\ Answer("error", "key") /\ Quiet

ServeOther ==
  /\ Serves("other") /\ Answer("success", error) /\ Quiet

(* Mutant: the switch does not show in the cover register.                 *)
SelectQuietly(slot) ==
  /\ disc' = slot /\ key' = KeyAfter(slot) /\ ChangeDisc' = Loads(slot)
  /\ splits' = SplitsAfter(slot) /\ UNCHANGED cover

(* DVDSelectGame.                                                          *)
Select(slot) ==
  /\ disc' = slot
  /\ key' = KeyAfter(slot) /\ splits' = SplitsAfter(slot)
  /\ cover' = cover \cup {"open"}
  /\ ChangeDisc' = Loads(slot)

(* The message of a timer: switchtimer, which need not be the one that     *)
(* expired, is destroyed.                                                  *)
ServeExpired ==
  /\ Serves("expired")
  /\ timers' = IF switchtimer = NoTimer THEN timers ELSE [timers EXCEPT ![switchtimer] = "free"]
  /\ Select(Clamp(requested))
  /\ queue' = Tail(queue) /\ delivered' = NoGame
  /\ UNCHANGED <<switchtimer, requested, Partition, DiscType, error, hung, client>>

Serve ==
  \/ ServeRequest \/ ServeTray \/ ServeCover \/ ServeAck \/ ServeReset \/ Hang
  \/ ServeReadId \/ ServeOpen \/ ServeClose \/ ServeRead \/ ServeRefused
  \/ ServeError \/ ServeReportKey \/ ServeOther \/ ServeExpired

-----------------------------------------------------------------------------
(* The kernel: a timer runs out.                                           *)
Expire(t) ==
  /\ timers[t] = "armed"
  /\ timers' = [timers EXCEPT ![t] = "fired"]
  /\ queue' = Append(queue, Expired)
  /\ UNCHANGED <<switchtimer, requested, drive, delivered, client>>

(* Clients wait for the answer before they send again.                     *)
Send(m) ==
  /\ m.from \notin waiting
  /\ waiting' = waiting \cup {m.from}
  /\ queue' = Append(queue, m)
  /\ UNCHANGED <<switch, drive, delivered, phase, noticed>>

MenuRequest(cmd, slot) ==
  /\ cmd \in MenuCommands /\ requests < MaxRequests
  /\ requests' = requests + 1 /\ asked' = slot
  /\ Send(Msg("menu", cmd, slot))

MenuTray(cmd) ==
  /\ cmd \in MenuCommands
  /\ Send(Msg("menu", cmd, NoGame)) /\ UNCHANGED <<asked, requests>>

(* The console resets the drive when the cover was reported open, reads    *)
(* the disc id and opens the partition; otherwise it does what it likes.   *)
Allowed ==
  IF ~Polite THEN PpcCommands
  ELSE CASE phase = "poll" -> PpcCommands \ {"reset", "readid", "open"}
         [] OTHER -> {phase}

PpcSend(cmd) ==
  /\ cmd \in Allowed
  /\ Send(Msg("ppc", cmd, NoGame)) /\ UNCHANGED <<asked, requests>>

Next ==
  \/ Serve
  \/ \E t \in Timers : Expire(t)
  \/ \E slot \in Slots : MenuRequest("select", slot)
  \/ \E slot \in Slots \cup {Gamecount} : MenuRequest("load", slot)
  \/ \E cmd \in {"eject", "insert"} : MenuTray(cmd)
  \/ \E cmd \in PpcCommands : PpcSend(cmd)

Spec == Init /\ [][Next]_vars

(* The module serves its queue, timers run out, and the console asks for   *)
(* the cover again and again.                                              *)
FairSpec ==
  /\ Spec /\ WF_vars(Serve)
  /\ \A t \in Timers : WF_vars(Expire(t))
  /\ SF_vars(PpcSend("cover"))
  /\ \A cmd \in {"reset", "readid", "open"} : WF_vars(PpcSend(cmd))

-----------------------------------------------------------------------------
Commands == PpcCommands \cup {"select", "load", "eject", "insert", "expired"}

Queued(cmd) == \E i \in DOMAIN queue : queue[i].cmd = cmd

(* No switch is on its way.                                                *)
Settled ==
  /\ \A t \in Timers : timers[t] # "armed"
  /\ \A cmd \in {"select", "load", "expired"} : ~Queued(cmd)

(* Of requests that come faster than the timers run out the last one wins, *)
(* whichever timer is destroyed and in whatever order they expire.         *)
LastRequestWins == Settled /\ asked # NoGame => disc = Clamp(asked)

(* A WBFS game is read with its own title key, whatever was in the drive   *)
(* before it.                                                              *)
RightKey == disc \in WbfsGames /\ Readable(disc) => key = disc

(* A switch cannot escape the console: as long as it believes another game *)
(* is in the drive the cover says open, or it is about to read the id.     *)
NoMissedChange == noticed # disc => "open" \in cover \/ phase \in {"reset", "readid"}

(* The promise of the disc emulation, for a console that keeps asking.     *)
Changer == INSTANCE DiscChanger WITH
  Games <- Slots, Lost <- WbfsGames \cap Broken, dead <- hung,
  wanted <- IF requested = NoGame THEN disc ELSE Clamp(requested),
  drive <- disc

ImplementsChanger == Changer!Spec
=============================================================================
