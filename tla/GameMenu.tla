------------------------------ MODULE GameMenu ------------------------------
(***************************************************************************)
(* The menu of the boot loader on top of the system menu (es/SMenu.c) and  *)
(* what it works on: the list of games and the settings in diconfig.bin,   *)
(* which the disc module builds when it starts (di-usb/dip.c,              *)
(* di-usb/main.c), and the game that ends up in the drive.                 *)
(*                                                                         *)
(* ES draws the menu, reads the pad and calls DI; it waits for the answer. *)
(* DICfg is memory both modules work on: ES changes settings in it without *)
(* asking.  A game is put into the drive half a second after it was asked  *)
(* for, when a timer has run out.  The console may be switched off at any  *)
(* time, and it restarts when the menu starts a title.                     *)
(*                                                                         *)
(* Of the settings one is kept, which only takes effect when the disc is   *)
(* put in again.  A press is one step: SLock lets a button act once.       *)
(***************************************************************************)
EXTENDS Integers, FiniteSetsExt

CONSTANTS
  Games,       \* the games there are: numbers, in the order of their titles
  Initial,     \* [Games -> Nat]: their first letters
  Media,       \* bound: what may lie on the medium, sets of games
  Channels,    \* how many channels the cache lists (numChannels)
  EntryCount,  \* lines of a page of a list
  Real, None   \* the disc in the real drive (9999, which no slot is); nothing

ASSUME GameMenuAssumption ==
  /\ Games \subseteq Nat /\ IsFiniteSet(Games) /\ Real \notin Int /\ None \notin Games
  /\ \A g, h \in Games : g < h => Initial[g] <= Initial[h]
  /\ Media \subseteq SUBSET Games /\ Channels \in Nat /\ EntryCount \in Nat \ {0}

VARIABLES
  menu,      \* ShowMenu, MenuType, PosX, ScrollX, and whether the cursor left the list
  reinsert,  \* DVDReinsertDisc
  call,      \* what ES waits for, and what it does next
  cfg,       \* DICfg
  file,      \* diconfig.bin
  di,        \* where DI is: in its start, waiting for a message, for ES
  requested, \* requested_game
  armed,     \* the timers running, of which DI knows the last
  disc,      \* the game DI serves
  applied,   \* the setting it was put in with
  medium,    \* the games on the medium
  drive, cvr, \* a disc is in the real drive; what DI saw there last (CVR)
  chosen,    \* what the user wants in the drive
  excused    \* something came between, as listed at ChoiceKept

es   == <<menu, reinsert, call>>
dip  == <<di, requested, armed, disc, applied, cvr>>
vars == <<es, dip, cfg, file, medium, drive, chosen, excused>>

-----------------------------------------------------------------------------
Default == [state |-> "whole", count |-> 0, games |-> {}, sorted |-> FALSE,
            slot |-> 0, set |-> 0, mount |-> FALSE]
Absent  == [Default EXCEPT !.state = "absent"]
Empty   == [Default EXCEPT !.state = "empty"]

NoCall  == [kind |-> "none", slot |-> 0, next |-> "none"]
Closed  == [show |-> FALSE, type |-> "games", pos |-> 0, scroll |-> 0, astray |-> FALSE]

Init ==
  /\ menu = Closed /\ reinsert = FALSE /\ call = NoCall
  /\ cfg = Default /\ file = Absent /\ di = "look"
  /\ requested = 0 /\ armed = 0 /\ disc = None /\ applied = 0
  /\ medium \in Media /\ drive = FALSE /\ cvr = FALSE
  /\ chosen = None /\ excused = TRUE

Nth(S, k) == CHOOSE g \in S : Cardinality({h \in S : h < g}) = k

-----------------------------------------------------------------------------
(* DVDSelectGame.  A slot beyond the list is the first one.  When the game *)
(* cannot be opened nothing is noted down; otherwise the slot is, and with *)
(* it all the settings as they are in memory.                              *)
Slot(s) == IF s \in 0 .. cfg.count - 1 THEN s ELSE 0
Opens(s) == s = Real \/ (cfg.count > 0 /\ Nth(cfg.games, Slot(s)) \in medium)
Noted(s) == IF s = Real THEN [cfg EXCEPT !.mount = TRUE]
                        ELSE [cfg EXCEPT !.mount = FALSE, !.slot = Slot(s)]

(* The first part of the file is written in its place.                     *)
Written(c) == [file EXCEPT !.count = c.count, !.slot = c.slot, !.set = c.set, !.mount = c.mount]

DVDSelectGame(s) ==
  IF Opens(s)
  THEN /\ disc' = IF s = Real THEN Real ELSE Nth(cfg.games, Slot(s))
       /\ applied' = cfg.set /\ cfg' = Noted(s) /\ file' = Written(cfg')
  ELSE disc' = None /\ UNCHANGED <<applied, cfg, file>>

-----------------------------------------------------------------------------
(* DVDUpdateCache: a file that is missing or too short is made anew with   *)
(* the defaults; a list of no games is built from the directories, written *)
(* as it comes under a count of 0, then sorted and written again.          *)
Look ==
  /\ di = "look"
  /\ cfg' = IF file.state = "whole" THEN file ELSE Default
  /\ file' = cfg'
  /\ di' = IF cfg'.count = 0 THEN "scan" ELSE "start"
  /\ excused' = (excused \/ file.state # "whole")
  /\ UNCHANGED <<es, requested, armed, disc, applied, cvr, medium, drive, chosen>>

CountAtOnce == Cardinality(medium)
CountSoFar  == 0
Scan ==
  /\ di = "scan" /\ di' = "sort"
  /\ cfg' = [cfg EXCEPT !.games = medium, !.count = CountSoFar, !.sorted = FALSE]
  /\ file' = cfg'
  /\ excused' = (excused \/ cfg.games # medium)
  /\ UNCHANGED <<es, requested, armed, disc, applied, cvr, medium, drive, chosen>>

Sort ==
  /\ di = "sort" /\ di' = "start"
  /\ cfg' = [cfg EXCEPT !.count = Cardinality(cfg.games), !.sorted = TRUE]
  /\ file' = cfg'
  /\ UNCHANGED <<es, requested, armed, disc, applied, cvr, medium, drive, chosen, excused>>

(* _main: the disc of the last time, the real one if there is still one.   *)
AtStart == IF cfg.mount /\ drive THEN Real ELSE cfg.slot
Start ==
  /\ di = "start" /\ di' = "up"
  /\ DVDSelectGame(AtStart) /\ cvr' = drive
  /\ excused' = (excused \/ ~Opens(AtStart))
  /\ UNCHANGED <<es, requested, armed, medium, drive, chosen>>

-----------------------------------------------------------------------------
(* DI takes a call of ES: WRITE_CONFIG, SELECT_GAME, MOUNT_DISC.  Each is  *)
(* an open, a command and a close; the open is message enough for DI to    *)
(* look at the real drive first.                                           *)
Answered == call' = IF call.next = "none" THEN NoCall ELSE [call EXCEPT !.kind = call.next, !.next = "none"]

MaxArmed == 2   \* bound: timers running at once

WriteConfig ==
  /\ call.kind = "write" /\ file' = Written(cfg)
  /\ UNCHANGED <<requested, armed>>
SelectGame ==
  /\ call.kind = "select" /\ requested' = call.slot
  /\ armed < MaxArmed /\ armed' = armed + 1
  /\ UNCHANGED file

Serve ==
  /\ di = "up" /\ cvr = drive
  /\ WriteConfig \/ SelectGame
  /\ Answered
  /\ UNCHANGED <<menu, reinsert, di, cfg, disc, applied, cvr, medium, drive, chosen, excused>>

(* The message of a timer: the last timer is stopped, unless its message   *)
(* is on its way as well.                                                  *)
Expire ==
  /\ di = "up" /\ armed > 0
  /\ armed' \in {0} \cup {armed - 1}
  /\ DVDSelectGame(requested)
  /\ excused' = (excused \/ ~Opens(requested))
  /\ UNCHANGED <<es, di, requested, cvr, medium, drive, chosen>>

(* The real drive has changed.                                             *)
Notice ==
  /\ di = "up" /\ cvr # drive /\ cvr' = drive
  /\ IF drive THEN DVDSelectGame(Real) ELSE UNCHANGED <<disc, applied, cfg, file>>
  /\ UNCHANGED <<es, di, requested, armed, medium, drive, chosen, excused>>

(* The console opens a partition, and DI asks ES for its key: ES answers   *)
(* unless it is waiting for DI.                                            *)
OpenPartition ==
  /\ di = "up" /\ disc # None /\ di' = "asking"
  /\ UNCHANGED <<es, requested, armed, disc, applied, cvr, cfg, file, medium, drive, chosen, excused>>
Answer ==
  /\ di = "asking" /\ call = NoCall /\ di' = "up"
  /\ UNCHANGED <<es, requested, armed, disc, applied, cvr, cfg, file, medium, drive, chosen, excused>>

DI == Look \/ Scan \/ Sort \/ Start \/ Serve \/ Expire \/ Notice \/ OpenPartition \/ Answer

-----------------------------------------------------------------------------
(* SMenuReadPad.  ES looks at the pad when it waits for nothing.           *)
Waiting(c) == c.kind # "none"
Idle       == ~Waiting(call) /\ di \in {"up", "asking"}

Ask(kind, slot, next) == call' = [kind |-> kind, slot |-> slot, next |-> next]

At(type)  == [Closed EXCEPT !.show = TRUE, !.type = type]
Hide      == menu' = [menu EXCEPT !.show = FALSE]
Lists     == {"games", "channels"}

(* Any button, while the menu is hidden, first puts the disc in again if a *)
(* setting was changed: the game whose slot was noted down, which is not   *)
(* the last one asked for while a timer runs, and never the real disc.     *)
Overtakes == armed > 0 \/ chosen = Real
Again ==
  IF ~menu.show /\ reinsert
  THEN Ask("select", cfg.slot, "none") /\ reinsert' = FALSE /\ excused' = (excused \/ Overtakes)
  ELSE UNCHANGED <<call, reinsert, excused>>

PressStart ==
  /\ menu' = IF menu.show /\ menu.type \in Lists THEN [menu EXCEPT !.show = FALSE] ELSE At("games")
  /\ Again /\ UNCHANGED <<cfg, chosen>>

PressZ ==
  /\ menu' = IF menu.show /\ menu.type \in Lists
             THEN At(IF menu.type = "games" THEN "channels" ELSE "games")
             ELSE [menu EXCEPT !.show = ~@, !.type = "settings"]
  /\ Again /\ UNCHANGED <<cfg, chosen>>

PressOther == ~menu.show /\ Again /\ UNCHANGED <<menu, cfg, chosen>>

PressB ==
  /\ menu.show
  /\ menu' = CASE menu.type \in {"games", "settings"} -> [At(menu.type) EXCEPT !.show = FALSE]
               [] menu.type = "channels" -> At("games")
               [] OTHER -> At("settings")
  /\ UNCHANGED <<call, reinsert, cfg, chosen, excused>>

(* The pages of settings follow one another: X goes forth, Y back.         *)
Pages == [settings |-> "hacks", hacks |-> "dml", dml |-> "settings"]
PressXY ==
  /\ menu.show /\ menu.type \notin Lists
  /\ \E p \in {Pages[menu.type], Pages[Pages[menu.type]]} : menu' = At(p)
  /\ UNCHANGED <<call, reinsert, cfg, chosen, excused>>

-----------------------------------------------------------------------------
(* The lists.  The cursor is a line of the page and the first line shown.  *)
Cursor == menu.pos + menu.scroll
Count  == IF menu.type = "games" THEN cfg.count ELSE Channels
Lowest == -2   \* bound: how far above the list the cursor is followed
To(pos, scroll) == menu' = [menu EXCEPT !.pos = pos, !.scroll = scroll, !.astray = FALSE]

(* Above the list, the comparisons with Gamecount are unsigned, and fail.  *)
UpToCount(i) == i >= 0 /\ i <= Count
More(i)      == i >= 0 /\ i < Count

Up   == menu' = IF menu.pos > 0 THEN [menu EXCEPT !.pos = @ - 1]
                ELSE [menu EXCEPT !.scroll = IF @ \in {0, Lowest} THEN @ ELSE @ - 1]
Down == menu' = IF ~More(Cursor + 1) THEN menu
                ELSE IF menu.pos < EntryCount - 1 THEN [menu EXCEPT !.pos = @ + 1]
                ELSE [menu EXCEPT !.scroll = @ + 1, !.astray = menu.scroll < -1]
PageOf(s) == IF s < 0 THEN 0 ELSE (s \div EntryCount) * EntryCount
PageDown == To(0, IF PageOf(menu.scroll) + EntryCount < Count THEN PageOf(menu.scroll) + EntryCount ELSE 0)
PageUp   == To(0, IF PageOf(menu.scroll) > EntryCount THEN menu.scroll - EntryCount ELSE 0)

Move ==
  /\ menu.show /\ menu.type \in Lists
  /\ Up \/ Down \/ PageDown \/ PageUp
  /\ UNCHANGED <<call, reinsert, cfg, chosen, excused>>

(* X and Y go to the next and to the previous letter of the list of games. *)
(* Both compare with memory outside the list when there is no such letter: *)
(* Y looks for the end of the first letter's games before the list, and    *)
(* finds it or not, depending on what lies there.                          *)
Places     == 0 .. cfg.count - 1
Letter(i)  == Initial[Nth(cfg.games, i)]
Astray     == \E s \in Lowest .. -1 : menu' = [menu EXCEPT !.pos = 0, !.scroll = s, !.astray = TRUE]

NextLetter ==
  LET after == {i \in Places : Letter(i) > Letter(Cursor)}
  IN  To(0, IF after = {} THEN 0 ELSE Min(after))

PreviousLetter ==
  LET before == {i \in Places : Letter(i) < Letter(Cursor)}
      letter == Letter(IF before = {} THEN cfg.count - 1 ELSE Max(before))
  IN  \/ To(0, Min({i \in Places : Letter(i) = letter}))
      \/ letter = Letter(0) /\ Astray

Jump ==
  /\ menu.show /\ menu.type = "games"
  /\ IF cfg.count > 0 /\ Cursor >= 0 THEN NextLetter \/ PreviousLetter
     ELSE \/ Astray \/ To(0, 0) \/ UNCHANGED menu
          \/ cfg.count = 0 /\ Cursor = 0 /\ EntryCount > 1 /\ To(1, 0)
          \/ cfg.count > 0 /\ To(0, Min({i \in Places : Letter(i) = Letter(cfg.count - 1)}))
  /\ UNCHANGED <<call, reinsert, cfg, chosen, excused>>

(* A starts it: the game at the cursor; a channel, which restarts IOS.     *)
InPage == menu.pos
Entry  == Cursor
Choose ==
  /\ menu.show /\ menu.type = "games"
  /\ Ask("select", Entry, "none") /\ Hide
  /\ chosen' = IF cfg.count = 0 THEN None ELSE Nth(cfg.games, Slot(Cursor))
  /\ excused' = (cfg.count = 0)
  /\ UNCHANGED <<reinsert, cfg>>

LaunchChannel ==
  /\ menu.show /\ menu.type = "channels"
  /\ Ask("launch", 0, "none") /\ Hide /\ UNCHANGED <<reinsert, cfg, chosen, excused>>

-----------------------------------------------------------------------------
(* The settings.  A, Right and Left change what the row is about; Left     *)
(* puts the disc in again at once, and leaves the flag.                    *)
Buttons == {"A", "Right", "Left"}
Unmarked == cfg' = [cfg EXCEPT !.set = 1 - @] /\ UNCHANGED reinsert
Change   == cfg' = [cfg EXCEPT !.set = 1 - @] /\ reinsert' = TRUE
After(b, again) == IF b = "Left" /\ again THEN "select" ELSE "none"
Overtaken(b, again) == excused' = (excused \/ (b = "Left" /\ again /\ Overtakes))

(* A row whose setting is written, and takes effect with the disc.         *)
DiscRow(b) ==
  /\ Change /\ Ask("write", cfg.slot, After(b, TRUE)) /\ Overtaken(b, TRUE)

(* The type of the hook: written by A only.                                *)
HookRow(b) ==
  /\ b # "A" /\ Change /\ Overtaken(b, TRUE)
  /\ IF b = "Left" THEN Ask("select", cfg.slot, "none") ELSE UNCHANGED call

(* A row whose setting needs no disc; a row of which Left and Right change *)
(* nothing that lasts.                                                     *)
PlainRow(b) ==
  /\ Ask("write", cfg.slot, After(b, reinsert)) /\ Overtaken(b, reinsert)
  /\ UNCHANGED <<cfg, reinsert>>
EmptyRow(b) ==
  /\ b # "A" /\ Overtaken(b, reinsert)
  /\ IF b = "Left" /\ reinsert THEN Ask("select", cfg.slot, "none") ELSE UNCHANGED call
  /\ UNCHANGED <<cfg, reinsert>>

SettingsRow ==
  /\ menu.show /\ menu.type = "settings"
  /\ \E b \in Buttons : DiscRow(b) \/ HookRow(b) \/ PlainRow(b) \/ EmptyRow(b)
  /\ UNCHANGED <<menu, chosen>>

(* Row 12 mounts the real disc.                                            *)
MountRow ==
  /\ menu.show /\ menu.type = "settings"
  /\ Ask("select", Real, "none") /\ Hide /\ chosen' = Real /\ excused' = ~drive
  /\ UNCHANGED <<reinsert, cfg>>

(* Rows 18 to 20: the list of games, a cache of ES, all settings, another  *)
(* NAND; each restarts the console.                                        *)
Emptied  == [cfg EXCEPT !.count = 0]
Restored == [cfg EXCEPT !.set = Default.set, !.mount = FALSE]
RestartRow ==
  /\ menu.show /\ menu.type = "settings"
  /\ \/ cfg' = Emptied /\ Ask("write", 0, "launch") /\ UNCHANGED excused
     \/ cfg' = Restored /\ Ask("write", 0, "launch") /\ excused' = (excused \/ chosen = Real)
     \/ UNCHANGED <<cfg, excused>> /\ Ask("launch", 0, "none")
  /\ UNCHANGED <<menu, reinsert, chosen>>

(* The page of the GameCube loader writes nothing until its last row.      *)
DmlRow ==
  /\ menu.show /\ menu.type = "dml"
  /\ (Change /\ UNCHANGED call) \/ (Ask("write", 0, "none") /\ UNCHANGED <<cfg, reinsert>>)
  /\ UNCHANGED <<menu, chosen, excused>>

(* The hacks are in a file of their own; writing it restarts the console   *)
(* if one of them asks for it.                                             *)
HacksRow ==
  /\ menu.show /\ menu.type = "hacks"
  /\ Ask("launch", 0, "none") /\ UNCHANGED <<menu, reinsert, cfg, chosen, excused>>

Press ==
  /\ Idle
  /\ \/ PressStart \/ PressZ \/ PressOther \/ PressB \/ PressXY
     \/ Move \/ Jump \/ Choose \/ LaunchChannel
     \/ SettingsRow \/ MountRow \/ RestartRow \/ DmlRow \/ HacksRow
  /\ UNCHANGED <<dip, file, medium, drive>>

-----------------------------------------------------------------------------
(* IOS restarts; whatever was only in memory is gone.                      *)
Anew ==
  /\ menu' = Closed /\ reinsert' = FALSE /\ call' = NoCall
  /\ cfg' = Default /\ di' = "look" /\ requested' = 0 /\ armed' = 0
  /\ disc' = None /\ applied' = 0 /\ cvr' = FALSE

(* A disc asked for is not there yet.                                      *)
Underway == armed > 0 \/ "select" \in {call.kind, call.next} \/ cvr # drive

LaunchTitle ==
  /\ call.kind = "launch" /\ Anew
  /\ excused' = (excused \/ Underway)
  /\ UNCHANGED <<file, medium, drive, chosen>>

(* Switched off; the file being made anew may be there without content, or *)
(* not at all.  Then the medium may be filled, and a disc put in or out.   *)
Left == {file} \cup IF di \in {"scan", "sort"} \/ (di = "look" /\ file.state # "whole")
                    THEN {Absent, Empty} ELSE {}
PowerOff ==
  /\ Anew /\ file' \in Left
  /\ medium' \in Media /\ drive' \in BOOLEAN
  /\ excused' = (excused \/ Underway \/ drive' # drive)
  /\ UNCHANGED chosen

(* A disc is put into the real drive, which is to say that it is wanted,   *)
(* or taken out.                                                           *)
Insert ==
  /\ ~drive /\ drive' = TRUE /\ chosen' = Real
  /\ excused' = (armed > 0 \/ Waiting(call) \/ cvr \/ di \notin {"up", "asking"})
  /\ UNCHANGED <<es, dip, cfg, file, medium>>
Remove ==
  /\ drive /\ drive' = FALSE /\ excused' = (excused \/ chosen = Real)
  /\ UNCHANGED <<es, dip, cfg, file, medium, chosen>>

Next ==
  \/ DI
  \/ Press \/ LaunchTitle \/ PowerOff \/ Insert \/ Remove

Spec == Init /\ [][Next]_vars

-----------------------------------------------------------------------------
(* Nothing is under way between the user and the drive.                    *)
Quiet == di = "up" /\ ~Waiting(call) /\ armed = 0 /\ cvr = drive

(* The game chosen last ends up in the drive and is there again after a    *)
(* restart; unless it cannot be opened, the list is another one, the real  *)
(* disc was taken out (and put in again, before DI looked), came while a   *)
(* game was awaited or while DI started, or is not thought of by settings  *)
(* that are reset; the console restarted before the timer ran out; or the  *)
(* disc was put in again for a changed setting while the timer ran or      *)
(* while the real disc was meant (SMenu.c:1102).                           *)
ChoiceKept == Quiet => disc = chosen \/ excused

(* With the menu closed and no disc to put in again, the game runs with    *)
(* the settings as they are, and they are the ones in the file.            *)
SettingsSettle ==
  Quiet /\ ~menu.show /\ ~reinsert /\ disc # None =>
    applied = cfg.set /\ file.set = cfg.set /\ file.slot = cfg.slot

(* The list the menu works on is whole and in order, whenever the power    *)
(* fails while it is made.                                                 *)
ListComplete ==
  di \in {"up", "asking"} /\ ~Waiting(call) =>
    /\ cfg.count = Cardinality(cfg.games) /\ cfg.sorted
    /\ file.state = "whole" /\ file.games = cfg.games /\ file.count = cfg.count

(* The cursor is on a line of its list, unless a jump to the previous      *)
(* letter went on before the first one (SMenu.c:1374, 1390).               *)
CursorInList ==
  menu.show /\ menu.type \in Lists /\ Count > 0 /\ ~Waiting(call) =>
    menu.astray \/ (menu.pos \in 0 .. EntryCount - 1 /\ Cursor \in 0 .. Count - 1)
=============================================================================
