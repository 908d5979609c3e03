# A verification development for SNEEK / UNEEK

This directory holds TLA+ models of the program in `src/` (IOS modules and the "mini" boot
firmware for the ARM processor of the Wii: an emulated disc drive, an emulated NAND file system
on an SD card or a USB disk, a replacement of the ES module, and the loader that starts them), the
TLC configurations that check them, and proofs for TLAPS.

Contents: [the system](#the-system), [modules](#modules), [how each model corresponds to the
code](#how-each-model-corresponds-to-the-code), [runs](#runs), [where the code and its own words
disagree](#where-the-code-and-its-own-words-disagree), [proofs](#proofs), [not
modelled](#not-modelled), [plan](#plan), [running it](#running-it).

## The system

| part | directory | state it keeps | operations | how it talks to the others |
|---|---|---|---|---|
| mini: IPC server | `mini-tree-mod/ipc.c`, `irq.c` | `in_queue`, `slow_queue`, `out_queue` and their indices, half of them in the message registers | `ipc_irq`, `process_in`, `ipc_process_slow`, `process_slow`, `ipc_post`, `ipc_flush` | rings in shared memory and doorbell interrupts with the PowerPC; jobs from the SD and the gecko interrupt |
| mini: NAND driver | `nand.c` | `current_request`, the page buffer, `irq_flag` | `nand_ipc`, `nand_irq`, `nand_wait` | jobs of the IPC server; the controller's interrupt; `boot2.c` uses it directly while booting |
| mini: SD host and card | `sdhc.c`, `sdmmc.c` | `card`, `intr_status` | discover, select, read, write, command with timeout | card interrupts queue a job; FatFs reads sectors |
| mini: boot2 | `boot2.c` | `boot2_copy`, the pages of the copy chosen | load, run | NAND driver; answers through IPC before it ends it |
| mini: the rest | `main.c`, `crypto.c`, `powerpc.c`, `gecko.c`, `memory.c`, `elfloader/` | keys, an upload buffer | start-up, AES, reset of the PowerPC | IPC requests |
| FS | `fs/` (card), `fs-usb/` (USB disk) | `fd_stack`, `obcd_trig`, `HAXHandle`, `nandpath`; the FAT file system | open, close, read, write, seek, create, delete, rename, list | messages of every other module and of the PowerPC; FatFs below |
| DI | `di/` (`di-usb/` is a variant) | the game selected, its keys and partition, `DICover`, `ChangeDisc`, `error`; the file cache `FC`, the block cache `BC`; the handle table; `requested_game` and its timer | the drive commands, the game menu's commands | message queue with the PowerPC, the ES module and kernel timers; files through FatFs of its own (SNEEK) or through FS (UNEEK) |
| ES | `es/` | `iTMD`, `SkipContent`, `CNTMap`, cached title lists; `/shared1/content.map`, `/title`, `/ticket`, `uid.sys` | title import, launch, lists, deletion, tickets; the boot menu; an emulated SD card | messages of the PowerPC; files through FS; games through DI |
| loader | `nswitch/` | none | loads the firmware | - |

Every IOS module is one thread that takes a message, serves it to the end and answers it. The hard
behaviour is therefore of five kinds: mini, where an interrupt handler and a main loop share
everything; requests that take several messages, between which others come (the disc change, the
import of a title, the two-message open of DI); power cuts between two file operations; devices
that answer late, wrongly or not at all, or are pulled out (SD card, USB disk); and fixed-size
tables and caches whose limits a long legal session reaches.

What makes each part correct, in a sentence:

- *IPC server*: each request is answered exactly once, no wake-up is lost, two writers never share
  a slot, and the queue does not overrun within its budget.
- *NAND driver*: an answer tells the truth about the chip although there is one buffer and one
  request in progress, and boot2 is never overwritten.
- *FS*: a handle has one owner, what disappears was asked to, and every request ends.
- *DI handles and cache*: a handle has one owner, and a read gives the file of the selected game.
- *DI disc change*: the last game asked for ends up in the drive, the console notices, and the key
  is that of the game.
- *DI disc data*: a block comes from its place in the split image, whatever the caches hold, and
  every read ends.
- *Title import*: a TMD is there only with its contents, shared contents agree with the map, and
  nothing a cancelled or interrupted import did disturbs another.
- *ES titles*: the lists answered from memory are those of the NAND, a title started is the one
  meant, a bad order does not loop, and a user number belongs to one title for good.
- *Boot menu and game list*: the game chosen last ends up in the drive, a changed setting ends up in
  file and game, and the list is whole wherever the power failed while it was made.
- *SD card*: a transfer reported done was done on the card the client acknowledged, and a swap is
  noticed.
- *USB disk*: a retry never meets a device still at the last command, and what is reported done was
  done to the right sectors.

## Modules

| module | what it is |
|---|---|
| `Ring` | index arithmetic of the three queues of mini |
| `MiniIPC` | PowerPC, interrupt handler and main loop over the three rings |
| `IPCService` | abstract: two first-in first-out lanes with one answer to a request |
| `MiniIPCService` | the refinement mapping from `MiniIPC` to `IPCService` |
| `NandDriver` | boot code, `nand_ipc`, `nand_irq` and a controller that can fail |
| `DiscFiles` | handle table and file cache of DI |
| `DiscSwitch` | message queue, timers, disc change and drive commands of DI, with the menu and the console as its clients |
| `DiscChanger` | abstract: a drive, the game wanted, the game the console believes in |
| `TitleImport` | the import commands of ES, their files, power cuts |
| `FSTree` | the requests to FS that change the directory tree, one step per FatFs operation, and power cuts |
| `FSServer` | composes `FSTree` with the handle table and its clients |
| `DiscData` | split files, open files, block cache and usage table of a WBFS image, and the replaced files |
| `GameMenu` | the boot menu of ES, the list of games and the settings in `diconfig.bin`, and the selection of DI (USB build) |
| `EsTitles` | `uid.sys`, tickets and TMDs, the lists in memory, and the files that say what to start |
| `SdHost` | the host controller: the caller of a command, the interrupt handler, the hardware, the hand at the slot |
| `SdCard` | extends `SdHost` with discovery, acknowledgement and transfers |
| `UsbDisk` | mounting, commands, retries and resets over a bulk-only device that may fail |
| `MC*` | finite instances; symmetry, the views of `MCMiniIPC` and `MCGameMenu`, the imports, files and images of the instances |
| `*_proofs` | theorems about the module they are named after; `DiscFiles_proofs` is also about `UsbDisk`, `DiscSwitch_proofs` about `DiscData`, and `MiniDrivers_proofs` about `NandDriver` and `SdCard` |

Every module takes the sizes of tables, rings and caches, the sets of requests and the bounds as
CONSTANTS. A bound (a limit of the model which the code does not have) is marked `bound:` at its
declaration: `MaxSilentJobs`, `MaxJobs`, `MaxClient`, `MaxSelect`, `MaxRequests`, `MaxDepth`,
`MaxEntries`, `MaxSize`, `Files`, `Targets`, `MaxSwaps`, `MaxDiscover`, `MaxUids`, `MaxFaults`,
`Media`, `MaxArmed`, `Lowest`.

## How each model corresponds to the code

**MiniIPC.** One variable per index and ring. The registers that carry two indices each
(`HW_IPC_ARMMSG`, `HW_IPC_PPCMSG`) are taken apart, and an index kept both in a C variable and in a
register is one variable, since both are written in one go. `main` and `handler` are program
counters: a step ends wherever the other activity may observe or disturb it, so `ipc_post` is two
steps (fill the slot, publish the index). The handler runs only while interrupts are on
(`irq_kill` / `irq_restore`), and to its end. Requests are grouped by how the server treats them
(fast or slow, answered or not, ending the loop or not). The interrupt line is level-triggered.
The shipped `main.c` goes straight to `boot2_run`, its call of `ipc_process_slow` is commented out
(`main.c:104`); the model is of the IPC service with that loop, as `ipc.c` has it. The jobs that
`gecko_timer` queues look like those of card events and are not distinguished from them. The
PowerPC is external: it rings after it has written, and takes answers in order.

**NandDriver.** Before `idle` the boot code reads pages itself and sleeps in `nand_wait`; afterwards
`nand_ipc` starts commands and `nand_irq` answers. The controller (external) does the command and
may fail in any read, write or erase (`nandError` is what really happened), or leave 0 to 2 wrong
bits in a page it read, of which `nand_correct` repairs one. `irq_handler` writes `NAND_CMD` before
`nand_irq` looks for `NAND_ERROR` in it (`irq.c:66`, `nand.c:71`), so `NandIrq` may find the bit set
or not whatever happened; and for a READ the result of `nand_correct` takes the error's place
(`nand.c:88`). The answer to a command the controller failed in may therefore be a lie, and
`AnswerTruthful` excuses exactly these; it says that no answer is wrong for another reason, such as
the one page buffer being used for the next request too early.

**DiscFiles.** A request (select a game, read a file or a block of the disc, use the configuration,
open or close for a client) is one step, since DI is one thread; a step keeps the order in which the
code opens and closes, because that decides which handle is found free. `Mode` is `FSMode`: in
UNEEK an open that fails gives a negative number, in SNEEK it gives `FR_DISK_ERR` = 1.

**DiscSwitch.** `queue` is the message queue of the module, `Serve` takes a message and does all its
handler does. A request for a game restarts a timer of half a second; the timer's message makes
`DVDSelectGame` change `disc`, `key` and `ChangeDisc` - in the order of the code, so a selection that
fails half-way has done its first half. A lost WBFS image is `Gone`: once any image was opened
(`splits`, the code's `splitcount`, which a failed selection leaves as it was) `WBFS_Read` looks for
its offset in emptied split files for ever (`Hangs`); before, it fails, which its callers ignore, and
what they do then without tables is left open. The console's part is external: with `Polite` it does what
the drive's protocol asks (ask for the cover, reset, read the disc id, open the partition, read);
without, any command at any time. Timers of the kernel are one-shot. Left out: unknown commands
(answered, and then an endless loop), an empty list of games, `DVDInsertDisc` (nobody calls it) apart
from its effect, the contents of partitions.

**TitleImport.** A command that changes only memory and `/tmp` is one step: FS wipes `/tmp` when it
starts, so no state between its file operations survives. `ES_AddTitleFinish` is one step per file
operation, and `PowerCut` may come between any two. Pieces of a content may be damaged, repeated or
missing; what the decrypted file is worth is its hash. The installer (external) sends contents in
the order of the TMD and may leave out optional ones; after an optional content was refused it may
go on. Any open of ES may fail, since FS has few handles (`Fault`), and the code checks few of them:
`content.map` that cannot be loaded makes `ES_AddTitleFinish` skip the content and report success
(`InstallUnknown`, `ES.c:1107`); one that cannot be opened for its end gives a new shared content the
number 0 (`NewFile`, `ES.c:1059`), and the rename removes the file of the first entry; a private
content that is there and cannot be opened is replaced by what `/tmp` has, or by nothing
(`InstallPrivate`). A content that cannot be decrypted for want of a ticket ends the import with its
files left in `/tmp` (`TicketMissing`, `es/main.c:423`), and a later cancel deletes by what it finds at
address 0 (`CancelForgotten`). `past` records which of these happened, for the properties' excuses.
The handle that stays open when the temporary file of a content is missing (`ES.c:1070`) is not
counted; an open that fails for it is one of the faults.

**FSTree and FSServer.** `tree` maps paths to the size of a file or to `Dir`. A request that FatFs
serves in one operation is one step; `FS_Move` onto an existing file and `FS_Delete` of a directory
are state machines, with `stack` for the calls of the recursive `FS_Delete` and `nandpath` as the
global variable it is. FatFs's operations are atomic. In `FSServer`, an entry of `fd_stack` in use is
one with `fs # NULL`, `0x60` and `/AX` are two messages, and `held` is what the IOS kernel knows: who
was given which handle. Clients (external) do not delete, move or share for writing a file one of
them has open, since FatFs is built without sharing. `FS_Close` may fail, and frees the handle
anyway. `/import`, which is treated as `/tmp` is, is left out.

**DiscData.** An image is a row of numbered units, so that what a read delivered can be compared with
what was asked for. A read is several steps, since `WBFS_Read` loops over the split files; everything
else the drive does between two reads (a selection, the identification read through slot 0, a file
under `/custom`) is one step. `Offsets` holds the ends of the split files, which the code sums up from
their sizes when it lists them (`FS[].Offset`). `cause` is the first thing since the selection that may spoil data, and
`ReadsRight` says that nothing else does. A selection that fails leaves `FMode`, the usage table of
the image before (`table`) and as many split files as there were, emptied (`NoSplits`): reads of the
new image go on with these, and in a row of emptied files `WBFS_Read` goes round for ever (`Spin`).
With no image opened since the start it fails at once and its callers deliver what is in memory
(`ReadWithoutSplits`; a module that stops there is a behaviour of the specification too). A replaced
file that cannot be opened is served from the image (`Looked`, then as any other block). Left out: the decryption itself, and the images of the
other formats.

**GameMenu.** The code is that of `es/SMenu.c` with `di-usb/`, the later form of `di/`. ES waits for
the answers of DI (`call`), DI for the key from ES (`di = "asking"`); `cfg` is `DICfg`, which both
write without asking. One setting stands for all that take effect with the disc; a row is reached
without walking to it, and what a row is about is told apart by how it writes, reopens or restarts.
A timer that ran out is still there for DI while another is armed. `chosen` is what the user asked
for last; `excused` collects the cases, listed at `ChoiceKept`, in which the code does not keep it.
The user may switch the console off between any two steps; the file being made anew is then there
whole, empty or not at all. Left out: the settings without a disc, drawing, the cache of channels
behind the second list, the contents of the file of hacks.

**EsTitles.** A file is written under `/tmp` and renamed onto its name in two steps, and the power may
fail between them. `kind` picks one of the two lists (titles, owned titles): they are the same code
over variables of their own, and neither reads the other's. `Handles` are those FS has for ES, which
some paths of ES keep. Without an order the title of the settings is started (`autoboot`, the
menu by default): the patch menu over the system menu sets it to one of the channels it has found.
Its list of channels may be older than a deletion; that is left out, since choosing first and
deleting then gives the same. `hackscfg.bin` is written back whenever it is read, so a power cut may
lose it. `fails` does not count the starts lost to a title of the settings; `NoBootLoop` says of these
that the title is not there any longer. Left out: the boot from memory (`GetBootConfigFromMem`),
autoboot of a DOL (the menu has no way to choose it), GameCube mode, `ES_LoadModules`, the commands that only read, and titles with bit 29 of their identifier
set, which the mask of `ES_GetUID` never finds again.

**SdHost and SdCard.** The caller of a command, the interrupt handler, the controller and the person at
the slot are four actors. A wait that times out goes on without cancelling its command
(`sdhc.c:727` is commented out), so an interrupt may come during the next one; `stray` marks a command
begun over another. `sdmmc_needs_discover` is one step per command. Left out: the search for the
controller, the arithmetic of the CSD and of clocks, SDIO interrupts and the copies of both files in
`fs/`, which poll.

**UsbDisk.** `pc` is the place in `__cycle`: command block, data, status block, reset; after a
silence among the data the device is reset before the command is left (`leave`). The device
(external) follows the bulk-only protocol and keeps a toggle bit per direction; it may refuse a
command, move less than asked, halt an endpoint or fall silent, `MaxFaults` times in all. Left out:
descriptors, ports, units other than the first, suspend and stress functions, and the copy of this
code in `di/`.

## Runs

Distinct states are those found with the given bounds; deadlock is checked except where noted.

| run | instance | states | what it shows |
|---|---|---|---|
| `ipc_safety` | rings of 2, 2 and 5, two tags, all kinds of answered and ending requests, one card event | 1.9 M | `BootAnswerRead`, `JobStable`; `MiniIPC` implements `IPCService`, so each request is answered exactly once and the queues do not overrun |
| `ipc_live` | rings of 2, 2 and 4, one tag | 375 k | every fast request is answered; every request is, unless fast ones never stop |
| `nand` | four pages, the first two boot2's; two tags; two boot reads; any command may fail | 467 k | one answer each, true unless its command failed, the boot area intact, every request answered while clients keep to their pages |
| `disc_files` | four handles, a cache of two, three games, one of which fails to load; UNEEK | 128 k | `OneOwner`, `ReadsRight` |
| `disc_data` | two images of two and three split files, one with a hole, one with a replaced file; two blocks and two files cached; any selection and any open may fail | 67 k | `ReadsRight` but for five named causes; `ReadEnds` but for two kinds of offset and a failed selection |
| `game_menu` | three games, two with the same letter, three media, pages of two lines, two timers | 2.4 M | `ChoiceKept`, `SettingsSettle`, `ListComplete`, `CursorInList` |
| `disc_switch` | three games (WBFS, lost WBFS, GameCube), two timers, two requests, polite console | 1.7 M | `RightKey`, `NoMissedChange`; `DiscSwitch` implements `DiscChanger`, its fairness included, so the last request wins |
| `title_import` | two titles, three imports that share contents, two pieces; one open that fails or ticket that is missing | 495 k | the map is sound and without duplicates, installed titles are complete, shared contents stay, each but for named failures |
| `es_titles` | system menu, a channel, a disc and an IOS; one handle; four UIDs; any channel started by default | 562 k | `ListsTruthful`, `LaunchHonoured`, `NoBootLoop`, `UidKept` |
| `fs_server` | two names to a depth of three, four entries, two handles, two clients | 360 k | `NoOrphans`, `OneOwner`, `RawOnlyIfAsked`, `NothingElseVanishes`, and every request answered |
| `sd_card` | two cards, two swaps, two discoveries, two transfers, two tries | 964 k | `TransferTruthful`, `SwapNoticed`; every job ends |
| `usb_disk` | two transfers, three faults, four tries, messages that wrap at three sectors | 58 k | `DoneRight`, `InStep`, `LostForAReason`; every command ends |

Four more configurations are kept beside these runs, each for a statement of the program that its
code does not keep (see [below](#where-the-code-and-its-own-words-disagree)).

*Are the bounds enough?* Rings of size 2 hold one element, so they are full and wrap at once; the
slow ring holds four, one more than the jobs that can be outstanding with its finished slot, which
is the case in which `ImplementsService` could fail for an overrun. Four pages are two blocks, one on either side of `NAND_MIN_PAGE`.
Three games selected through a cache of two overwrite every slot and exhaust four handles. Two disc
changes within the time of one timer leave one timer forgotten, which is what goes wrong in the code.
A content shared by two imports and listed twice in one shows every way through `ES_AddTitleFinish`,
and one failing open each of its excuses; a second one adds no way through the code (the proofs have
any number).
A directory in a directory with a sibling is the smallest tree on which `FS_Delete` loses its path,
and two handles, one of them in `HAXHandle`, fill the table of FS between `0x60` and `/AX`. Two blocks
in a cache of two, whose slot 0 the identification uses as well, and images whose blocks both meet
and cross the borders of split files show every way through `WBFS_Read`. Three games on pages of two
lines give a list that scrolls, with a letter of two games; two timers are enough for one that DI has
forgotten. Two cards are needed to see one taken for the other, two swaps to put one back; a second
transfer meets what the first left behind, in the SD controller as in the USB device, and three
faults use up three of the four tries. One handle lets ES run out of them. Where the properties do
not depend on the size, the theorems below replace the bound.

*Deadlock* is not checked where the system may stop: mini ends by leaving its loop or in a panic; the
NAND driver stays busy after a forbidden request; a polite console stops when the drive hangs; a
card or a disk has nothing to do when all transfers, swaps and faults are used up. In `game_menu` it
is checked, and the console can always be switched off: the state in which ES and DI wait for each
other (below) is not a deadlock of the model, and no other step leads out of it.

*Symmetry and view.* Tags and file names are only compared, so their permutations are symmetries, used
in runs for safety only. The view of `MCMiniIPC` leaves out slots outside the live part of a
ring, which nobody reads again before they are written; that of `MCGameMenu` the cursor of a menu
that is not shown, the request no timer waits for, and the choice once it is excused.

*Fairness.* `MiniIPC`: every step of the handler and of the main loop is weakly fair (a processor goes
on), and the entry of an interrupt strongly fair, since the processor takes a pending interrupt
whenever interrupts are on, and the loop turns them off and on for ever. The PowerPC rings after it
has written and reads its answers. Without the premise that fast requests stop, a flood of them may
keep the handler busy for ever: that is why `AllAnswered` has it. `NandDriver`: boot code,
job loop and controller are weakly fair, the interrupt strongly (as in `MiniIPC`). `DiscSwitch`: the module serves its queue and timers expire (weak); the
console asks for the cover again and again (strong, because other requests make it wait), and
goes on with what the cover told it (weak). `FSServer`: the module goes on with the request it is at
(weak); `Answered` is for executions in which the power does not fail for ever. `DiscData`: a read that
was begun goes on (weak; DI is one thread). `SdCard`: the main loop goes on with its job, and a
pending interrupt is taken (weak; no other handler keeps it out for ever); the controller owes nothing,
which is what the time-outs are for. `UsbDisk`: the driver goes on (weak); a silent device is ended by
the time-out of the message.

## Where the code and its own words disagree

Each of these is a counterexample of a configuration that is kept here without being one of the runs:
`tlc -config <configuration> <module>` finds it.

- **A forbidden page keeps the driver busy** (`MCNandDriver_forbidden`, `mini-tree-mod/nand.c:214`). A
  WRITE or ERASE below `NAND_MIN_PAGE` or beyond the chip returns from `nand_write_page` without a
  command; `current_request` stays set, no interrupt comes, and every later request is
  refused with "previous IPC request is not done yet" (`nand.c:300`).
- **A full handle table answers handle 1** (`MCDiscFiles_switch`, `di/DIGlue.c:136`), in SNEEK mode.
- **Success is not always reported** (`MCTitleImport_success`, `es/ES.c:1106`). When the last content
  listed is an absent optional shared one, or all contents are shared and known, `r` is not
  `ES_SUCCESS` and the TMD is not installed.
- **The deletion of a directory is incomplete** (`MCFSServer_delete`, `fs/FS.c:604`). After a subdirectory
  with content, the remaining entries are looked for under the wrong path; success is answered with
  entries left.

The properties of the runs name further limits of the code where they excuse them: the five causes of
`ReadsRight`, the two offsets and the failed selection of `ReadEnds` (`DiscData`), the excuses of `ChoiceKept` and `astray` in
`CursorInList` (`GameMenu`), the failing opens after which a title lacks a content or the first shared
content is replaced, and the damaged optional content that becomes a shared one when the installer
goes on (`es/ES.c:1535`; `TitleImport`), the commands after which the lists of ES are stale and the
deleted channel that autoboot starts for ever (`es/ES.c:180`, 210; `EsTitles`), transfers
begun over an unfinished command (`SdCard`), a status and a short read that nobody looks at
(`UsbDisk`). Read in the code while modelling, and not part of a property:

- ES and DI can wait for each other: a selection from the menu (`es/SMenu.c:1271`) while DI, opening
  a partition, asks ES for its key (`di-usb/dip.c:1785`). `GameMenu` reaches that state.
- `di-usb/main.c:109` takes over the state of the real drive after the start, so that a disc put in
  during the start is not noticed; `di-usb/dip.c:724` tests a language setting in `Config`, the menu
  keeps it in `Config2`; `MOUNT_DISC` falls through to the next case (`di-usb/dip.c:1269`).
- `es/SMenu.c:218` takes the cache of channels for fresh when only the counts agree; `SMenu.c:1928`
  goes on counting when the channel noted lies beyond a list that has become shorter;
  `SMenu.c:1532` uses `NandCfg` also when there is none.
- `di/dip.c:918` closes handle 1 for a GameCube image although it was not opened; forgotten timers use
  up the kernel's (`di/dip.c:1331`); a read is not refused when the partition of the last game is still
  noted (`di/dip.c:1443`).
- `es/ES.c:1089` ignores the result of the write of a map entry: with a full medium the shared content
  is there and not in the map, or an entry is cut short and all later ones are shifted.

## Proofs

All theorems are of the form `Spec => ...` and hold for every value of the constants that satisfies
the named assumptions of the module, e.g. rings, tables and chips of every size. Each proof follows
the same plan: an inductive invariant, a lemma that the initial states have it, a lemma that each
step keeps it with one case per action, and a last step that combines them.

| module | theorems | the argument |
|---|---|---|
| `MiniIPC_proofs` | `TypeCorrect`, `PostIsExclusive`, `NoLostWakeup`, `JobIsStable`, `BootAnswerIsRead`, `ServiceImplemented` | interrupts are off exactly at the program points between `irq_kill` and `irq_restore`; so the handler is away while the main loop posts, and between its test of the queue and `irq_wait`. A job's slot is live from `slow_queue_tail` to `slow_queue_head`, and appending never reaches it because one slot stays free. `ServiceImplemented` is the refinement: every step of the PowerPC, of the handler and of the main loop is a step of `IPCService` under the mapping of `MiniIPCService`, or none. It needs the invariant, what the mapped lanes are at each program point, that an index moves one place at a time and by whom (`LanesKept` and the lemmas on `Ring`), and that nothing is posted or flushed once the service is over (`PostInv`, `FlushInv`). |
| `MiniDrivers_proofs`, on `NandDriver` | `TypeCorrect`, `BufferHasOneOwner`, `NoLostPage`, `BootAreaSafe`, `AnswersAreTrue`, `AnsweredOnce` | the command under way belongs to `current_request`, and its effect on chip and buffer is not disturbed until the interrupt answers it. `BootAreaSafe` uses that `MinPage` is a multiple of `BlockPages`. `AnswersAreTrue` holds for any controller; it excuses the answers to commands the controller failed in (see above). For `AnsweredOnce`: a tag that is awaited occurs once in queue, driver and answers together. |
| `MiniDrivers_proofs`, on `SdCard` | `TransfersAreTruthful`, `SwapsAreNoticed` | `SdInv` says what a card that is ready was found to be (`CardInv`); that a transfer, unless begun over another command, has the host to itself, so that the only completion it can take is its own (`DataInv`); and what each step of a discovery has learnt of the card in the slot (`SlotInv`). Any number of cards, swaps, late interrupts and tries. |
| `DiscFiles_proofs`, on `DiscFiles` | `TypeCorrect`, `HandleHasOneOwner`, `ReadsAreRight` | every cached handle and every client's handle is in use with the right file, cached and client handles are disjoint, and `DVDOpen` gives out free ones only. For `Mode = "UNEEK"` and no GameCube images: for the others the statement is false. |
| `DiscFiles_proofs`, on `UsbDisk` | `TransfersAreRight`, `CommandsAreInStep`, `DiskIsLostForAReason` | `UInv` follows a command through its messages and tries. A write goes in one piece or is tried again from its start, and a later try of a read that asks for less than its block is a phase error to the device (`TryInv`); so, in a try that ends with a good status, the sectors lie where they belong, or later ones lie before their place because some were dropped, and then the read has come to an end early (`MovedInv`). Where a command may begin the device waits for one, or missed a reset (`StepInv`). While nothing fell silent and no reset skewed the toggles, both ends agree and the disk stays mounted (`WellInv`). Any number of faults, tries, transfers and sectors in a message. |
| `DiscSwitch_proofs`, on `DiscSwitch` | `ChangeIsNoticed`, `KeyIsRight`, `LastRequestIsServed`, `ChangesGames` | a change opens the cover, and the cover closes only with a report that makes the console reset; an armed timer or a queued expiry exists as long as `disc` is not the game requested. `LastRequestIsServed` assumes as many timers as requests; `ChangesGames` is that every step of `DiscSwitch` is a step of `DiscChanger` or none (its fairness stays with TLC). |
| `DiscSwitch_proofs`, on `DiscData` | `BlocksAreRight` | as long as none of the causes has occurred, table and split files are those of the image selected (`ListedInv`), a slot that is said to hold a block holds it unless it is being filled (`SlotsInv`), and a read has delivered the first units of its block and is at the next (`ReadInv`). `WBFS_Read` cuts a read short by the length of the split file it entered, also when it goes on in another one; that this is never less than nothing is `SplitInv`: it is then no further into the other file than the first one was long. Images cut anywhere, any holes, blocks and caches of any size. |
| `TitleImport_proofs` | `TypeCorrect`, `CacheIsFresh`, `NothingLeftBehind`, `MapIsSound`, `StoredOnce`, `TitlesAreComplete`, `SharedIsStable` | `IInv` joins, to the properties, what is in `/tmp` while contents are sent (`SendInv`, `TmpInv`) and how far the installation is (`InstallInv`): contents before `es.i` are in place, those after it are in `/tmp` with their hash or known. What a failed open or a wrong content has spoilt is followed by `past`: a hollow title lost a content, a wrong hash was in a file that was refused (`TmdRight`), and the rest is right whatever failed. Any number of faults, imports and pieces. |
| `EsTitles_proofs` | `TypesKept`, `ListsAreTruthful`, `LaunchIsHonoured`, `NoBootLoops`, `UidsAreKept` | `IInv` says what the start under way will end in, read off the place it is at and the three files (`Will`, `AskedInv`); that starts lost in a row and orders still to be tried are two at most, because every start that may fail has used up its order or is for the title of the settings, which then is not there (`CostInv`); that every entry of `uid.sys` is of a title of its own and has the number of its place, except that the first may be 1 (`UidInv`, `RunInv`); and what a list in memory is as long as nothing it depends on has changed (`CacheInv`). Any sets of titles, handles and UIDs. |
| `FSServer_proofs` | `TypeCorrect`, `TreeIsWhole`, `HandleHasOneOwner`, `RawAsked`, `VanishesOnlyRightly` | while `FS_Delete` runs, `nandpath` and the paths of every call under way lie below the path of the request (`WalkInv`), so nothing else is removed although `nandpath` is not the caller's; what was checked of a rename when it was asked for still holds when it is done (`MoveInv`), so renamed entries do not collide and their directories are there; and a file that is open is there (`OpenIsFile`), so that `Close` writes the size of a file. Trees, paths and tables of every size. |
| `GameMenu_proofs` | `ListIsComplete`, `CursorStaysInList`, `SettingsAreSettled`, `ChoiceIsKept` | `IInv` follows each of the four through what is under way: a list of no count is a list not made (`ListInv`); the cursor's line is below the count unless the menu went astray, and a jump lands on a least or greatest place of the list (`CursorInv`, `JumpLands`); a setting that game or file lack is marked by the flag, by a selection, by a restart or by a timer (`SettingInv`); and the choice is carried by the call, then by the timer, then by the slot in memory and in the file, which is what a restart goes by (`ChoiceInv`). That a slot in the list stands for a game at all needs that a finite set of numbers has an element with k smaller ones for each k below its size (`EveryPlaceIsTaken`). Games, media, pages and lists of every size. |

Some theorems state what no run checks any longer, because what the run does check implies it on the
instance or is the deeper statement: `PostIsExclusive`, `NoLostWakeup`, `BufferHasOneOwner`,
`NoLostPage`, `LastRequestIsServed`, `CacheIsFresh`, `NothingLeftBehind`.

Only model-checked: liveness (`FastAnswered`, `AllAnswered`, `Answered`, `ReadEnds`, `JobsEnd`, `Settles`,
the fairness of `ImplementsChanger`) and everything with ENABLED, which this prover does not reach.
Every invariant and every action property of the runs is a theorem, that of
`DiscFiles` with the assumptions named in the table.

Two things the proofs taught. The CASE of `MiniIPCService` that maps the state of the service had two
arms that both applied when the handler panics while the main loop has ended; on the instance TLC took
the first. The panic now goes before the rest. And the titles of `EsTitles` must differ from
sequences of entries, and channels from IOSes, which the instance had right and the module did not say.

Induction over data is beyond the prover's library, so the modules that have theorems define nothing
recursively; where a proof needs a least or greatest number (`FirstFreeIsFree`, `LastHolding`,
`EveryPlaceIsTaken`), it takes a minimal element of a set of naturals instead.

## Not modelled

`PROJECT.json` lists every part with the reason. In short: code that runs once without
interaction (start-up, loaders), drawing and the patches of the system menu, register access,
cryptography, third-party code (FatFs but for what FS relies on, printing and strings), the emulated
SD card and the settings editor of ES (`SDI.c`, `sysconf.c`: sequential, over one file), the upload
of the USB Gecko, and FS over USB (`fs-usb/FS.c`), which is `fs/FS.c` with the card's raw access
left out. In the parts that are modelled: the heap, which is taken to be large
enough (several paths of ES free a buffer twice or never, `es/ES.c:1389`, `es/main.c:437`); the length
of paths (`fs/FS.c:601` clears half of its buffers); full media and failing writes.

## Plan

Done: 1. `MiniIPC`, 2. `NandDriver`, 3. `DiscFiles`, 4. `DiscSwitch`, 5. `TitleImport`, 6. `FSTree` and
`FSServer`, 7. `DiscData`, 8. `SdHost` and `SdCard`, 9. `EsTitles`, 10. `UsbDisk`, 11. `GameMenu`, each
with its proofs.

Next, with what is to be modelled and the property it is for:

1. Proofs: what `HandleHasOneOwner` can say without its assumptions; `SdHost` as a specification of its own, which `SdCard` implements.
2. `Boot2Map`: the vote over three copies of the block map and the fall-back to the second copy of
   boot2, as functions checked against a definition of the majority.
3. FS over USB as a parameter of `FSServer`, its directory and attribute requests, and the choice of the
   NAND folder under power cuts.
4. The gecko upload in the interrupt handler, on top of `MiniIPC`.
5. The boot from memory and the cache of channels on top of `EsTitles`; `sysconf.c` and `SDI.c`.

## Running it

    tlc -workers 2 -config MCDiscSwitch.cfg MCDiscSwitch
    tlapm TitleImport_proofs.tla

The configuration of each run is named in `PROJECT.json`; the longest takes about three minutes.
