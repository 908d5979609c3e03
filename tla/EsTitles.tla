------------------------------ MODULE EsTitles ------------------------------
(***************************************************************************)
(* The titles of the console as the ES module keeps them (es/ES.c,         *)
(* es/main.c, es/NAND.c): the list of user numbers uid.sys, title metadata *)
(* and tickets, the lists ES answers from memory, and the way a title is   *)
(* started: one program writes what it wants into launch.sys, reload.sys   *)
(* or disc.sys and restarts IOS, and ES reads it when it comes up.  With   *)
(* no order it starts what the menu was told to start by itself.           *)
(*                                                                         *)
(* ES runs one command after the other; the console may be switched off    *)
(* between any two writes.  A file is written under /tmp and renamed onto  *)
(* its name, and the rename removes a file that is there first.  The       *)
(* import of a title (TitleImport) is two steps here, its start and its    *)
(* finish.  Titles are those whose identifier survives the mask of         *)
(* ES_GetUID (ES.c:714).                                                   *)
(***************************************************************************)
EXTENDS Naturals, Sequences, FiniteSets

CONSTANTS
  Menu,         \* the system menu, title 1-2
  Channels, Discs, Ioses,
  None,
  Handles,      \* the file handles FS has for ES
  EmptyLoads,   \* NANDLoadFile gets memory for an empty file
  MaxUids       \* bound: entries of uid.sys

Titles == {Menu} \cup Channels \cup Discs \cup Ioses

ASSUME EsTitlesAssumption ==
  /\ None \notin Titles /\ None \notin Seq([title : Titles, uid : Nat])
  /\ Menu \notin Channels \cup Discs \cup Ioses /\ Channels \cap Ioses = {}
  /\ Handles \in Nat \ {0} /\ EmptyLoads \in BOOLEAN /\ MaxUids \in Nat

VARIABLES
  uidSys,      \* /sys/uid.sys: titles and their UIDs; None if there is no file
  tmd, tik,    \* the titles with a title.tmd, with a ticket
  launchSys, reloadSys, discSys,   \* the title each of the files names
  autoboot,    \* hackscfg.bin: the title to start without an order, or the menu
  lost,        \* handles ES opened and will not close
  kind,        \* which of the two lists the behaviour follows: neither reads the other
  cache,       \* that list: TCount, TTitles, TCountDirty, or their O twins
  TitleID,     \* the title that runs
  uid,         \* what SetUID was last given for the PowerPC
  importing,   \* iTMD
  pc,          \* where ES is: coming up, in a command, waiting for one
  reply,       \* the list or count just given: whether it was right, or excused
  asked,       \* the title LAUNCH promised to start, until that has been seen to
  seen,        \* the disc identified since ES came up
  fails        \* starts in a row that brought up no title, autoboot's own apart

nand    == <<uidSys, tmd, tik>>
orders  == <<launchSys, reloadSys, discSys, autoboot>>
memory  == <<lost, kind, cache, importing>>
history == <<reply, asked, seen, fails>>
vars    == <<nand, orders, memory, TitleID, uid, pc, history>>

-----------------------------------------------------------------------------
Lists == {"titles", "owned"}
Fresh == [dirty |-> TRUE, n |-> 0, list |-> <<>>, counted |-> FALSE,
          changed |-> FALSE, stale |-> FALSE]
Right == [right |-> TRUE, excused |-> FALSE]

(* UIDs: 0 is none, 1 is 0x1000, and so on.                                *)
Entry(t, n) == [title |-> t, uid |-> n]

Init ==
  /\ uidSys = None /\ tmd = {Menu} \cup Ioses /\ tik = {Menu} \cup Ioses
  /\ launchSys = None /\ reloadSys = None /\ discSys = None /\ autoboot = Menu
  /\ lost = 0 /\ kind \in Lists /\ cache = Fresh /\ importing = None
  /\ TitleID = None /\ uid = 0 /\ pc = "boot"
  /\ reply = Right /\ asked = None /\ seen = None /\ fails = 0

Opens == lost < Handles

(* ES_GetUID: uid.sys is created with the system menu in it; a title that  *)
(* is not in it is appended.  An empty file that cannot be loaded is taken *)
(* for a success, and the UID stays what the caller had.                   *)
Existing == IF uidSys = None THEN <<Entry(Menu, 1)>> ELSE uidSys
Knows(t) == \E i \in DOMAIN Existing : Existing[i].title = t
Number(t) == Existing[CHOOSE i \in DOMAIN Existing :
                        /\ Existing[i].title = t
                        /\ \A j \in 1 .. i - 1 : Existing[j].title # t].uid

PastFirst(t)  == \E i \in DOMAIN Existing \ {1} : Existing[i].title = t
Found(t)      == Knows(t)

GetUID(t) ==
  IF ~Opens THEN [ok |-> FALSE, file |-> uidSys, uid |-> 0]
  ELSE IF uidSys = <<>> /\ ~EmptyLoads THEN [ok |-> TRUE, file |-> uidSys, uid |-> 0]
  ELSE IF Found(t) THEN [ok |-> TRUE, file |-> Existing, uid |-> Number(t)]
  ELSE [ok |-> TRUE, uid |-> Len(Existing) + 2,
        file |-> Append(Existing, Entry(t, Len(Existing) + 2))]
Enrolled(t)  == GetUID(t).file

Room(t) == Knows(t) \/ Len(Existing) < MaxUids

(* What the list holds when it is read anew: the titles of uid.sys, in its *)
(* order, that are in the set.                                             *)
Held == IF kind = "titles" THEN tmd ELSE tik
Hits == {i \in DOMAIN uidSys : uidSys[i].title \in Held}
Hit(k) == CHOOSE i \in Hits : Cardinality({j \in Hits : j <= i}) = k
Listed == [k \in 1 .. Cardinality(Hits) |-> uidSys[Hit(k)].title]
Readable == Opens /\ uidSys # None /\ (uidSys # <<>> \/ EmptyLoads)

(* What the list is made of changes, and ES does not think of it, or does. *)
Changed(ks) ==
  cache' = IF kind \in ks THEN [cache EXCEPT !.changed = TRUE, !.stale = @ \/ ~cache.dirty]
                          ELSE cache

TitlesOnly == kind = "titles" \/ cache.dirty
Marked     == TRUE

Told == cache' = [cache EXCEPT !.changed = TRUE, !.stale = FALSE, !.dirty = Marked]

-----------------------------------------------------------------------------
(* ES_BootSystem.  launch.sys says what to start, else the settings do; in *)
(* place of the menu, what reload.sys says.  Both files are read and       *)
(* deleted; the settings are read and written back.                        *)
Kept(file)     == file
Consumed(file) == None

ReadLaunch ==
  /\ pc = "boot"
  /\ TitleID' = IF launchSys = None THEN autoboot ELSE launchSys
  /\ launchSys' = Consumed(launchSys)
  /\ pc' = IF TitleID' = Menu THEN "reload" ELSE "load"
  /\ UNCHANGED <<nand, reloadSys, discSys, autoboot, memory, uid, history>>

ReadReload ==
  /\ pc = "reload"
  /\ TitleID' = IF reloadSys = None THEN Menu ELSE reloadSys
  /\ reloadSys' = Consumed(reloadSys)
  /\ pc' = "load"
  /\ UNCHANGED <<nand, launchSys, discSys, autoboot, memory, uid, history>>

CameUp == fails' = 0 /\ UNCHANGED <<reply, asked, seen>>
Failed == /\ fails' = IF TitleID = autoboot THEN fails ELSE fails + 1
          /\ UNCHANGED <<reply, asked, seen>>

(* Without the TMD there is nothing but a blinking light.                  *)
LoadKernel ==
  /\ pc = "load"
  /\ IF TitleID \in tmd THEN pc' = "disc" /\ UNCHANGED history
                        ELSE pc' = "panic" /\ Failed
  /\ UNCHANGED <<nand, orders, memory, TitleID, uid>>

OnlyIfRead == IF TitleID \in Ioses THEN None ELSE discSys
Spent      == None

(* A restart of IOS alone starts the disc of disc.sys; any start uses it up. *)
ReadDisc ==
  /\ pc = "disc"
  /\ IF TitleID \in Ioses /\ discSys # None
     THEN TitleID' = discSys /\ pc' = "run" /\ CameUp
     ELSE pc' = "start" /\ UNCHANGED <<TitleID, history>>
  /\ discSys' = Spent
  /\ UNCHANGED <<nand, launchSys, reloadSys, autoboot, memory, uid>>

(* ES_LaunchSYS: the ticket must be there, the title gets its UID; of an   *)
(* IOS there is nothing more to start.                                     *)
LaunchSYS ==
  LET got == GetUID(TitleID)
  IN  /\ pc = "start" /\ (TitleID \in tik => Room(TitleID))
      /\ IF TitleID \notin tik THEN UNCHANGED <<uidSys, uid>>
         ELSE uidSys' = got.file /\ uid' = got.uid
      /\ IF TitleID \in tik /\ TitleID \notin Ioses THEN pc' = "run" /\ CameUp
         ELSE pc' = "stuck" /\ Failed
      /\ UNCHANGED <<tmd, tik, orders, memory, TitleID>>

Boot == ReadLaunch \/ ReadReload \/ LoadKernel \/ ReadDisc \/ LaunchSYS

-----------------------------------------------------------------------------
(* The commands.                                                           *)
Command == pc = "run" /\ asked' = None
Silent  == reply' = Right /\ UNCHANGED <<seen, fails>>

(* ES_GetNumTitles, ES_GetNumOwnedTitles, unless uid.sys cannot be read.   *)
GetCount ==
  /\ Command /\ (cache.dirty => Readable)
  /\ LET n == IF cache.dirty THEN Len(Listed) ELSE cache.n
     IN  /\ cache' = [cache EXCEPT !.n = n, !.counted = TRUE, !.changed = @ /\ ~cache.dirty]
         /\ reply' = [right |-> n = Len(Listed), excused |-> cache.stale]
  /\ UNCHANGED <<nand, orders, lost, kind, importing, TitleID, uid, pc, seen, fails>>

(* The first n words of a buffer that holds a shorter or a longer list.    *)
Cut(list, n) == [i \in 1 .. n |-> IF i <= Len(list) THEN list[i] ELSE None]

(* ES_GetTitles, ES_GetOwnedTitles; the client has asked for the count, to *)
(* know how much room it needs.  What is kept of the titles is as long as  *)
(* the last count.                                                         *)
GetList ==
  /\ Command /\ cache.counted /\ (cache.dirty => Readable)
  /\ IF cache.dirty
     THEN /\ cache' = [cache EXCEPT !.dirty = FALSE, !.stale = cache.changed,
                !.list = IF kind = "titles" THEN Cut(Listed, cache.n) ELSE Listed]
          /\ reply' = Right
     ELSE /\ reply' = [right |-> Cut(cache.list, cache.n) = Listed, excused |-> cache.stale]
          /\ UNCHANGED cache
  /\ UNCHANGED <<nand, orders, lost, kind, importing, TitleID, uid, pc, seen, fails>>

(* ADDTICKET.                                                              *)
AddTicket(t) ==
  /\ Command /\ Opens /\ Silent
  /\ tik' = tik \cup {t} /\ Changed({"owned"})
  /\ UNCHANGED <<uidSys, tmd, orders, lost, kind, importing, TitleID, uid, pc>>

(* ADDTITLESTART registers the title and ignores whether that worked; the  *)
(* client installs one title at a time and its ticket first.               *)
(* ADDTITLEFINISH marks both lists.                                        *)
AddTitleStart(t) ==
  /\ Command /\ Opens /\ importing = None /\ t \in tik /\ Room(t) /\ Silent
  /\ importing' = t /\ uidSys' = Enrolled(t) /\ Changed(Lists)
  /\ UNCHANGED <<tmd, tik, orders, lost, kind, TitleID, uid, pc>>

AddTitleFinish ==
  /\ Command /\ importing # None /\ Silent
  /\ tmd' = tmd \cup {importing} /\ importing' = None /\ Told
  /\ UNCHANGED <<uidSys, tik, orders, lost, kind, TitleID, uid, pc>>

AddTitleCancel ==
  /\ Command /\ importing # None /\ importing' = None /\ Silent
  /\ UNCHANGED <<nand, orders, lost, kind, cache, TitleID, uid, pc>>

(* DELETETITLE, DELETETITLECONTENT; DELETETICKET.                          *)
DeleteTitle(t) ==
  /\ Command /\ t \in tmd /\ tmd' = tmd \ {t} /\ Changed({"titles"}) /\ Silent
  /\ UNCHANGED <<uidSys, tik, orders, lost, kind, importing, TitleID, uid, pc>>

DeleteTicket(t) ==
  /\ Command /\ t \in tik /\ tik' = tik \ {t} /\ Changed({"owned"}) /\ Silent
  /\ UNCHANGED <<uidSys, tmd, orders, lost, kind, importing, TitleID, uid, pc>>

(* DIGETSTOREDTMDSIZE opens the TMD and does not close it.                 *)
DIGetStoredTMDSize ==
  /\ Command /\ TitleID \in tmd /\ Opens /\ Silent
  /\ lost' = lost + 1
  /\ UNCHANGED <<nand, orders, kind, cache, importing, TitleID, uid, pc>>

(* SETUID: the title is another from here on, whether it gets its UID or   *)
(* not.                                                                    *)
SetUID(t) ==
  LET got == GetUID(t)
  IN  /\ Command /\ Room(t) /\ Silent
      /\ TitleID' = t
      /\ uidSys' = got.file /\ uid' = IF got.ok THEN got.uid ELSE uid
      /\ Changed(Lists)
      /\ UNCHANGED <<tmd, tik, orders, lost, kind, importing, pc>>

(* DIVERIFY: the TMD of the disc if it is newer, its UID, then disc.sys.   *)
(* Without a handle it gets as far as the UID.                             *)
DIVerify(d) ==
  LET got == GetUID(d)
  IN  /\ Command /\ Opens /\ Room(d) /\ reply' = Right
      /\ tmd' = tmd \cup {d} /\ uidSys' = got.file /\ uid' = got.uid /\ Changed(Lists)
      /\ TitleID' = d /\ discSys' = d /\ launchSys' = None /\ seen' = d
      /\ UNCHANGED <<tik, reloadSys, autoboot, lost, kind, importing, pc, fails>>

(* SET_RETURN_TO, and LAUNCH, which restarts IOS.                          *)
SetReturnTo(t) ==
  /\ Command /\ Opens /\ Silent /\ reloadSys' = t
  /\ UNCHANGED <<nand, launchSys, discSys, autoboot, memory, TitleID, uid, pc>>

(* The patch menu over the system menu: one of the channels it has found,  *)
(* or the menu itself (autoboot off, or all the settings reset).           *)
SetAutoboot(t) ==
  /\ Command /\ TitleID = Menu /\ Opens /\ t \in tmd /\ Silent
  /\ autoboot' = t
  /\ UNCHANGED <<nand, launchSys, reloadSys, discSys, memory, TitleID, uid, pc>>

Restart ==
  /\ pc' = "boot" /\ TitleID' = None /\ uid' = 0
  /\ lost' = 0 /\ cache' = Fresh /\ importing' = None
  /\ reply' = Right /\ seen' = None

(* What the program that asks for t means: the disc it has just had        *)
(* identified, or what it is to return to.                                 *)
Meant(t) == CASE t \in Ioses /\ seen # None -> seen
              [] t = Menu /\ reloadSys # None -> reloadSys
              [] OTHER -> t

Launch(t) ==
  /\ pc = "run" /\ Restart
  /\ IF Opens THEN launchSys' = t /\ asked' = Meant(t)
              ELSE launchSys' = launchSys /\ asked' = None
  /\ UNCHANGED <<nand, reloadSys, discSys, autoboot, kind, fails>>

Commands ==
  \/ GetCount \/ GetList
  \/ \E t \in Channels : AddTicket(t) \/ AddTitleStart(t) \/ DeleteTitle(t) \/ DeleteTicket(t)
  \/ AddTitleFinish \/ AddTitleCancel \/ DIGetStoredTMDSize
  \/ \E t \in {Menu} \cup Channels : SetUID(t)
  \/ \E d \in Discs : DIVerify(d)
  \/ \E t \in {Menu} \cup Channels : SetReturnTo(t) \/ SetAutoboot(t)
  \/ \E t \in {Menu} \cup Channels \cup Ioses : Launch(t)

-----------------------------------------------------------------------------
(* Switched off and on; the file that was being written is old, new or, if *)
(* it was being replaced, gone.                                            *)
Off == Restart /\ asked' = None /\ UNCHANGED <<kind, fails>>

WritesSettings == pc = "run" \/ (pc = "boot" /\ launchSys = None)

PowerCut ==
  /\ Off /\ reloadSys' \in {reloadSys} \cup (IF pc = "run" THEN {None} ELSE {})
  /\ autoboot' \in {autoboot} \cup (IF WritesSettings THEN {Menu} ELSE {})
  /\ UNCHANGED <<nand, launchSys, discSys>>

CutInUID ==
  /\ pc = "start" /\ TitleID \in tik /\ uidSys = None /\ Off
  /\ uidSys' \in {<<>>, <<Entry(Menu, 1)>>}
  /\ UNCHANGED <<tmd, tik, orders>>

CutInVerify(d) ==
  /\ pc = "run" /\ Opens /\ Room(d) /\ Off
  /\ \/ tmd' \in {tmd \cup {d}, tmd \ {d}} /\ UNCHANGED <<uidSys, launchSys, discSys>>
     \/ /\ tmd' = tmd \cup {d} /\ uidSys' = GetUID(d).file
        /\ launchSys' = None /\ discSys' \in {discSys, None, d}
  /\ UNCHANGED <<tik, reloadSys, autoboot>>

Next == Boot \/ Commands \/ PowerCut \/ CutInUID \/ \E d \in Discs : CutInVerify(d)

Spec == Init /\ [][Next]_vars

-----------------------------------------------------------------------------
(* A count or a list is the one a fresh look at the NAND would give, unless *)
(* it comes from memory and a title was deleted, a ticket added or removed, *)
(* or a title registered since then, or between the count and the list.    *)
ListsTruthful == reply.right \/ reply.excused

(* Every start ends in the title that was meant: the one LAUNCH named, the *)
(* disc identified by the program that restarts IOS, never an older one;   *)
(* unless ES had no handle to write it down with.                          *)
LaunchHonoured == pc = "run" /\ asked # None => TitleID = asked

(* A title that cannot be started is forgotten by the next start: two bad  *)
(* orders, launch.sys and reload.sys, cost at most two starts, whatever    *)
(* autoboot names.  Only a channel that was deleted while autoboot named   *)
(* it fails at every start, for the settings are not forgotten.            *)
NoBootLoop ==
  /\ fails <= 2
  /\ pc \in {"panic", "stuck"} /\ TitleID = autoboot => autoboot \notin tmd \cap tik

(* A title runs under a UID no other title has, the same at every start;   *)
(* under none if a power cut left uid.sys empty, or if disc.sys started it. *)
UidKept ==
  pc = "run" /\ Opens =>
    IF uid = 0 THEN uidSys = <<>> \/ TitleID \in Discs
    ELSE /\ uidSys # None /\ Knows(TitleID) /\ uid = Number(TitleID)
         /\ \A i \in DOMAIN uidSys : uidSys[i].uid = uid => uidSys[i].title = TitleID

=============================================================================
