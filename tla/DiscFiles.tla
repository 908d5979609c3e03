------------------------------ MODULE DiscFiles -----------------------------
(***************************************************************************)
(* The files behind an emulated disc: the handle table of di/DIGlue.c and  *)
(* the file cache FC of di/dip.c, for a disc kept as extracted files       *)
(* (FMode = IS_FST).                                                       *)
(*                                                                         *)
(* The DI module is one thread: each request below runs to its end before  *)
(* the next.  A request opens, reads and closes system files of the disc,  *)
(* or keeps a data file open in FC, or works for a client that holds       *)
(* handles of its own (DVD_OPEN), all in the same table of MAX_HANDLES.    *)
(* The hard part is the table at its limit: selecting another game forgets *)
(* the cached files without closing them, and in SNEEK mode DVDOpen        *)
(* answers FR_DISK_ERR, which is 1, when no handle is free.                *)
(***************************************************************************)
EXTENDS Integers, FiniteSets

CONSTANTS
  MaxHandles,   \* MAX_HANDLES
  CacheMax,     \* FILECACHE_MAX
  Mode,         \* FSMode: "SNEEK" (FatFs in this module) or "UNEEK" (/dev/fs)
  Discs,        \* the games that can be selected
  GcDiscs,      \* those of them that are GameCube images (DML)
  Names,        \* data files of a disc
  Missing,      \* files that do not exist
  Free,         \* FHandle[i].fs = NULL, Nhandle[i] = 0xdeadbeef
  NoFile,       \* nothing, where a file is expected
  MaxClient,    \* bound: handles a client holds
  MaxSelect     \* bound: games selected after boot

Handles == 0 .. MaxHandles - 1
Slots   == 0 .. CacheMax - 1
Data    == Discs \X Names
System  == Discs \X {"sys"}
Config  == <<"di", "config">>
Dump    == <<"di", "dump">>
File    == Data \cup System \cup {Config, Dump}

ASSUME DiscFilesAssumption ==
  /\ MaxHandles \in Nat /\ MaxHandles > 1 /\ CacheMax \in Nat \ {0}
  /\ Mode \in {"SNEEK", "UNEEK"} /\ GcDiscs \subseteq Discs
  /\ "di" \notin Discs /\ Missing \subseteq File /\ Free \notin File /\ NoFile \notin File
  /\ MaxClient \in Nat /\ MaxSelect \in Nat

VARIABLES
  handles,   \* FHandle or Nhandle: the file open under each handle
  FC,        \* the file cache: a file and the handle it was opened under
  FCEntry,   \* the slot the next file goes to
  disc,      \* the game selected
  clients,   \* handles clients hold, and the file they believe is open
  lastRead,  \* what the last successful read was to return, and returned
  selects    \* games selected after boot

vars == <<handles, FC, FCEntry, disc, clients, lastRead, selects>>

-----------------------------------------------------------------------------
Empty    == [file |-> NoFile, fd |-> -1]
Entry    == [file : Data, fd : Handles]
Client   == [file : {Dump}, fd : Handles]

FreeHandles(table) == {h \in Handles : table[h] = Free}

(* Mutant: the search finds a handle but not which one it is.              *)
HandleZero(table) == 0

(* "Find free handle": the first one.                                      *)
FirstFree(table) ==
  CHOOSE h \in FreeHandles(table) : \A k \in FreeHandles(table) : h <= k

(* DVDOpen: a handle, or a negative error.  A full table is FR_DISK_ERR in *)
(* SNEEK mode and DVD_FATAL in UNEEK mode.                                 *)
DVDOpen(table, file) ==
  CASE FreeHandles(table) = {} -> IF Mode = "SNEEK" THEN 1 ELSE -101
    [] FreeHandles(table) # {} /\ file \in Missing -> -106
    [] OTHER -> FirstFree(table)

(* The table after a DVDOpen that found a free handle and the file.        *)
Opened(table, file) ==
  IF FreeHandles(table) = {} \/ file \in Missing
    THEN table ELSE [table EXCEPT ![FirstFree(table)] = file]

(* DVDClose; closing what is not open has no effect.                       *)
Closed(table, fd) ==
  IF fd \in Handles THEN [table EXCEPT ![fd] = Free] ELSE table

(* DVDOpen, use and DVDClose of one file within a request.                 *)
OpenClosed(table, file) ==
  IF DVDOpen(table, file) < 0 THEN table
  ELSE Closed(Opened(table, file), DVDOpen(table, file))

(* What DVDRead delivers: nothing, if the handle is not open.              *)
DVDRead(table, fd) ==
  IF fd \in Handles /\ table[fd] # Free THEN table[fd] ELSE NoFile

NoReadYet == [want |-> NoFile, got |-> NoFile]

ReadFrom(want, table, fd) == lastRead' = [want |-> want, got |-> DVDRead(table, fd)]

Init ==
  /\ handles = [h \in Handles |-> Free]
  /\ FC = [s \in Slots |-> Empty] /\ FCEntry = 0
  /\ disc \in Discs /\ clients = {}
  /\ lastRead = NoReadYet /\ selects = 0

-----------------------------------------------------------------------------
(* DVDSelectGame: InitCache forgets the cached files; the apploader is     *)
(* opened to learn its size (a GameCube image has fd = 1 instead, and that *)
(* is closed all the same); then the configuration is written.             *)
AfterSelect(table, g) ==
  LET probed == IF g \in GcDiscs THEN Closed(table, 1)
                                 ELSE OpenClosed(table, <<g, "sys">>)
      failed == g \notin GcDiscs /\ DVDOpen(table, <<g, "sys">>) < 0
  IN  IF failed THEN table ELSE OpenClosed(probed, Config)

(* Mutant: InitCache is not called.                                        *)
SelectKeepsCache(g) ==
  /\ selects < MaxSelect /\ selects' = selects + 1
  /\ disc' = g
  /\ handles' = AfterSelect(handles, g)
  /\ UNCHANGED <<FC, FCEntry, clients, lastRead>>

SelectGame(g) ==
  /\ selects < MaxSelect /\ selects' = selects + 1
  /\ disc' = g
  /\ FC' = [s \in Slots |-> Empty]
  /\ handles' = AfterSelect(handles, g)
  /\ UNCHANGED <<FCEntry, clients, lastRead>>

(* DVDLowRead of boot.bin, bi2.bin, apploader.img, main.dol or fst.bin,    *)
(* and the ticket, TMD and certificates of OPEN_PARTITION.                 *)
ReadSystem ==
  LET file == <<disc, "sys">>
      fd   == DVDOpen(handles, file)
  IN  /\ handles' = OpenClosed(handles, file)
      /\ IF fd < 0 THEN UNCHANGED lastRead
                   ELSE ReadFrom(file, Opened(handles, file), fd)
      /\ UNCHANGED <<FC, FCEntry, disc, clients, selects>>

(* Search_FST in FST_READ mode.  The cache is searched by offset, which    *)
(* says which data file of a disc is meant, not of which disc.             *)
Cached(name) == {s \in Slots : FC[s] # Empty /\ FC[s].file[2] = name}

ReadCached(name) ==
  \E s \in Cached(name) :
    /\ ReadFrom(<<disc, name>>, handles, FC[s].fd)
    /\ UNCHANGED <<handles, FC, FCEntry, disc, clients, selects>>

(* The slot that is evicted: FCEntry, wrapped around.                      *)
Victim == IF FCEntry >= CacheMax THEN 0 ELSE FCEntry

(* The table once the file in that slot was closed.                        *)
Evicted(table) == Closed(table, FC[Victim].fd)

(* The same when it is not: the file is opened into slot Victim.           *)
ReadUncached(name) ==
  LET file  == <<disc, name>>
      table == Evicted(handles)
      fd    == DVDOpen(table, file)
  IN  /\ Cached(name) = {}
      /\ handles' = Opened(table, file)
      /\ IF fd < 0
           THEN /\ FC' = [FC EXCEPT ![Victim] = Empty]
                /\ FCEntry' = Victim
                /\ UNCHANGED lastRead
           ELSE /\ FC' = [FC EXCEPT ![Victim] = [file |-> file, fd |-> fd]]
                /\ FCEntry' = Victim + 1
                /\ ReadFrom(file, Opened(table, file), fd)
      /\ UNCHANGED <<disc, clients, selects>>

(* DVD_WRITE_CONFIG and DVD_READ_INFO.                                     *)
UseConfig ==
  /\ handles' = OpenClosed(handles, Config)
  /\ UNCHANGED <<FC, FCEntry, disc, clients, lastRead, selects>>

(* DVD_OPEN, DVD_CLOSE and DVD_READ of a client; it closes what it opened. *)
ClientOpen ==
  LET fd == DVDOpen(handles, Dump)
  IN  /\ Cardinality(clients) < MaxClient
      /\ handles' = Opened(handles, Dump)
      /\ clients' = IF fd < 0 THEN clients ELSE clients \cup {[file |-> Dump, fd |-> fd]}
      /\ UNCHANGED <<FC, FCEntry, disc, lastRead, selects>>

ClientClose(c) ==
  /\ handles' = Closed(handles, c.fd)
  /\ clients' = clients \ {c}
  /\ UNCHANGED <<FC, FCEntry, disc, lastRead, selects>>

ClientRead(c) ==
  /\ ReadFrom(c.file, handles, c.fd)
  /\ UNCHANGED <<handles, FC, FCEntry, disc, clients, selects>>

Next ==
  \/ \E g \in Discs : SelectGame(g)
  \/ ReadSystem \/ UseConfig \/ ClientOpen
  \/ \E name \in Names : ReadCached(name) \/ ReadUncached(name)
  \/ \E c \in clients : ClientClose(c) \/ ClientRead(c)

Spec == Init /\ [][Next]_vars

-----------------------------------------------------------------------------
TypeOK ==
  /\ handles \in [Handles -> File \cup {Free}]
  /\ FC \in [Slots -> Entry \cup {Empty}]
  /\ FCEntry \in 0 .. CacheMax
  /\ disc \in Discs
  /\ clients \in SUBSET Client
  /\ lastRead \in [want : File \cup {NoFile}, got : File \cup {NoFile}]
  /\ selects \in 0 .. MaxSelect

(* The handles in use, each by the one who opened it.                      *)
CachedHandles == {FC[s].fd : s \in {t \in Slots : FC[t] # Empty}}
ClientHandles == {c.fd : c \in clients}

(* "Find free handle": what DVDOpen hands out had no owner, so a cached    *)
(* file and a client's file stay open under their handles until their      *)
(* owner closes them, and no two owners share a handle.                    *)
OneOwner ==
  /\ \A s \in Slots : FC[s] # Empty => handles[FC[s].fd] = FC[s].file
  /\ \A c \in clients : handles[c.fd] = c.file
  /\ \A s, t \in Slots : FC[s] # Empty /\ FC[t] # Empty /\ FC[s].fd = FC[t].fd => s = t

(* A read that reports success delivers the file that was asked for, from  *)
(* the game that is selected.                                              *)
ReadsRight == lastRead.got = lastRead.want

=============================================================================
