-------------------------- MODULE DiscFiles_proofs --------------------------
(***************************************************************************)
(* What the disc emulation guarantees its clients, and the USB disk its    *)
(* images may lie on.                                                      *)
(*                                                                         *)
(* In UNEEK mode, where a full handle table is an error to every caller,   *)
(* no handle ever has two owners and every read delivers the file it was   *)
(* asked for, for tables and caches of every size and any number of games  *)
(* selected.  GameCube images are left out: selecting one closes handle 1, *)
(* whoever it belongs to.                                                  *)
(*                                                                         *)
(* The USB disk moves what it reports moved, for any number of faults,     *)
(* tries and transfers.                                                    *)
(***************************************************************************)
EXTENDS DiscFiles, UsbDisk, TLAPS, WellFoundedInduction

-----------------------------------------------------------------------------
(* The disc emulation: handles and file cache.                             *)

Table == [Handles -> File \cup {Free}]

(* DVDOpen finds a free handle if there is one.                            *)
LEMMA FirstFreeIsFree ==
  ASSUME NEW table, FreeHandles(table) # {}
  PROVE  FirstFree(table) \in FreeHandles(table)
<1> DEFINE S == FreeHandles(table)
<1>1. S \subseteq Nat
  BY DiscFilesAssumption DEF FreeHandles, Handles
<1>2. PICK h \in S : \A k \in S : ~(<<k, h>> \in OpToRel(<, Nat))
  BY <1>1, WFMin, NatLessThanWellFounded
<1>3. ASSUME NEW k \in S  PROVE  h <= k
  <2>1. k \in Nat /\ h \in Nat
    BY <1>1
  <2>2. k < h => <<k, h>> \in OpToRel(<, Nat)
    BY <2>1 DEF OpToRel
  <2>3. ~(k < h)
    BY <1>2, <2>2
  <2> HIDE DEF S
  <2> QED  BY <2>1, <2>3
<1> QED  BY <1>3 DEF FirstFree

(* The outcomes of DVDOpen in UNEEK mode.                                  *)
LEMMA OpenOutcome ==
  ASSUME Mode = "UNEEK", NEW table \in Table, NEW file \in File
  PROVE  /\ DVDOpen(table, file) < 0 => Opened(table, file) = table
         /\ DVDOpen(table, file) >= 0 =>
              /\ DVDOpen(table, file) \in Handles
              /\ table[DVDOpen(table, file)] = Free
              /\ Opened(table, file) = [table EXCEPT ![DVDOpen(table, file)] = file]
         /\ DVDOpen(table, file) \in Int
<1>1. CASE FreeHandles(table) = {}
  BY <1>1 DEF DVDOpen, Opened
<1>2. CASE FreeHandles(table) # {} /\ file \in Missing
  BY <1>2 DEF DVDOpen, Opened
<1>3. CASE FreeHandles(table) # {} /\ file \notin Missing
  <2>1. FirstFree(table) \in Handles /\ table[FirstFree(table)] = Free
    BY <1>3, FirstFreeIsFree DEF FreeHandles
  <2>2. FirstFree(table) >= 0 /\ FirstFree(table) \in Int
    BY <2>1, DiscFilesAssumption DEF Handles
  <2>3. DVDOpen(table, file) = FirstFree(table)
    BY <1>3 DEF DVDOpen
  <2> QED  BY <1>3, <2>1, <2>2, <2>3 DEF Opened
<1> QED  BY <1>1, <1>2, <1>3

(* A file that is opened and closed within a request leaves no trace.      *)
LEMMA OpenClosedSame ==
  ASSUME Mode = "UNEEK", NEW table \in Table, NEW file \in File
  PROVE  OpenClosed(table, file) = table
<1> DEFINE fd == DVDOpen(table, file)
<1>1. CASE fd < 0
  BY <1>1 DEF OpenClosed
<1>2. CASE ~(fd < 0)
  <2>1. fd \in Handles /\ table[fd] = Free /\ Opened(table, file) = [table EXCEPT ![fd] = file]
    BY <1>2, OpenOutcome
  <2>2. OpenClosed(table, file) = [[table EXCEPT ![fd] = file] EXCEPT ![fd] = Free]
    BY <1>2, <2>1 DEF OpenClosed, Closed
  <2> HIDE DEF fd
  <2> QED  BY <2>1, <2>2 DEF Table
<1> QED  BY <1>1, <1>2

-----------------------------------------------------------------------------
(* The inductive invariant.  Closing an evicted file is harmless because   *)
(* the handle is the slot's alone, and a search by offset alone finds the  *)
(* right file because every cached file is of the game selected.           *)
OfThisDisc == \A s \in Slots : FC[s] # Empty => FC[s].file[1] = disc

IInv == TypeOK /\ OneOwner /\ OfThisDisc /\ ReadsRight

LEMMA SlotFacts ==
  /\ Empty \notin Entry
  /\ \A e \in Entry : e.file \in Data /\ e.file \in File /\ e.file # Free /\ e.fd \in Handles
  /\ \A c \in Client : c.file = Dump /\ Dump \in File /\ Dump # Free /\ c.fd \in Handles
  /\ \A d \in Data : d[1] \in Discs /\ d[1] # "di" /\ d # Dump
  /\ Empty.fd = -1 /\ Empty.fd \notin Handles
<1>1. Empty \notin Entry /\ Empty.fd = -1 /\ Empty.fd \notin Handles
  BY DiscFilesAssumption DEF Empty, Entry, Handles
<1>2. \A d \in Data : d[1] \in Discs /\ d[1] # "di" /\ d # Dump
  BY DiscFilesAssumption DEF Data, Dump
<1>3. \A e \in Entry : e.file \in Data /\ e.file \in File /\ e.file # Free /\ e.fd \in Handles
  BY DiscFilesAssumption DEF Entry, File
<1>4. \A c \in Client : c.file = Dump /\ Dump \in File /\ Dump # Free /\ c.fd \in Handles
  BY DiscFilesAssumption DEF Client, File
<1> QED  BY <1>1, <1>2, <1>3, <1>4

LEMMA InitIInv == Init => IInv
  BY DiscFilesAssumption
  DEF Init, IInv, TypeOK, OneOwner, OfThisDisc, ReadsRight, Slots, NoReadYet, Entry, Empty

(* Selecting a game leaves the handles as they were.                       *)
LEMMA SelectSame ==
  ASSUME Mode = "UNEEK", GcDiscs = {}, TypeOK, NEW g \in Discs
  PROVE  AfterSelect(handles, g) = handles
<1>1. handles \in Table
  BY DEF TypeOK, Table
<1>2. <<g, "sys">> \in File /\ Config \in File
  BY DEF File, System
<1>3. OpenClosed(handles, <<g, "sys">>) = handles /\ OpenClosed(handles, Config) = handles
  BY <1>1, <1>2, OpenClosedSame
<1> QED  BY <1>3 DEF AfterSelect

(* A request that leaves handles, cache and clients alone.                 *)
LEMMA KeepFacts ==
  ASSUME IInv, handles' = handles, UNCHANGED <<FC, FCEntry, disc, clients, selects>>,
         lastRead' \in [want : File \cup {NoFile}, got : File \cup {NoFile}],
         lastRead'.got = lastRead'.want
  PROVE  IInv'
  BY DEF IInv, TypeOK, OneOwner, OfThisDisc, ReadsRight

LEMMA ReadFromRight ==
  ASSUME NEW want \in File, NEW table \in Table, NEW fd \in Handles,
         table[fd] = want, ReadFrom(want, table, fd)
  PROVE  /\ lastRead' \in [want : File \cup {NoFile}, got : File \cup {NoFile}]
         /\ lastRead'.got = lastRead'.want
  BY DiscFilesAssumption DEF ReadFrom, DVDRead

(* Closing a handle nobody else holds leaves what the others see.          *)
LEMMA ClosedTyped ==
  ASSUME NEW table \in Table, NEW fd
  PROVE  /\ Closed(table, fd) \in Table
         /\ \A h \in Handles : h # fd => Closed(table, fd)[h] = table[h]
         /\ fd \notin Handles => Closed(table, fd) = table
  BY DEF Closed, Table

LEMMA OpenedTyped ==
  ASSUME Mode = "UNEEK", NEW table \in Table, NEW file \in File
  PROVE  /\ Opened(table, file) \in Table
         /\ \A h \in Handles : table[h] # Free => Opened(table, file)[h] = table[h]
<1> DEFINE fd == DVDOpen(table, file)
<1>1. CASE fd < 0
  BY <1>1, OpenOutcome DEF Table
<1>2. CASE fd >= 0
  <2>1. fd \in Handles /\ table[fd] = Free /\ Opened(table, file) = [table EXCEPT ![fd] = file]
    BY <1>2, OpenOutcome
  <2> HIDE DEF fd
  <2> QED  BY <2>1 DEF Table
<1>3. fd \in Int
  BY OpenOutcome
<1> QED  BY <1>1, <1>2, <1>3

LEMMA SelectGameIInv ==
  ASSUME Mode = "UNEEK", GcDiscs = {}, IInv, NEW g \in Discs, SelectGame(g)
  PROVE  IInv'
<1>1. handles' = handles
  BY SelectSame DEF SelectGame, IInv
<1>2. \A s \in Slots : FC'[s] = Empty
  BY DEF SelectGame
<1>3. TypeOK'
  <2>1. FC' \in [Slots -> Entry \cup {Empty}]
    BY DEF SelectGame
  <2>2. selects' \in 0 .. MaxSelect
    BY DiscFilesAssumption DEF SelectGame, IInv, TypeOK
  <2> QED  BY <1>1, <2>1, <2>2 DEF SelectGame, IInv, TypeOK
<1> QED  BY <1>1, <1>2, <1>3 DEF SelectGame, IInv, OneOwner, OfThisDisc, ReadsRight

LEMMA ReadSystemIInv ==
  ASSUME Mode = "UNEEK", IInv, ReadSystem
  PROVE  IInv'
<1> DEFINE file == <<disc, "sys">>
           fd   == DVDOpen(handles, file)
<1>1. file \in File /\ handles \in Table
  BY DEF File, System, IInv, TypeOK, Table
<1>2. handles' = handles
  BY <1>1, OpenClosedSame DEF ReadSystem
<1>3. CASE fd < 0
  BY <1>2, <1>3, KeepFacts DEF ReadSystem, IInv, TypeOK, ReadsRight
<1>4. CASE ~(fd < 0)
  <2>1. fd \in Handles /\ Opened(handles, file) = [handles EXCEPT ![fd] = file]
    BY <1>1, <1>4, OpenOutcome
  <2>2. Opened(handles, file) \in Table
    BY <1>1, OpenedTyped
  <2>3. ReadFrom(file, Opened(handles, file), fd)
    BY <1>4 DEF ReadSystem
  <2>4. Opened(handles, file)[fd] = file
    <3> HIDE DEF fd, file
    <3> QED  BY <1>1, <2>1 DEF Table
  <2>5. /\ lastRead' \in [want : File \cup {NoFile}, got : File \cup {NoFile}]
        /\ lastRead'.got = lastRead'.want
    BY <1>1, <2>1, <2>2, <2>3, <2>4, ReadFromRight
  <2> QED  BY <1>2, <2>5, KeepFacts DEF ReadSystem
<1> QED  BY <1>3, <1>4

LEMMA UseConfigIInv ==
  ASSUME Mode = "UNEEK", IInv, UseConfig
  PROVE  IInv'
<1>1. handles \in Table /\ Config \in File
  BY DEF IInv, TypeOK, Table, File
<1>2. handles' = handles
  BY <1>1, OpenClosedSame DEF UseConfig
<1> QED  BY <1>2, KeepFacts DEF UseConfig, IInv, TypeOK, ReadsRight

LEMMA ReadCachedIInv ==
  ASSUME IInv, NEW name \in Names, ReadCached(name)
  PROVE  IInv'
<1>1. PICK s \in Cached(name) : ReadFrom(<<disc, name>>, handles, FC[s].fd)
  BY DEF ReadCached
<1>2. s \in Slots /\ FC[s] # Empty /\ FC[s].file[2] = name /\ FC[s] \in Entry
  BY DEF Cached, IInv, TypeOK
<1>3. FC[s].file \in Data /\ FC[s].file \in File /\ FC[s].fd \in Handles
  BY <1>2, SlotFacts
<1>4. FC[s].file[1] = disc
  BY <1>2 DEF IInv, OfThisDisc
<1>5. FC[s].file = <<disc, name>>
  BY <1>2, <1>3, <1>4 DEF Data
<1>6. handles[FC[s].fd] = FC[s].file
  BY <1>2 DEF IInv, OneOwner
<1>7. handles \in Table
  BY DEF IInv, TypeOK, Table
<1>8. /\ lastRead' \in [want : File \cup {NoFile}, got : File \cup {NoFile}]
      /\ lastRead'.got = lastRead'.want
  BY <1>1, <1>3, <1>5, <1>6, <1>7, ReadFromRight
<1> QED  BY <1>8, KeepFacts DEF ReadCached

(* The file that leaves the cache takes nobody's handle with it.           *)
LEMMA EvictedFacts ==
  ASSUME IInv
  PROVE  /\ Victim \in Slots /\ Evicted(handles) \in Table
         /\ \A s \in Slots : s # Victim /\ FC[s] # Empty =>
              Evicted(handles)[FC[s].fd] = FC[s].file
         /\ \A c \in clients : Evicted(handles)[c.fd] = c.file
<1>1. Victim \in Slots
  BY DiscFilesAssumption DEF Victim, Slots, IInv, TypeOK
<1>2. handles \in Table
  BY DEF IInv, TypeOK, Table
<1>3. Evicted(handles) \in Table
  BY <1>2, ClosedTyped DEF Evicted
<1>4. FC[Victim] # Empty => FC[Victim] \in Entry
  BY <1>1 DEF IInv, TypeOK
<1>5. ASSUME NEW s \in Slots, s # Victim, FC[s] # Empty
      PROVE  Evicted(handles)[FC[s].fd] = FC[s].file
  <2>1. FC[s] \in Entry
    BY <1>5 DEF IInv, TypeOK
  <2>2. FC[s].fd \in Handles /\ handles[FC[s].fd] = FC[s].file
    BY <1>5, <2>1, SlotFacts DEF IInv, OneOwner
  <2>3. FC[s].fd # FC[Victim].fd
    <3>1. CASE FC[Victim] = Empty
      BY <3>1, <2>2, SlotFacts
    <3>2. CASE FC[Victim] # Empty
      BY <3>2, <1>1, <1>5 DEF IInv, OneOwner
    <3> QED  BY <3>1, <3>2
  <2> QED  BY <1>2, <2>2, <2>3, ClosedTyped DEF Evicted
<1>6. ASSUME NEW c \in clients
      PROVE  Evicted(handles)[c.fd] = c.file
  <2>1. c \in Client
    BY DEF IInv, TypeOK
  <2>2. c.file = Dump /\ c.fd \in Handles /\ handles[c.fd] = Dump
    BY <2>1, SlotFacts DEF IInv, OneOwner
  <2>3. c.fd # FC[Victim].fd
    <3>1. CASE FC[Victim] = Empty
      BY <3>1, <2>2, SlotFacts
    <3>2. CASE FC[Victim] # Empty
      <4>1. handles[FC[Victim].fd] = FC[Victim].file
        BY <3>2, <1>1 DEF IInv, OneOwner
      <4>2. FC[Victim].file \in Data /\ FC[Victim].file # Dump
        BY <3>2, <1>4, SlotFacts
      <4> QED  BY <2>2, <4>1, <4>2
    <3> QED  BY <3>1, <3>2
  <2> QED  BY <1>2, <2>2, <2>3, ClosedTyped DEF Evicted
<1> QED  BY <1>1, <1>3, <1>5, <1>6

LEMMA ReadUncachedIInv ==
  ASSUME Mode = "UNEEK", IInv, NEW name \in Names, ReadUncached(name)
  PROVE  IInv'
<1> DEFINE file  == <<disc, name>>
           table == Evicted(handles)
           fd    == DVDOpen(table, file)
           v     == Victim
<1>1. file \in Data /\ file \in File /\ file # Free /\ file[1] = disc
  BY DiscFilesAssumption DEF Data, File, IInv, TypeOK
<1>2. v \in Slots /\ table \in Table
  BY EvictedFacts
<1>3. handles' = Opened(table, file) /\ handles' \in Table
  BY <1>1, <1>2, OpenedTyped DEF ReadUncached
<1>4. \A s \in Slots : s # v /\ FC[s] # Empty => 
        /\ FC[s] \in Entry /\ FC[s].fd \in Handles
        /\ table[FC[s].fd] = FC[s].file /\ table[FC[s].fd] # Free
  BY EvictedFacts, SlotFacts DEF IInv, TypeOK
<1>5. \A c \in clients : c.fd \in Handles /\ table[c.fd] = c.file /\ table[c.fd] # Free
  BY EvictedFacts, SlotFacts DEF IInv, TypeOK
<1>6. /\ \A s \in Slots : s # v /\ FC[s] # Empty => handles'[FC[s].fd] = FC[s].file
      /\ \A c \in clients : handles'[c.fd] = c.file
  BY <1>1, <1>2, <1>3, <1>4, <1>5, OpenedTyped
<1>7. UNCHANGED <<disc, clients, selects>>
  BY DEF ReadUncached
<1>8. CASE fd < 0
  <2>1. FC' = [FC EXCEPT ![v] = Empty] /\ FCEntry' = v /\ UNCHANGED lastRead
    BY <1>8 DEF ReadUncached
  <2>2. TypeOK'
    <3>1. FC' \in [Slots -> Entry \cup {Empty}]
      BY <2>1 DEF IInv, TypeOK
    <3>2. FCEntry' \in 0 .. CacheMax
      BY <1>2, <2>1, DiscFilesAssumption DEF Slots
    <3>3. handles' \in [Handles -> File \cup {Free}]
      BY <1>3 DEF Table
    <3> QED  BY <3>1, <3>2, <3>3, <1>7, <2>1 DEF IInv, TypeOK
  <2>3. FC'[v] = Empty /\ \A s \in Slots : s # v => FC'[s] = FC[s]
    BY <1>2, <2>1 DEF IInv, TypeOK
  <2>4. OneOwner'
    BY <1>6, <1>7, <2>3 DEF IInv, OneOwner
  <2>5. OfThisDisc' /\ ReadsRight'
    BY <1>7, <2>1, <2>3 DEF IInv, OfThisDisc, ReadsRight
  <2> QED  BY <2>2, <2>4, <2>5 DEF IInv
<1>9. CASE ~(fd < 0)
  <2> DEFINE new == [file |-> file, fd |-> fd]
  <2>1. FC' = [FC EXCEPT ![v] = new] /\ FCEntry' = v + 1 /\ ReadFrom(file, handles', fd)
    BY <1>3, <1>9 DEF ReadUncached
  <2>2. fd \in Handles /\ table[fd] = Free /\ handles' = [table EXCEPT ![fd] = file]
    BY <1>1, <1>2, <1>3, <1>9, OpenOutcome
  <2>3. new \in Entry /\ new # Empty /\ new.fd = fd /\ new.file = file
    BY <1>1, <2>2, SlotFacts DEF Entry
  <2> HIDE DEF fd, file, table, v
  <2>4. handles'[fd] = file
    BY <1>2, <2>2 DEF Table
  <2>5. FC'[v] = new /\ \A s \in Slots : s # v => FC'[s] = FC[s]
    BY <1>2, <2>1 DEF IInv, TypeOK
  <2>6. /\ lastRead' \in [want : File \cup {NoFile}, got : File \cup {NoFile}]
        /\ lastRead'.got = lastRead'.want
    BY <1>1, <1>3, <2>1, <2>2, <2>4, ReadFromRight
  <2>7. TypeOK'
    <3>1. FC' \in [Slots -> Entry \cup {Empty}]
      BY <2>1, <2>3 DEF IInv, TypeOK
    <3>2. FCEntry' \in 0 .. CacheMax
      BY <1>2, <2>1, DiscFilesAssumption DEF Slots
    <3>3. handles' \in [Handles -> File \cup {Free}]
      BY <1>3 DEF Table
    <3> QED  BY <3>1, <3>2, <3>3, <1>7, <2>6 DEF IInv, TypeOK
  <2>8. \A s \in Slots : FC'[s] # Empty => handles'[FC'[s].fd] = FC'[s].file
    BY <1>6, <2>3, <2>4, <2>5
  <2>9. \A s \in Slots : s # v /\ FC[s] # Empty => FC[s].fd # fd
    BY <1>4, <2>2
  <2>10. \A s, t \in Slots :
           FC'[s] # Empty /\ FC'[t] # Empty /\ FC'[s].fd = FC'[t].fd => s = t
    <3> SUFFICES ASSUME NEW s \in Slots, NEW t \in Slots,
                        FC'[s] # Empty, FC'[t] # Empty, FC'[s].fd = FC'[t].fd
                 PROVE  s = t
      OBVIOUS
    <3>1. CASE s = v \/ t = v
      BY <3>1, <2>3, <2>5, <2>9
    <3>2. CASE s # v /\ t # v
      BY <3>2, <2>5 DEF IInv, OneOwner
    <3> QED  BY <3>1, <3>2
  <2>11. OneOwner'
    BY <1>6, <1>7, <2>8, <2>10 DEF OneOwner
  <2>12. OfThisDisc' /\ ReadsRight'
    BY <1>1, <1>7, <2>3, <2>5, <2>6 DEF IInv, OfThisDisc, ReadsRight
  <2> QED  BY <2>7, <2>11, <2>12 DEF IInv
<1> QED  BY <1>8, <1>9

(* Handles in use keep their files when a client opens one.                *)
LEMMA ClientOpenIInv ==
  ASSUME Mode = "UNEEK", IInv, ClientOpen
  PROVE  IInv'
<1> DEFINE fd == DVDOpen(handles, Dump)
<1>1. handles \in Table /\ Dump \in File
  BY DEF IInv, TypeOK, Table, File
<1>2. handles' = Opened(handles, Dump) /\ handles' \in Table
  BY <1>1, OpenedTyped DEF ClientOpen
<1>3. \A s \in Slots : FC[s] # Empty =>
        FC[s].fd \in Handles /\ handles[FC[s].fd] = FC[s].file /\ handles[FC[s].fd] # Free
  BY SlotFacts DEF IInv, TypeOK, OneOwner
<1>4. \A c \in clients : c.fd \in Handles /\ handles[c.fd] = c.file /\ handles[c.fd] # Free
  BY SlotFacts DEF IInv, TypeOK, OneOwner
<1>5. /\ \A s \in Slots : FC[s] # Empty => handles'[FC[s].fd] = FC[s].file
      /\ \A c \in clients : handles'[c.fd] = c.file
  BY <1>1, <1>2, <1>3, <1>4, OpenedTyped
<1>6. \A c \in clients' : c \in Client /\ handles'[c.fd] = c.file
  <2>1. CASE fd < 0
    BY <2>1, <1>5 DEF ClientOpen, IInv, TypeOK
  <2>2. CASE ~(fd < 0)
    <3>1. fd \in Handles /\ handles' = [handles EXCEPT ![fd] = Dump]
      BY <1>1, <1>2, <2>2, OpenOutcome
    <3>2. clients' = clients \cup {[file |-> Dump, fd |-> fd]}
      BY <2>2 DEF ClientOpen
    <3> HIDE DEF fd
    <3>3. handles'[fd] = Dump /\ [file |-> Dump, fd |-> fd] \in Client
      BY <1>1, <3>1 DEF Table, Client
    <3> QED  BY <1>5, <3>2, <3>3 DEF IInv, TypeOK
  <2> QED  BY <2>1, <2>2
<1>7. UNCHANGED <<FC, FCEntry, disc, lastRead, selects>>
  BY DEF ClientOpen
<1>8. TypeOK'
  BY <1>2, <1>6, <1>7 DEF IInv, TypeOK, Table
<1> QED  BY <1>5, <1>6, <1>7, <1>8 DEF IInv, OneOwner, OfThisDisc, ReadsRight

LEMMA ClientCloseIInv ==
  ASSUME IInv, NEW c \in clients, ClientClose(c)
  PROVE  IInv'
<1>1. handles \in Table
  BY DEF IInv, TypeOK, Table
<1>2. handles' = Closed(handles, c.fd) /\ handles' \in Table
  BY <1>1, ClosedTyped DEF ClientClose
<1>3. c \in Client /\ c.file = Dump /\ c.fd \in Handles /\ handles[c.fd] = Dump
  BY SlotFacts DEF IInv, TypeOK, OneOwner
<1>4. ASSUME NEW s \in Slots, FC[s] # Empty  PROVE  handles'[FC[s].fd] = FC[s].file
  <2>1. FC[s].fd \in Handles /\ handles[FC[s].fd] = FC[s].file /\ FC[s].file # Dump
    BY <1>4, SlotFacts DEF IInv, TypeOK, OneOwner
  <2>2. FC[s].fd # c.fd
    BY <1>3, <2>1
  <2> QED  BY <1>1, <1>2, <2>1, <2>2, ClosedTyped
<1>5. ASSUME NEW d \in clients'  PROVE  handles'[d.fd] = d.file
  <2>1. d \in clients /\ d # c /\ d \in Client
    BY DEF ClientClose, IInv, TypeOK
  <2>2. d.fd \in Handles /\ handles[d.fd] = d.file /\ d.file = Dump
    BY <2>1, SlotFacts DEF IInv, OneOwner
  <2>3. d.fd # c.fd
    BY <1>3, <2>1, <2>2 DEF Client
  <2> QED  BY <1>1, <1>2, <2>2, <2>3, ClosedTyped
<1>6. UNCHANGED <<FC, FCEntry, disc, lastRead, selects>> /\ clients' \subseteq clients
  BY DEF ClientClose
<1>7. TypeOK'
  BY <1>2, <1>6 DEF IInv, TypeOK, Table
<1> QED  BY <1>4, <1>5, <1>6, <1>7 DEF IInv, OneOwner, OfThisDisc, ReadsRight

LEMMA ClientReadIInv ==
  ASSUME IInv, NEW c \in clients, ClientRead(c)
  PROVE  IInv'
<1>1. handles \in Table
  BY DEF IInv, TypeOK, Table
<1>2. c.file \in File /\ c.fd \in Handles /\ handles[c.fd] = c.file
  BY SlotFacts DEF IInv, TypeOK, OneOwner
<1>3. /\ lastRead' \in [want : File \cup {NoFile}, got : File \cup {NoFile}]
      /\ lastRead'.got = lastRead'.want
  BY <1>1, <1>2, ReadFromRight DEF ClientRead
<1> QED  BY <1>3, KeepFacts DEF ClientRead

LEMMA NextIInv ==
  ASSUME Mode = "UNEEK", GcDiscs = {}, IInv, [Next]_vars
  PROVE  IInv'
<1>1. CASE UNCHANGED vars
  BY <1>1, KeepFacts DEF vars, IInv, TypeOK, ReadsRight
<1>2. ASSUME NEW g \in Discs, SelectGame(g)  PROVE  IInv'
  BY <1>2, SelectGameIInv
<1>3. ASSUME NEW name \in Names, ReadCached(name) \/ ReadUncached(name)  PROVE  IInv'
  BY <1>3, ReadCachedIInv, ReadUncachedIInv
<1>4. ASSUME NEW c \in clients, ClientClose(c) \/ ClientRead(c)  PROVE  IInv'
  BY <1>4, ClientCloseIInv, ClientReadIInv
<1>5. ReadSystem \/ UseConfig \/ ClientOpen => IInv'
  BY ReadSystemIInv, UseConfigIInv, ClientOpenIInv
<1> QED  BY <1>1, <1>2, <1>3, <1>4, <1>5 DEF Next

(* Selecting, reading and closing leave every variable in its type; the    *)
(* slot counter FCEntry never runs past the cache.                         *)
THEOREM TypeCorrect ==
  ASSUME Mode = "UNEEK", GcDiscs = {}
  PROVE  Spec => []TypeOK
<1>1. Init => IInv
  BY InitIInv
<1>2. IInv /\ [Next]_vars => IInv'
  BY NextIInv
<1>3. IInv => TypeOK
  BY DEF IInv
<1> QED  BY <1>1, <1>2, <1>3, PTL DEF Spec

(* A handle DVDOpen hands out has no other owner: cached files and client  *)
(* files stay open under their handles until their owner closes them.      *)
THEOREM HandleHasOneOwner ==
  ASSUME Mode = "UNEEK", GcDiscs = {}
  PROVE  Spec => []OneOwner
<1>1. Init => IInv
  BY InitIInv
<1>2. IInv /\ [Next]_vars => IInv'
  BY NextIInv
<1>3. IInv => OneOwner
  BY DEF IInv
<1> QED  BY <1>1, <1>2, <1>3, PTL DEF Spec

(* A read that succeeds delivers the file asked for, of the game selected, *)
(* although the cache is searched by offset alone.                         *)
THEOREM ReadsAreRight ==
  ASSUME Mode = "UNEEK", GcDiscs = {}
  PROVE  Spec => []ReadsRight
<1>1. Init => IInv
  BY InitIInv
<1>2. IInv /\ [Next]_vars => IInv'
  BY NextIInv
<1>3. IInv => ReadsRight
  BY DEF IInv
<1> QED  BY <1>1, <1>2, <1>3, PTL DEF Spec

-----------------------------------------------------------------------------
(* The USB disk.                                                           *)
Jobs   == {"boot", "ready", "sense", "inquiry", "capacity", "none", "transfer"}
Places == {"end", "cbw", "data", "csw", "reset", "last", "done", "failed",
           "leave", "silent"}
Toggles == [Ends -> {0, 1}]
Devices == [phase : {"idle", "data", "status", "lost"}, want : Nat, pos : Nat,
            tag : Nat, status : {0, 1, 2}]
WireType ==
  device \in Devices /\ toggles \in Toggles /\ dToggles \in Toggles /\ halted \subseteq Ends
CommandType ==
  op \in [write : BOOLEAN, n : Nat] /\ left \in 0 .. op.n /\ moved \in [1 .. op.n -> Nat]
PlaceType ==
  /\ job \in Jobs /\ pc \in Places /\ tag \in Nat /\ reported \in {0, 1, 2}
  /\ job = "none" => pc = "end"
UsbType == WireType /\ CommandType /\ PlaceType

(* The device is in the middle of a command.                               *)
Busy == device.phase \in {"data", "status"}

(* One try: the ends agree on what the host sends while the device is in   *)
(* a command; a write goes in one piece or is tried from its start.        *)
TryInv ==
  /\ Busy => Agree("out") /\ device.pos <= device.want
  /\ device.phase = "data" => device.pos < device.want /\ device.status # 1
  /\ pc = "data" => left > 0 /\ "out" \notin halted
  /\ op.write => left \in {0, op.n} /\ (pc = "csw" => left = 0)
  /\ pc = "data" /\ op.write /\ device.phase = "data" => device.pos = 0 /\ device.want = left

(* What has moved in this try, if it asked for the whole.                  *)
Whole == pc \in {"data", "csw"} /\ Busy /\ device.status = 0
AllMoved == \A i \in 1 .. op.n : moved[i] = i
(* A write the device has taken whole is all there.  A read is never ahead *)
(* of the device, and a sector lies at its place or, when some were        *)
(* dropped, before it, by no more than what was dropped.                   *)
MovedInv ==
  /\ Whole => device.want = op.n
  /\ Whole /\ op.write /\ device.phase = "status" /\ left = 0 => AllMoved
  /\ Whole /\ ~op.write =>
       /\ Here <= device.pos
       /\ \A i \in 1 .. Here : i <= moved[i] /\ moved[i] + Here <= i + device.pos
  /\ pc = "done" => AllMoved \/ reported # 0 \/ (~op.write /\ left > 0)

(* Where a command can begin the device waits for one.                     *)
StepInv ==
  pc \in {"cbw", "done", "failed"} \/ (job = "none" /\ mounted) =>
    device.phase = "idle" \/ missed \/ (pc = "cbw" /\ job = "capacity")

(* Transfers are for a mounted disk.                                       *)
MountInv == job = "transfer" => mounted

Well == ~silence /\ ~skewed
(* While nothing fell silent and no reset skewed the toggles, the ends     *)
(* agree and the disk stays mounted.                                       *)
WellInv ==
  Well =>
    /\ toggles = dToggles \/ halted = Ends
    /\ pc = "data" => device.phase = "lost"
                      \/ (device.phase = "data" /\ device.want = device.pos + left)
    /\ pc = "csw" => device.phase # "idle"
    /\ pc \notin {"leave", "silent"}
    /\ job = "none" => mounted

(* The inductive invariant of the USB disk.                                *)
UInv == UsbType /\ TryInv /\ MovedInv /\ StepInv /\ MountInv /\ WellInv /\ DoneRight

LEMMA FlipKeeps ==
  ASSUME NEW t \in Toggles, NEW e \in Ends, NEW k \in Nat
  PROVE  /\ Flip(t, e, k) \in Toggles
         /\ \A x \in Ends : x # e => Flip(t, e, k)[x] = t[x]
  BY DEF Flip, Toggles, Ends

(* Both ends count a packet: what agreed agrees.                           *)
LEMMA BothCount ==
  ASSUME toggles \in Toggles, dToggles \in Toggles, NEW e \in Ends, NEW k \in Nat, Both(e, k)
  PROVE  /\ toggles' \in Toggles /\ dToggles' \in Toggles
         /\ \A x \in Ends : Agree(x) => Agree(x)'
         /\ toggles = dToggles => toggles' = dToggles'
  <1>1. toggles' = Flip(toggles, e, k) /\ dToggles' = Flip(dToggles, e, k)
    BY DEF Both, Kept
  <1>2. toggles' \in Toggles /\ dToggles' \in Toggles
    BY <1>1, FlipKeeps
  <1>3. ASSUME NEW x \in Ends, Agree(x) PROVE Agree(x)'
    BY <1>1, <1>3 DEF Agree, Flip, Toggles
  <1> QED
    BY <1>1, <1>2, <1>3

LEMMA CarriedFits ==
  ASSUME left \in Nat
  PROVE  Carried \in 0 .. left
  BY UsbDiskAssumption DEF Carried

(* What the device may do with a command.                                  *)
LEMMA DeviceGoesOn ==
  ASSUME device \in Devices, NEW p \in Nat, GoesOn(p)
  PROVE  /\ device' \in Devices /\ device'.pos = p /\ device'.want = device.want
         /\ device'.tag = device.tag /\ device'.status = device.status
         /\ device'.phase = IF p = device.want THEN "status" ELSE device.phase
  BY DEF Devices, GoesOn

LEMMA DeviceQuits ==
  ASSUME device \in Devices, NEW p \in Nat, Quits(p)
  PROVE  /\ device' \in Devices /\ device'.pos = p /\ device'.want = device.want
         /\ device'.tag = device.tag /\ device'.phase = "status"
         /\ device.status = 2 <=> device'.status = 2
  <1>1. PICK s \in {0, 1} : device' = [device EXCEPT !.pos = p, !.phase = "status",
                                       !.status = IF device.status = 2 THEN 2 ELSE s]
    BY DEF Quits
  <1>2. CASE device.status = 2
    BY <1>1, <1>2 DEF Devices
  <1>3. CASE device.status # 2
    <2>1. device' = [device EXCEPT !.pos = p, !.phase = "status", !.status = s]
      BY <1>1, <1>3
    <2>2. s # 2 /\ s \in {0, 1, 2}
      BY <1>1
    <2> QED
      BY <1>3, <2>1, <2>2 DEF Devices
  <1> QED
    BY <1>2, <1>3

LEMMA DeviceTurns ==
  ASSUME device \in Devices, NEW phase \in {"idle", "lost"}, device' = [device EXCEPT !.phase = phase]
  PROVE  device' \in Devices /\ device'.phase = phase
  BY DEF Devices

LEMMA DeviceStarts ==
  ASSUME left \in Nat, tag \in Nat, NEW s \in {0, 1, 2}, device' = Begun(s)
  PROVE  /\ device' \in Devices /\ device'.want = left /\ device'.pos = 0 /\ device'.status = s
         /\ device'.phase = IF left > 0 THEN "data" ELSE "status"
  BY DEF Devices, Begun

LEMMA Quiet == Idle \in Devices /\ Idle.phase = "idle" /\ Fresh \in Toggles
  BY DEF Devices, Idle, Fresh, Toggles



LEMMA StallKeeps ==
  ASSUME UInv, pc \in {"cbw", "data", "csw"}, Same, NEW e \in Ends, Stall(e)
  PROVE  UInv'
  <1>0. UsbType /\ TryInv /\ MovedInv /\ StepInv /\ MountInv /\ WellInv /\ DoneRight
    BY DEF UInv
  <1>1. /\ pc' = "reset" /\ halted' = halted \cup {e}
        /\ UNCHANGED <<toggles, dToggles, device, left, reported, moved, tag, silence>>
        /\ UNCHANGED <<job, mounted, answer, op, missed, skewed>>
    BY DEF Same, Stall, driver
  <1>2. UsbType'
    BY <1>0, <1>1 DEF UsbType, WireType, CommandType, PlaceType, Places
  <1>3. TryInv' /\ MovedInv' /\ DoneRight'
    BY <1>0, <1>1 DEF TryInv, MovedInv, Busy, Agree, Whole, DoneRight
  <1>4. StepInv' /\ MountInv'
    BY <1>0, <1>1 DEF UsbType, PlaceType, StepInv, MountInv
  <1>5. WellInv'
    BY <1>0, <1>1 DEF UsbType, WireType, PlaceType, WellInv, Well
  <1> QED
    BY <1>2, <1>3, <1>4, <1>5 DEF UInv

LEMMA SilenceKeeps ==
  ASSUME UInv, pc \in {"cbw", "data", "csw"}, Same, NEW e \in Ends, Silence(e)
  PROVE  UInv'
  <1>0. UsbType /\ TryInv /\ MovedInv /\ StepInv /\ MountInv /\ WellInv /\ DoneRight
    BY DEF UInv
  <1>1. /\ pc' \in {"leave", "silent"} /\ silence' = TRUE
        /\ UNCHANGED <<toggles, dToggles, device, halted, left, reported, moved, tag>>
        /\ UNCHANGED <<job, mounted, answer, op, missed, skewed>>
    BY DEF Same, Silence, TimesOut, driver, wire
  <1>2. UsbType'
    BY <1>0, <1>1 DEF UsbType, WireType, CommandType, PlaceType, Places
  <1>3. TryInv' /\ MovedInv' /\ DoneRight'
    BY <1>0, <1>1 DEF TryInv, MovedInv, Busy, Agree, Whole, DoneRight
  <1>4. StepInv' /\ MountInv' /\ WellInv'
    BY <1>0, <1>1 DEF UsbType, PlaceType, StepInv, MountInv, WellInv, Well
  <1> QED
    BY <1>2, <1>3, <1>4 DEF UInv

(* __send_cbw: the device begins this command, or can only end in failure. *)
LEMMA SendCbwKeeps ==
  ASSUME UInv, SendCbw
  PROVE  UInv'
  <1>0. UsbType /\ TryInv /\ MovedInv /\ StepInv /\ MountInv /\ WellInv /\ DoneRight /\ pc = "cbw"
    BY DEF UInv, SendCbw
  <1>1. CASE Stall("out")
    BY <1>0, <1>1, StallKeeps DEF SendCbw, Ends
  <1>2. CASE Silence("out")
    BY <1>0, <1>2, SilenceKeeps DEF SendCbw, Ends
  <1>3. CASE ~Stall("out") /\ ~Silence("out")
    <2>1. /\ UNCHANGED <<halted, left, reported, moved, tag, silence>>
          /\ UNCHANGED <<job, mounted, answer, op, missed, skewed>>
          /\ pc' = (IF left > 0 THEN "data" ELSE "csw") /\ "out" \notin halted
      BY <1>3 DEF SendCbw, Same, driver
    <2>2. CASE ~Agree("out") /\ toggles' = Kept("out", 1) /\ UNCHANGED <<device, dToggles>>
      <3>1. toggles' \in Toggles /\ Agree("out")'
        BY <1>0, <2>2, FlipKeeps DEF UsbType, WireType, Kept, Agree, Flip, Toggles, Ends
      <3>2. ~Busy /\ halted # Ends /\ toggles # dToggles
        BY <1>0, <2>1, <2>2 DEF TryInv, Agree, Ends
      <3> QED
        BY <1>0, <2>1, <2>2, <3>1, <3>2 DEF UInv, UsbType, WireType, CommandType,
           PlaceType, Places,
           TryInv, MovedInv, StepInv, MountInv, WellInv, Well, DoneRight, Busy, Whole
    <2> DEFINE Begins(s) == device' = Begun(s) /\ (s = 0 => left = op.n) /\ (s = 1 => left = 0)
    <2>3. CASE Agree("out") /\ Both("out", 1) /\ \E s \in {0, 1, 2} : Begins(s)
      <3>1. PICK s \in {0, 1, 2} : Begins(s)
        BY <2>3
      <3>2. /\ device' \in Devices /\ device'.want = left /\ device'.pos = 0 /\ device'.status = s
            /\ device'.phase = IF left > 0 THEN "data" ELSE "status"
        BY <1>0, <3>1, DeviceStarts DEF UsbType, CommandType, PlaceType
      <3>3. /\ toggles' \in Toggles /\ dToggles' \in Toggles /\ Agree("out")'
            /\ toggles = dToggles => toggles' = dToggles'
        BY <1>0, <2>3, BothCount DEF UsbType, WireType, Ends
      <3>4. halted # Ends
        BY <2>1 DEF Ends
      <3>5. UsbType' /\ TryInv'
        BY <1>0, <2>1, <3>1, <3>2, <3>3 DEF UsbType, WireType, CommandType, PlaceType,
           Places, TryInv, Busy
      <3>6. MovedInv'
        BY <1>0, <2>1, <3>1, <3>2 DEF UsbType, CommandType, PlaceType, MovedInv, Whole,
           Busy, AllMoved, Here
      <3>7. StepInv' /\ MountInv' /\ WellInv' /\ DoneRight'
        BY <1>0, <2>1, <3>2, <3>3, <3>4 DEF UsbType, CommandType, PlaceType, StepInv,
           MountInv, WellInv, Well, DoneRight
      <3> QED
        BY <3>5, <3>6, <3>7 DEF UInv
    <2>4. CASE Agree("out") /\ Both("out", 1) /\ device' = [device EXCEPT !.phase = "lost"]
      <3>1. /\ toggles' \in Toggles /\ dToggles' \in Toggles
            /\ toggles = dToggles => toggles' = dToggles'
        BY <1>0, <2>4, BothCount DEF UsbType, WireType, Ends
      <3>2. device' \in Devices /\ device'.phase = "lost"
        BY <1>0, <2>4, DeviceTurns DEF UsbType, WireType
      <3>3. halted # Ends
        BY <2>1 DEF Ends
      <3>4. UsbType' /\ TryInv'
        BY <1>0, <2>1, <3>1, <3>2 DEF UsbType, WireType, CommandType, PlaceType, Places,
           TryInv, Busy
      <3>5. MovedInv' /\ StepInv' /\ MountInv' /\ WellInv' /\ DoneRight'
        BY <1>0, <2>1, <3>1, <3>2, <3>3 DEF UsbType, PlaceType, MovedInv, Whole, Busy,
           StepInv, MountInv, WellInv, Well, DoneRight
      <3> QED
        BY <3>4, <3>5 DEF UInv
    <2> QED
      BY <1>0, <1>3, <2>2, <2>3, <2>4 DEF SendCbw
  <1> QED
    BY <1>1, <1>2, <1>3

(* The data of a write: all of it goes, or the try ends.                   *)
LEMMA DataOutKeeps ==
  ASSUME UInv, DataOut
  PROVE  UInv'
  <1>0. /\ UsbType /\ TryInv /\ MovedInv /\ StepInv /\ MountInv /\ WellInv /\ DoneRight
        /\ pc = "data" /\ op.write /\ job # "none"
    BY DEF UInv, DataOut, UsbType, PlaceType
  <1>1. CASE Stall("out")
    BY <1>0, <1>1, StallKeeps DEF DataOut, Ends
  <1>2. CASE Silence("out")
    BY <1>0, <1>2, SilenceKeeps DEF DataOut, Ends
  <1>a. UNCHANGED <<job, mounted, answer, op, missed, skewed>>
    BY DEF DataOut, Same, driver
  <1>b. Carried \in 0 .. left /\ left = op.n /\ left \in Nat /\ left > 0 /\ halted # Ends
    BY <1>0, CarriedFits DEF UsbType, CommandType, TryInv, Ends
  <1>3. ASSUME NEW k \in 0 .. Carried, Agree("out"), device.phase = "data", Both("out", k),
               (k = Carried /\ GoesOn(device.pos + k)) \/ Quits(device.pos + k),
               halted' = IF k < Carried THEN halted \cup {"out"} ELSE halted,
               moved' = [i \in DOMAIN moved |->
                 IF i > device.pos /\ i <= device.pos + k THEN Here + i - device.pos ELSE moved[i]],
               IF k # left THEN pc' = "reset" /\ UNCHANGED left ELSE pc' = "csw" /\ left' = 0,
               UNCHANGED <<reported, tag, silence>>
        PROVE  UInv'
    <2>1. device.pos = 0 /\ device.want = left /\ device.status # 1 /\ k \in Nat /\ k <= left
      BY <1>0, <1>b, <1>3 DEF TryInv
    <2>2. /\ device' \in Devices /\ device'.pos = k /\ device'.want = left
          /\ device'.phase = "status" \/ (device'.phase = "data" /\ k # left)
          /\ device'.status = device.status \/ device'.phase = "status"
      BY <1>0, <1>3, <2>1, DeviceGoesOn, DeviceQuits DEF UsbType, WireType
    <2>3. /\ toggles' \in Toggles /\ dToggles' \in Toggles /\ Agree("out")'
          /\ toggles = dToggles => toggles' = dToggles'
      BY <1>0, <1>3, <2>1, BothCount DEF UsbType, WireType, Ends
    <2>4. /\ moved' \in [1 .. op.n -> Nat]
          /\ \A i \in 1 .. op.n : i <= k => moved'[i] = i
      BY <1>0, <1>b, <1>3, <2>1 DEF UsbType, CommandType, Here
    <2>5. UsbType'
      BY <1>0, <1>3, <1>a, <1>b, <2>2, <2>3, <2>4 DEF UsbType, WireType, CommandType,
         PlaceType, Places, Ends
    <2>6. TryInv'
      BY <1>0, <1>3, <1>a, <1>b, <2>1, <2>2, <2>3 DEF TryInv, Busy
    <2>7. MovedInv'
      <3>1. CASE k = left
        <4>1. AllMoved'
          <5>1. op'.n = op.n /\ op.n = k /\ op.n \in Nat
            BY <1>a, <1>b, <3>1
          <5>2. ASSUME NEW i \in 1 .. op.n PROVE moved'[i] = i
            BY <2>4, <5>1, <5>2
          <5> QED
            BY <5>1, <5>2 DEF AllMoved
        <4>2. pc' = "csw"
          BY <1>3, <3>1
        <4>3. op'.write
          BY <1>0, <1>a
        <4>4. device'.want = op'.n
          BY <1>a, <1>b, <2>2
        <4> QED
          BY <4>1, <4>2, <4>3, <4>4 DEF MovedInv
      <3>2. CASE k # left
        BY <1>3, <3>2 DEF MovedInv, Whole
      <3> QED
        BY <3>1, <3>2
    <2>8. StepInv' /\ MountInv' /\ WellInv' /\ DoneRight'
      BY <1>0, <1>3, <1>a, <1>b, <2>2, <2>3 DEF StepInv, MountInv, WellInv, Well, DoneRight
    <2> QED
      BY <2>5, <2>6, <2>7, <2>8 DEF UInv
  <1>4. CASE /\ device.phase # "data" /\ device' = [device EXCEPT !.phase = "lost"]
             /\ halted' = Ends /\ toggles' = Kept("out", Carried)
             /\ IF Carried # left THEN pc' = "reset" /\ UNCHANGED left ELSE pc' = "csw" /\ left' = 0
             /\ UNCHANGED <<dToggles, reported, moved, tag, silence>>
    <2>1. device' \in Devices /\ device'.phase = "lost"
      BY <1>0, <1>4, DeviceTurns DEF UsbType, WireType
    <2>2. toggles' \in Toggles
      BY <1>0, <1>4, <1>b, FlipKeeps DEF UsbType, WireType, Kept, Ends
    <2>3. UsbType' /\ TryInv' /\ MovedInv'
      BY <1>0, <1>4, <1>a, <1>b, <2>1, <2>2 DEF UsbType, WireType, CommandType,
         PlaceType, Places, TryInv,
         Busy, MovedInv, Whole
    <2>4. StepInv' /\ MountInv' /\ WellInv' /\ DoneRight'
      BY <1>0, <1>4, <1>a, <2>1 DEF StepInv, MountInv, WellInv, Well, DoneRight
    <2> QED
      BY <2>3, <2>4 DEF UInv
  <1> QED
    BY <1>1, <1>2, <1>3, <1>4 DEF DataOut, Refused


(* The data of a read: the sectors come in order, and none is counted      *)
(* that the device has not sent.                                           *)
LEMMA DataInKeeps ==
  ASSUME UInv, DataIn
  PROVE  UInv'
  <1>0. /\ UsbType /\ TryInv /\ MovedInv /\ StepInv /\ MountInv /\ WellInv /\ DoneRight
        /\ pc = "data" /\ ~op.write /\ job # "none"
    BY DEF UInv, DataIn, UsbType, PlaceType
  <1>a. /\ UNCHANGED <<job, mounted, answer, op, missed, skewed, reported, tag>>
        /\ StepInv' \/ pc' \in {"cbw", "done", "failed"}
    BY <1>0 DEF DataIn, Same, driver, StepInv
  <1>b. /\ Carried \in 0 .. left /\ left \in Nat /\ left > 0 /\ left <= op.n /\ op.n \in Nat
        /\ halted # Ends /\ Here \in Nat
    BY <1>0, CarriedFits DEF UsbType, CommandType, TryInv, Ends, Here
  <1>1. CASE Silence("in")
    BY <1>0, <1>1, SilenceKeeps DEF DataIn, Ends
  <1>2. CASE pc' = "csw" /\ UNCHANGED <<wire, left, moved, silence>>
    BY <1>0, <1>a, <1>2 DEF UInv, UsbType, WireType, CommandType, PlaceType, Places,
       TryInv, Busy, Agree,
       MovedInv, Whole, AllMoved, Here, MountInv, WellInv, Well, DoneRight, wire
  <1>3. CASE device.phase = "idle" /\ pc' = "leave" /\ UNCHANGED <<wire, left, moved, silence>>
    BY <1>0, <1>a, <1>3 DEF UInv, UsbType, WireType, CommandType, PlaceType, Places,
       TryInv, Busy, Agree,
       MovedInv, Whole, AllMoved, Here, MountInv, WellInv, Well, DoneRight, wire
  <1>4. ASSUME NEW k \in 0 .. Carried, device.phase = "data", "in" \notin halted,
               k <= device.want - device.pos, Both("in", k),
               moved' = [i \in DOMAIN moved |->
                 IF i > Here /\ i <= Here + k THEN device.pos + i - Here ELSE moved[i]],
               left' = left - k, UNCHANGED silence,
               \/ /\ k = Carried \/ k = device.want - device.pos
                  /\ GoesOn(device.pos + k) /\ UNCHANGED halted
                  /\ pc' = IF k = Carried THEN "csw" ELSE "data"
               \/ /\ Quits(device.pos + k) /\ pc' = "csw"
                  /\ halted' = IF k < Carried THEN halted \cup {"in"} ELSE halted
        PROVE  UInv'
    <2>0. /\ device \in Devices /\ device.pos \in Nat /\ device.want \in Nat /\ k \in Nat
          /\ device.status # 1 /\ Agree("out") /\ device.pos + k \in Nat
      BY <1>0, <1>b, <1>4 DEF UsbType, WireType, Devices, TryInv, Busy
    <2>1. /\ device' \in Devices /\ device'.pos = device.pos + k /\ device'.want = device.want
          /\ device'.status = 2 <=> device.status = 2
          /\ \/ device'.phase = "status"
             \/ /\ device'.phase = "data" /\ device'.pos # device'.want
                /\ device'.status = device.status
      BY <1>4, <2>0, DeviceGoesOn, DeviceQuits
    <2>2. /\ toggles' \in Toggles /\ dToggles' \in Toggles /\ Agree("out")'
          /\ toggles = dToggles => toggles' = dToggles'
      BY <1>0, <1>4, <2>0, BothCount DEF UsbType, WireType, Ends
    <2>3. /\ left' \in 0 .. op.n /\ Here' = Here + k
          /\ pc' = "csw" \/ (pc' = "data" /\ k = device.want - device.pos /\ k < Carried /\ left' > 0
                            /\ halted' = halted)
      BY <1>a, <1>b, <1>4, <2>0 DEF Here
    <2>4. /\ moved' \in [1 .. op.n -> Nat]
          /\ \A i \in 1 .. op.n : i <= Here => moved'[i] = moved[i]
          /\ \A i \in 1 .. op.n : i > Here /\ i <= Here + k => moved'[i] = device.pos + i - Here
      BY <1>0, <1>b, <1>4, <2>0 DEF UsbType, CommandType
    <2>5. UsbType'
      BY <1>0, <1>4, <1>a, <2>1, <2>2, <2>3, <2>4 DEF UsbType, WireType, CommandType,
         PlaceType, Places, Ends
    <2>6. TryInv'
      BY <1>0, <1>4, <1>a, <2>0, <2>1, <2>2, <2>3 DEF TryInv, Busy
    <2>7. MovedInv'
      <3>1. ASSUME Whole' PROVE Whole
        BY <1>0, <1>4, <2>0, <2>1, <3>1 DEF Whole, Busy, UsbType, WireType, Devices
      <3>2. ASSUME Whole'
            PROVE  /\ Here' <= device'.pos
                   /\ \A i \in 1 .. Here' : i <= moved'[i] /\ moved'[i] + Here' <= i + device'.pos
        <4>1. /\ Here <= device.pos
              /\ \A i \in 1 .. Here : i <= moved[i] /\ moved[i] + Here <= i + device.pos
          BY <1>0, <3>1, <3>2 DEF MovedInv
        <4>2. ASSUME NEW i \in 1 .. Here'
              PROVE  i <= moved'[i] /\ moved'[i] + Here' <= i + device'.pos
          <5>1. i \in 1 .. op.n /\ i \in Nat
            BY <1>b, <1>4, <2>0, <2>3 DEF Here
          <5>2. CASE i <= Here
            <6>1. moved'[i] = moved[i]
              BY <2>4, <5>1, <5>2
            <6>2. i <= moved[i] /\ moved[i] + Here <= i + device.pos /\ moved[i] \in Nat
              BY <1>0, <1>b, <4>1, <5>1, <5>2 DEF UsbType, CommandType
            <6>3. Here' = Here + k /\ device'.pos = device.pos + k
              BY <2>1, <2>3
            <6> QED
              BY <1>b, <2>0, <5>1, <6>1, <6>2, <6>3
          <5>3. CASE i > Here
            BY <1>b, <2>0, <2>1, <2>3, <2>4, <4>1, <4>2, <5>1, <5>3
          <5> QED
            BY <1>b, <5>1, <5>2, <5>3
        <4> QED
          BY <1>b, <2>0, <2>1, <2>3, <4>1, <4>2
      <3> QED
        BY <1>0, <1>a, <2>1, <2>3, <3>1, <3>2 DEF MovedInv
    <2>8. WellInv'
      BY <1>0, <1>4, <1>a, <1>b, <2>0, <2>1, <2>2, <2>3 DEF WellInv, Well
    <2> QED
      BY <1>0, <1>a, <2>3, <2>5, <2>6, <2>7, <2>8 DEF UInv, MountInv, DoneRight
  <1>5. CASE /\ ~Agree("in") /\ device.phase = "data" /\ dToggles' = Flip(dToggles, "in", 1)
             /\ GoesOn(device.pos + 1) /\ UNCHANGED <<toggles, halted, left, moved, pc, silence>>
    <2>0. /\ device \in Devices /\ device.pos \in Nat /\ device.want \in Nat
          /\ device.status # 1 /\ Agree("out") /\ device.pos < device.want
      BY <1>0, <1>5 DEF UsbType, WireType, Devices, TryInv, Busy
    <2>1. /\ device' \in Devices /\ device'.pos = device.pos + 1 /\ device'.want = device.want
          /\ device'.status = device.status
          /\ device'.phase = IF device.pos + 1 = device.want THEN "status" ELSE "data"
      BY <1>5, <2>0, DeviceGoesOn
    <2>2. dToggles' \in Toggles /\ Agree("out")' /\ toggles # dToggles
      BY <1>0, <1>5, <2>0, FlipKeeps DEF UsbType, WireType, Agree, Ends
    <2>3. UsbType' /\ TryInv'
      BY <1>0, <1>5, <1>a, <2>0, <2>1, <2>2 DEF UsbType, WireType, CommandType,
         PlaceType, TryInv, Busy
    <2>4. MovedInv'
      <3>1. Here' = Here /\ (Whole' => Whole)
        BY <1>5, <1>a, <2>1 DEF Here, Whole, Busy
      <3>2. ASSUME NEW i \in 1 .. Here PROVE i \in Nat /\ moved[i] \in Nat
        BY <1>0, <1>b, <3>2 DEF UsbType, CommandType, Here
      <3> QED
        BY <1>0, <1>5, <1>a, <1>b, <2>0, <2>1, <3>1, <3>2 DEF MovedInv
    <2>5. WellInv'
      BY <1>0, <1>5, <1>a, <1>b, <2>2 DEF WellInv, Well
    <2> QED
      BY <1>0, <1>5, <1>a, <2>3, <2>4, <2>5 DEF UInv, MountInv, DoneRight
  <1>6. CASE /\ device.phase \in {"status", "lost"} /\ UNCHANGED <<halted, left, moved, silence>>
             /\ device' = [device EXCEPT !.phase = IF device.phase = "status" THEN "idle" ELSE device.phase]
             /\ IF Agree("in") THEN Both("in", 1) /\ pc' = "csw"
                ELSE dToggles' = Flip(dToggles, "in", 1) /\ UNCHANGED toggles /\ pc' = "leave"
    <2>1. device' \in Devices /\ device'.phase = IF device.phase = "status" THEN "idle" ELSE "lost"
      BY <1>0, <1>6 DEF UsbType, WireType, Devices
    <2>2. /\ toggles' \in Toggles /\ dToggles' \in Toggles
          /\ Agree("in") /\ toggles = dToggles => toggles' = dToggles'
          /\ toggles = dToggles => Agree("in")
      BY <1>0, <1>6, BothCount, FlipKeeps DEF UsbType, WireType, Agree, Ends
    <2>3. UsbType' /\ TryInv' /\ MovedInv'
      BY <1>0, <1>6, <1>a, <2>1, <2>2 DEF UsbType, WireType, CommandType, PlaceType,
         Places, TryInv, Busy,
         MovedInv, Whole
    <2>4. WellInv'
      BY <1>0, <1>6, <1>a, <1>b, <2>1, <2>2 DEF WellInv, Well
    <2> QED
      BY <1>0, <1>6, <1>a, <2>3, <2>4 DEF UInv, MountInv, DoneRight
  <1> QED
    BY <1>0, <1>1, <1>2, <1>3, <1>4, <1>5, <1>6 DEF DataIn, TimesOut


(* __read_csw: a good status ends a try in which all has moved, or the     *)
(* read ended early.                                                       *)
LEMMA ReadCswKeeps ==
  ASSUME UInv, ReadCsw
  PROVE  UInv'
  <1>0. /\ UsbType /\ TryInv /\ MovedInv /\ StepInv /\ MountInv /\ WellInv /\ DoneRight
        /\ pc = "csw" /\ job # "none"
    BY DEF UInv, ReadCsw, UsbType, PlaceType
  <1>1. CASE Stall("in")
    BY <1>0, <1>1, StallKeeps DEF ReadCsw, Ends
  <1>2. CASE Silence("in")
    BY <1>0, <1>2, SilenceKeeps DEF ReadCsw, Ends
  <1>a. UNCHANGED <<left, moved, job, mounted, answer, op, missed, skewed>>
    BY DEF ReadCsw, Same, driver
  <1>3. CASE /\ (device.phase = "idle" /\ pc' = "silent") \/ (device.phase \in {"data", "lost"} /\ pc' = "reset")
             /\ UNCHANGED <<toggles, device, dToggles, reported, tag, halted, silence>>
    BY <1>0, <1>a, <1>3 DEF UInv, UsbType, WireType, CommandType, PlaceType, Places,
       TryInv, Busy, Agree,
       MovedInv, Whole, StepInv, MountInv, WellInv, Well, DoneRight
  <1>4. CASE /\ device.phase = "status" /\ ~Agree("in") /\ pc' = "silent" /\ "in" \notin halted
             /\ device' = Idle /\ dToggles' = Flip(dToggles, "in", 1)
             /\ UNCHANGED <<toggles, reported, tag, halted, silence>>
    <2>1. dToggles' \in Toggles /\ toggles # dToggles /\ halted # Ends
      BY <1>0, <1>4, FlipKeeps DEF UsbType, WireType, Agree, Ends
    <2> QED
      BY <1>0, <1>a, <1>4, <2>1, Quiet DEF UInv, UsbType, WireType, CommandType,
         PlaceType, Places, TryInv,
         Busy, MovedInv, Whole, StepInv, MountInv, WellInv, Well, DoneRight
  <1>5. CASE /\ device.phase = "status" /\ Both("in", 1) /\ device' = Idle /\ reported' = device.status
             /\ IF device.tag = tag THEN tag' = tag + 1 /\ pc' = "done" ELSE pc' = "reset" /\ UNCHANGED tag
             /\ UNCHANGED <<halted, silence>>
    <2>1. /\ toggles' \in Toggles /\ dToggles' \in Toggles
          /\ toggles = dToggles => toggles' = dToggles'
      BY <1>0, <1>5, BothCount DEF UsbType, WireType, Ends
    <2>2. UsbType' /\ TryInv'
      BY <1>0, <1>a, <1>5, <2>1, Quiet DEF UsbType, WireType, Devices, CommandType,
         PlaceType, Places, TryInv, Busy
    <2>3. ASSUME device.status = 0, ~(~op.write /\ left > 0)
          PROVE  AllMoved
      <3>1. Whole /\ device.want = op.n /\ left = 0
        BY <1>0, <1>5, <2>3 DEF UsbType, CommandType, Whole, Busy, MovedInv, TryInv
      <3>2. CASE op.write
        BY <1>0, <1>5, <3>1, <3>2 DEF MovedInv
      <3>3. CASE ~op.write
        <4>1. Here = op.n /\ op.n \in Nat
          BY <1>0, <3>1 DEF Here, UsbType, CommandType
        <4>2. /\ Here <= device.pos /\ device.pos <= op.n /\ device.pos \in Nat
              /\ \A i \in 1 .. Here : i <= moved[i] /\ moved[i] + Here <= i + device.pos
          BY <1>0, <1>5, <3>1, <3>3 DEF MovedInv, TryInv, Busy, UsbType, WireType, Devices
        <4>3. device.pos = op.n
          BY <4>1, <4>2
        <4>4. ASSUME NEW i \in 1 .. op.n PROVE moved[i] = i
          <5>1. i \in Nat /\ moved[i] \in Nat
            BY <1>0, <4>1, <4>4 DEF UsbType, CommandType
          <5>2. i <= moved[i] /\ moved[i] + op.n <= i + op.n
            BY <4>1, <4>2, <4>3, <4>4
          <5> QED
            BY <4>1, <5>1, <5>2
        <4> QED
          BY <4>4 DEF AllMoved
      <3> QED
        BY <3>2, <3>3
    <2>4. MovedInv'
      <3>1. pc' = "done" => AllMoved' \/ reported' # 0 \/ (~op'.write /\ left' > 0)
        BY <1>a, <1>5, <2>3 DEF AllMoved
      <3>2. ~Whole'
        BY <1>5 DEF Whole
      <3> QED
        BY <3>1, <3>2 DEF MovedInv
    <2>5. StepInv' /\ MountInv' /\ WellInv' /\ DoneRight'
      BY <1>0, <1>a, <1>5, <2>1, Quiet DEF StepInv, MountInv, WellInv, Well, DoneRight
    <2> QED
      BY <2>2, <2>4, <2>5 DEF UInv
  <1> QED
    BY <1>1, <1>2, <1>3, <1>4, <1>5 DEF ReadCsw, TimesOut

(* __usbstorage_reset: either the device waits, or it missed the reset.    *)
LEMMA ResetKeeps ==
  ASSUME UInv, Reset
  PROVE  UInv'
  <1>0. /\ UsbType /\ TryInv /\ MovedInv /\ StepInv /\ MountInv /\ WellInv /\ DoneRight
        /\ pc \in {"reset", "last", "leave"} /\ job # "none"
    BY DEF UInv, Reset, UsbType, PlaceType
  <1>a. UNCHANGED <<op, moved, left, reported, job, mounted, answer, tag, toggles>>
    BY DEF Reset, command, driver
  <1> DEFINE After == IF pc = "leave" THEN {"silent"} ELSE {"failed", "cbw", "last"}
  <1>1. CASE Cleared /\ pc' \in After /\ UNCHANGED silence
    <2>1. /\ device' = Idle /\ halted' = {} /\ dToggles' = Fresh
          /\ Well' => Well /\ toggles = Fresh
      BY <1>1, Zenon DEF Cleared, Well
    <2>2. UsbType' /\ TryInv' /\ MovedInv'
      BY <1>0, <1>a, <1>1, <2>1, Quiet DEF UsbType, WireType, CommandType, PlaceType,
         Places, TryInv, Busy,
         MovedInv, Whole
    <2>3. StepInv' /\ MountInv' /\ WellInv' /\ DoneRight'
      BY <1>0, <1>a, <1>1, <2>1, Quiet DEF StepInv, MountInv, WellInv, DoneRight
    <2> QED
      BY <2>2, <2>3 DEF UInv
  <1>2. CASE NotCleared /\ pc' \in After /\ UNCHANGED silence
    BY <1>0, <1>a, <1>2 DEF NotCleared, UInv, UsbType, WireType, CommandType, PlaceType,
       Places, TryInv, Busy,
       Agree, MovedInv, Whole, StepInv, MountInv, WellInv, Well, DoneRight
  <1>3. CASE pc' = "silent" /\ silence' = TRUE /\ UNCHANGED <<device, halted, dToggles, missed, skewed>>
    BY <1>0, <1>a, <1>3 DEF UInv, UsbType, WireType, CommandType, PlaceType, Places,
       TryInv, Busy, Agree,
       MovedInv, Whole, StepInv, MountInv, WellInv, Well, DoneRight
  <1> QED
    BY <1>1, <1>2, <1>3 DEF Reset, TimesOut

-----------------------------------------------------------------------------
(* A command begins at a device that waits for one.                        *)
LEMMA StartKeeps ==
  ASSUME UInv, NEW j \in Jobs \ {"none"}, NEW w \in BOOLEAN, NEW n \in Nat, Start(j, w, n),
         j = "transfer" => mounted, device.phase = "idle" \/ missed \/ j = "capacity",
         UNCHANGED <<mounted, answer, tag, wire, history>>
  PROVE  UInv'
  <1>0. UsbType /\ TryInv /\ MovedInv /\ StepInv /\ MountInv /\ WellInv /\ DoneRight
    BY DEF UInv
  <1>1. /\ job' = j /\ pc' = "cbw" /\ op' = [write |-> w, n |-> n] /\ left' = n
        /\ moved' = [i \in 1 .. n |-> 0] /\ reported' = 0
        /\ UNCHANGED <<mounted, answer, tag, toggles, device, dToggles, halted, missed, silence, skewed>>
    BY DEF Start, wire, history
  <1>2. UsbType'
    BY <1>0, <1>1 DEF UsbType, WireType, CommandType, PlaceType, Places, Jobs
  <1>3. TryInv' /\ MovedInv'
    BY <1>0, <1>1 DEF TryInv, Busy, Agree, MovedInv, Whole
  <1>4. StepInv' /\ MountInv' /\ WellInv' /\ DoneRight'
    BY <1>0, <1>1 DEF StepInv, MountInv, WellInv, Well, DoneRight
  <1> QED
    BY <1>2, <1>3, <1>4 DEF UInv

LEMMA NotMountedKeeps ==
  ASSUME UInv, NotMounted, UNCHANGED <<tag, wire, history>>
  PROVE  UInv'
  <1>0. UsbType /\ TryInv /\ MovedInv /\ StepInv /\ MountInv /\ WellInv /\ DoneRight
    BY DEF UInv
  <1>1. /\ job' = "boot" /\ pc' = "end"
        /\ UNCHANGED <<op, moved, left, reported, mounted, answer, tag, toggles, device, dToggles, halted,
                       missed, silence, skewed>>
    BY DEF NotMounted, command, wire, history
  <1>2. UsbType' /\ TryInv' /\ MovedInv'
    BY <1>0, <1>1 DEF UsbType, WireType, CommandType, PlaceType, Places, Jobs, TryInv,
       Busy, Agree, MovedInv, Whole
  <1>3. StepInv' /\ MountInv' /\ WellInv' /\ DoneRight'
    BY <1>0, <1>1 DEF StepInv, MountInv, WellInv, Well, DoneRight
  <1> QED
    BY <1>2, <1>3 DEF UInv

LEMMA BootKeeps ==
  ASSUME UInv, Boot
  PROVE  UInv'
  <1>0. UsbType /\ TryInv /\ MovedInv /\ StepInv /\ MountInv /\ WellInv /\ DoneRight /\ job = "boot" /\ pc = "end"
    BY DEF UInv, Boot
  <1>1. /\ tag' = 1 /\ toggles' = Fresh /\ device' = Idle /\ dToggles' = Fresh /\ halted' = {}
        /\ UNCHANGED <<mounted, answer>>
    BY DEF Boot
  <1>2. CASE Start("ready", TRUE, 0)
    <2>1. /\ job' = "ready" /\ pc' = "cbw" /\ op' = [write |-> TRUE, n |-> 0] /\ left' = 0
          /\ moved' = [i \in 1 .. 0 |-> 0] /\ reported' = 0
      BY <1>2 DEF Start
    <2> QED
      BY <1>0, <1>1, <2>1, Quiet DEF UInv, UsbType, WireType, CommandType, PlaceType,
         Places, Jobs, TryInv,
         Busy, MovedInv, Whole, StepInv, MountInv, WellInv, DoneRight
  <1>3. CASE UNCHANGED <<command, pc, left, tries, reported, job>>
    BY <1>0, <1>1, <1>3, Quiet DEF UInv, UsbType, WireType, CommandType, PlaceType,
       Places, Jobs, TryInv,
       Busy, MovedInv, Whole, StepInv, MountInv, WellInv, DoneRight, command
  <1> QED
    BY <1>2, <1>3 DEF Boot

(* What a transfer reports, and what is known of it.                       *)
LEMMA OutcomeRight ==
  ASSUME UInv, pc = "done", NEW ok \in BOOLEAN, answer' = Outcome(ok)
  PROVE  DoneRight'
  <1>1. AllMoved \/ reported # 0 \/ (~op.write /\ left > 0)
    BY DEF UInv, MovedInv
  <1>2. DOMAIN moved = 1 .. op.n
    BY DEF UInv, UsbType, CommandType
  <1>3. /\ answer'.right = (\A i \in DOMAIN moved : moved[i] = i)
        /\ answer'.status = reported /\ answer'.short = (~op.write /\ left > 0)
    BY DEF Outcome
  <1>4. CASE AllMoved
    <2>1. \A i \in DOMAIN moved : moved[i] = i
      BY <1>2, <1>4 DEF AllMoved
    <2> QED
      BY <1>3, <2>1, Zenon DEF DoneRight
  <1>5. CASE reported # 0
    BY <1>3, <1>5 DEF DoneRight
  <1>6. CASE ~op.write /\ left > 0
    BY <1>3, <1>6, Zenon DEF DoneRight
  <1> QED
    BY <1>1, <1>4, <1>5, <1>6

LEMMA MountingKeeps ==
  ASSUME UInv, Mounting
  PROVE  UInv'
  <1>0. UsbType /\ TryInv /\ MovedInv /\ StepInv /\ MountInv /\ WellInv /\ DoneRight
    BY DEF UInv
  <1>a. UNCHANGED <<tag, wire, history>>
    BY DEF Mounting
  <1>b. pc = "done" /\ job \notin {"none"} => device.phase = "idle" \/ missed
    BY <1>0 DEF StepInv
  <1>c. /\ {"sense", "inquiry", "capacity"} \subseteq Jobs \ {"none"} /\ 1 \in Nat
        /\ TRUE \in BOOLEAN /\ FALSE \in BOOLEAN
    BY DEF Jobs
  <1>1. CASE Readied
    BY <1>a, <1>b, <1>c, <1>1, StartKeeps, NotMountedKeeps DEF Readied
  <1>2. CASE Sensed
    BY <1>a, <1>b, <1>c, <1>2, StartKeeps, NotMountedKeeps DEF Sensed
  <1>3. CASE Inquired
    BY <1>a, <1>b, <1>c, <1>3, StartKeeps DEF Inquired
  <1>4. CASE Sized /\ pc = "done" /\ mounted'
    <2>1. /\ mounted' /\ answer' = Outcome(TRUE) /\ job' = "none" /\ pc' = "end"
          /\ UNCHANGED <<op, moved, left, reported, tag, toggles, device, dToggles, halted, missed, silence, skewed>>
      BY <1>a, <1>4 DEF Sized, NotMounted, command, wire, history
    <2>2. UsbType' /\ TryInv' /\ MovedInv'
      BY <1>0, <2>1 DEF UsbType, WireType, CommandType, PlaceType, Places, Jobs, TryInv,
         Busy, Agree, MovedInv, Whole
    <2>3. StepInv' /\ MountInv' /\ WellInv'
      BY <1>0, <1>4, <2>1 DEF StepInv, MountInv, WellInv, Well
    <2>4. DoneRight'
      BY <1>4, <2>1, OutcomeRight
    <2> QED
      BY <2>2, <2>3, <2>4 DEF UInv
  <1>5. CASE Sized /\ NotMounted
    BY <1>a, <1>5, NotMountedKeeps
  <1> QED
    BY <1>1, <1>2, <1>3, <1>4, <1>5 DEF Mounting, Sized

LEMMA RequestKeeps ==
  ASSUME UInv, Request
  PROVE  UInv'
  <1>0. UsbType /\ TryInv /\ MovedInv /\ StepInv /\ MountInv /\ WellInv /\ DoneRight /\ job = "none"
    BY DEF UInv, Request
  <1>a. UNCHANGED <<mounted, tag, wire, history>>
    BY DEF Request
  <1>1. CASE mounted
    <2>1. PICK w \in BOOLEAN, n \in 1 .. Wrap : Start("transfer", w, n) /\ UNCHANGED answer
      BY <1>1 DEF Request
    <2>2. n \in Nat /\ "transfer" \in Jobs \ {"none"} /\ (device.phase = "idle" \/ missed)
      BY <1>0, <1>1, UsbDiskAssumption DEF Jobs, StepInv, UsbType, PlaceType
    <2> QED
      BY <1>a, <1>1, <2>1, <2>2, StartKeeps
  <1>2. CASE ~mounted
    <2>1. answer' = NoAnswer /\ UNCHANGED <<command, pc, left, tries, reported, job>>
      BY <1>2 DEF Request
    <2>2. DoneRight'
      BY <2>1 DEF DoneRight, NoAnswer
    <2> QED
      BY <1>0, <1>a, <2>1, <2>2 DEF UInv, UsbType, WireType, CommandType, PlaceType,
         TryInv, Busy, Agree,
         MovedInv, Whole, AllMoved, Here, StepInv, MountInv, WellInv, Well, command, wire, history
  <1> QED
    BY <1>1, <1>2

LEMMA FinishKeeps ==
  ASSUME UInv, Finish
  PROVE  UInv'
  <1>0. UsbType /\ TryInv /\ MovedInv /\ StepInv /\ MountInv /\ WellInv /\ DoneRight /\ job = "transfer" /\ mounted
    BY DEF UInv, Finish, MountInv
  <1>1. /\ job' = "none" /\ pc' = "end" /\ pc \in {"done", "failed", "silent"}
        /\ UNCHANGED <<op, moved, left, reported, tag, toggles, device, dToggles, halted, missed, silence, skewed>>
    BY DEF Finish, command, wire, history
  <1>2. UsbType' /\ TryInv' /\ MovedInv' /\ MountInv'
    BY <1>0, <1>1 DEF UsbType, WireType, CommandType, PlaceType, Places, Jobs, TryInv,
       Busy, Agree, MovedInv,
       Whole, MountInv
  <1>3. CASE pc = "silent"
    <2>1. ~mounted' /\ answer' = Outcome(FALSE)
      BY <1>3 DEF Finish, Unmounted
    <2>2. StepInv' /\ WellInv' /\ DoneRight'
      BY <1>0, <1>1, <1>3, <2>1 DEF StepInv, WellInv, Well, DoneRight, Outcome
    <2> QED
      BY <1>2, <2>2 DEF UInv
  <1>4. CASE pc # "silent"
    <2>1. mounted'
      BY <1>0, <1>4 DEF Finish
    <2>2. StepInv' /\ WellInv'
      BY <1>0, <1>1, <1>4, <2>1 DEF StepInv, WellInv, Well
    <2>3. CASE pc = "done"
      <3>1. answer' = Outcome(TRUE)
        BY <2>3 DEF Finish
      <3> QED
        BY <1>2, <2>2, <2>3, <3>1, OutcomeRight DEF UInv
    <2>4. CASE pc = "failed"
      <3>1. answer' = Outcome(FALSE)
        BY <2>4 DEF Finish
      <3>2. DoneRight'
        BY <3>1 DEF DoneRight, Outcome
      <3> QED
        BY <1>2, <2>2, <3>2 DEF UInv
    <2> QED
      BY <1>1, <1>4, <2>3, <2>4
  <1> QED
    BY <1>3, <1>4

(* The invariant of the USB disk.                                          *)
THEOREM UInvHolds == UsbSpec => []UInv
  <1>1. UsbInit => UInv
    BY Quiet DEF UsbInit, UInv, UsbType, WireType, CommandType, PlaceType, Jobs, Places,
       TryInv, Busy, MovedInv,
       Whole, StepInv, MountInv, WellInv, DoneRight, Idle, NoAnswer
  <1>2. UInv /\ [UsbNext]_usbVars => UInv'
    <2>1. ASSUME UInv, UNCHANGED usbVars PROVE UInv'
      BY <2>1 DEF UInv, UsbType, WireType, CommandType, PlaceType, TryInv, Busy, Agree,
         MovedInv, Whole,
         AllMoved, Here, StepInv, MountInv, WellInv, Well, DoneRight, usbVars, command, driver, wire, history
    <2> QED
      BY <2>1, SendCbwKeeps, DataOutKeeps, DataInKeeps, ReadCswKeeps, ResetKeeps,
         BootKeeps, MountingKeeps,
         FinishKeeps, RequestKeeps DEF UsbNext, Goes, Cycle
  <1> QED
    BY <1>1, <1>2, PTL DEF UsbSpec

(* Whatever went wrong and was tried again, a transfer reported done moved *)
(* every sector to its place, unless the device's own status or an early   *)
(* end of a read, which the code does not look at, said otherwise.         *)
THEOREM TransfersAreRight == UsbSpec => []DoneRight
  <1>1. UInv => DoneRight
    BY DEF UInv
  <1> QED
    BY <1>1, UInvHolds, PTL

(* A command block is sent to a device that waits for one.                 *)
THEOREM CommandsAreInStep == UsbSpec => []InStep
  <1>1. UInv => InStep
    BY DEF UInv, StepInv, InStep
  <1> QED
    BY <1>1, UInvHolds, PTL

(* The disk is given up for a reason only.                                 *)
THEOREM DiskIsLostForAReason == UsbSpec => []LostForAReason
  <1>1. UInv => LostForAReason
    BY DEF UInv, WellInv, Well, LostForAReason
  <1> QED
    BY <1>1, UInvHolds, PTL
=============================================================================
