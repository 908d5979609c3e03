--------------------------- MODULE EsTitles_proofs ---------------------------
(***************************************************************************)
(* Proofs about the titles of ES: what uid.sys says of a title that runs   *)
(* is true, a start ends in the title that was meant, bad orders are       *)
(* forgotten, and the lists answered from memory are right unless ES was   *)
(* not told of a change.                                                   *)
(***************************************************************************)
EXTENDS EsTitles, FiniteSetTheorems, TLAPS

Entries == [title : Titles, uid : Nat]
Steps   == {"boot", "reload", "load", "disc", "start", "run", "stuck", "panic"}

CacheType ==
  cache \in [dirty : BOOLEAN, n : Nat, list : {cache.list}, counted : BOOLEAN,
             changed : BOOLEAN, stale : BOOLEAN]
TypeInv ==
  /\ uidSys \in {None} \cup Seq(Entries)
  /\ launchSys \in {None, Menu} \cup Channels \cup Ioses
  /\ reloadSys \in {None, Menu} \cup Channels
  /\ discSys \in {None} \cup Discs /\ autoboot \in {Menu} \cup Channels
  /\ lost \in Nat /\ kind \in Lists
  /\ CacheType
  /\ TitleID \in Titles \cup {None} /\ (pc # "boot" => TitleID \in Titles)
  /\ uid \in Nat /\ importing \in {None} \cup Titles /\ pc \in Steps
  /\ asked \in {None} \cup Titles /\ seen \in {None} \cup Discs /\ fails \in Nat

(* While ES comes up it has opened and read nothing yet.                   *)
Up == pc = "run"
BootInv ==
  /\ ~Up => lost = 0 /\ cache = Fresh /\ seen = None
  /\ ~Up /\ pc # "stuck" => uid = 0
  /\ Menu \in tmd /\ Menu \in tik

(* What a title's entry is: its own, with the number its place gives it.   *)
PlaceUid(i) == {i + 1} \cup {n \in {1} : i = 1}
Numbered(file) ==
  file # None =>
    /\ \A i, j \in DOMAIN file : file[i].title = file[j].title => i = j
    /\ \A i \in DOMAIN file : file[i].uid \in PlaceUid(i)
UidInv == Numbered(uidSys)

Records(file, t, n) ==
  IF n = 0 THEN file = <<>> /\ ~EmptyLoads
  ELSE file # None /\ \E i \in DOMAIN file : file[i] = Entry(t, n)

RunInv == Up /\ Opens => Records(uidSys, TitleID, uid) \/ (uid = 0 /\ TitleID \in Discs)

(* The title the start under way will end in.                              *)
AfterDisc(t) == IF t \in Ioses /\ discSys # None THEN discSys ELSE t
AfterReload  == IF reloadSys = None THEN Menu ELSE reloadSys
Will ==
  CASE pc = "boot"   -> IF launchSys = Menu THEN AfterReload ELSE AfterDisc(launchSys)
    [] pc = "reload" -> AfterReload
    [] pc \in {"load", "disc"} -> AfterDisc(TitleID)
    [] OTHER -> TitleID
AskedInv ==
  /\ asked # None /\ pc \notin {"stuck", "panic"} => asked = Will
  /\ asked # None /\ pc = "boot" => launchSys # None
  /\ Up => discSys = seen
  /\ pc = "start" => discSys = None

(* The orders still to be tried and the starts they have cost.  The title  *)
(* of the settings costs none that is counted.                             *)
One(b) == IF b THEN 1 ELSE 0
Cost == fails + One(launchSys # None) + One(reloadSys # None)
              + One(pc \in {"load", "disc", "start"} /\ TitleID \notin {Menu, autoboot})
CostInv ==
  /\ Cost <= 2
  /\ Up => fails = 0 /\ launchSys = None
  /\ pc \notin {"boot", "panic", "stuck"} => launchSys = None
  /\ pc = "reload" => TitleID = Menu
  /\ pc \in {"disc", "start"} => TitleID \in tmd
  /\ pc \in {"panic", "stuck"} /\ TitleID = autoboot => autoboot \notin tmd \cap tik

(* What a list in memory is, as long as nothing it depends on has changed. *)
CacheInv ==
  /\ ~cache.dirty => cache.counted
  /\ cache.counted /\ ~cache.changed => cache.n = Len(Listed)
  /\ ~cache.dirty /\ ~cache.stale =>
       cache.n = Len(Listed) /\ Cut(cache.list, cache.n) = Listed
  /\ ListsTruthful

IInv == TypeInv /\ BootInv /\ UidInv /\ RunInv /\ AskedInv /\ CostInv /\ CacheInv

-----------------------------------------------------------------------------
(* What ES_GetUID returns and leaves in uid.sys.                           *)
LEMMA NoneIsNoList == None \notin Seq(Entries)
  BY EsTitlesAssumption DEF Entries

LEMMA ExistingIsList ==
  ASSUME TypeInv, UidInv
  PROVE  /\ Existing \in Seq(Entries) /\ Existing # None /\ Numbered(Existing)
         /\ uidSys # None => Existing = uidSys
  <1>1. CASE uidSys = None
    <2>1. Entry(Menu, 1) \in Entries
      BY DEF Entry, Entries, Titles
    <2>2. <<Entry(Menu, 1)>> \in Seq(Entries) /\ <<Entry(Menu, 1)>> # None
      BY <2>1, NoneIsNoList
    <2>3. Numbered(<<Entry(Menu, 1)>>)
      <3>1. \A i \in DOMAIN <<Entry(Menu, 1)>> : i = 1 /\ <<Entry(Menu, 1)>>[i] = Entry(Menu, 1)
        OBVIOUS
      <3>2. Entry(Menu, 1).uid = 1
        BY DEF Entry
      <3> QED
        BY <3>1, <3>2 DEF Numbered, PlaceUid
    <2> QED
      BY <1>1, <2>2, <2>3 DEF Existing
  <1>2. CASE uidSys # None
    BY <1>2 DEF Existing, TypeInv, UidInv
  <1> QED
    BY <1>1, <1>2

LEMMA NumberOfKnown ==
  ASSUME TypeInv, UidInv, NEW t \in Titles, Knows(t)
  PROVE  \E i \in DOMAIN Existing : Existing[i].title = t /\ Number(t) = Existing[i].uid
  <1>1. PICK i \in DOMAIN Existing : Existing[i].title = t
    BY DEF Knows
  <1>2. Existing \in Seq(Entries) /\ Numbered(Existing) /\ Existing # None
    BY ExistingIsList
  <1> DEFINE First(k) == /\ Existing[k].title = t
                         /\ \A j \in 1 .. k - 1 : Existing[j].title # t
  <1>3. First(i)
    BY <1>1, <1>2 DEF Numbered
  <1>4. \A k \in DOMAIN Existing : First(k) => k = i
    BY <1>1, <1>2 DEF Numbered
  <1>5. (CHOOSE k \in DOMAIN Existing : First(k)) = i
    BY <1>1, <1>3, <1>4
  <1> QED
    BY <1>1, <1>5 DEF Number

LEMMA Appended ==
  ASSUME NEW f \in Seq(Entries), Numbered(f), f # None, NEW t \in Titles,
         \A i \in DOMAIN f : f[i].title # t
  PROVE  LET n == Len(f) + 2
             g == Append(f, Entry(t, n))
         IN  /\ g \in Seq(Entries) /\ g # None /\ Numbered(g) /\ n \in Nat /\ n # 0
             /\ \E i \in DOMAIN g : g[i] = Entry(t, n)
             /\ \A i \in DOMAIN f : i \in DOMAIN g /\ g[i] = f[i]
  <1> DEFINE n == Len(f) + 2
             g == Append(f, Entry(t, n))
  <1>1. n \in Nat /\ n # 0 /\ Entry(t, n) \in Entries
    <2>1. n \in Nat /\ n # 0
      OBVIOUS
    <2> HIDE DEF n
    <2> QED
      BY <2>1 DEF Entry, Entries
  <1>2. g \in Seq(Entries) /\ g # None
    BY <1>1, NoneIsNoList
  <1>3. /\ DOMAIN f = 1 .. Len(f) /\ DOMAIN g = 1 .. Len(f) + 1
        /\ \A i \in DOMAIN f : g[i] = f[i]
        /\ g[Len(f) + 1] = Entry(t, n)
    BY <1>1
  <1>4. Numbered(g)
    BY <1>2, <1>3 DEF Numbered, PlaceUid, Entry
  <1> QED
    BY <1>1, <1>2, <1>3, <1>4

(* GetUID finds or appends; the file keeps the entries it had.             *)
Extends(file) == uidSys # None => \A i \in DOMAIN uidSys : i \in DOMAIN file /\ file[i] = uidSys[i]

LEMMA GetUIDRecords ==
  ASSUME TypeInv, UidInv, NEW t \in Titles
  PROVE  LET got == GetUID(t)
         IN  /\ got.file \in {None} \cup Seq(Entries) /\ got.uid \in Nat /\ Numbered(got.file)
             /\ Opens => got.ok /\ Records(got.file, t, got.uid) /\ Extends(got.file)
                         /\ got.file # None
             /\ ~Opens => got.file = uidSys /\ ~got.ok /\ got.uid = 0
             /\ uidSys = <<>> /\ ~EmptyLoads => got.file = uidSys
  <1> DEFINE got == GetUID(t)
  <1>0. Existing \in Seq(Entries) /\ Existing # None /\ Numbered(Existing)
        /\ (uidSys # None => Existing = uidSys)
    BY ExistingIsList
  <1>1. CASE ~Opens
    BY <1>1 DEF GetUID, TypeInv, UidInv
  <1>2. CASE Opens /\ uidSys = <<>> /\ ~EmptyLoads
    <2>1. got = [ok |-> TRUE, file |-> uidSys, uid |-> 0]
      BY <1>2 DEF GetUID
    <2>0. <<>> \in Seq(Entries)
      OBVIOUS
    <2>2. uidSys \in Seq(Entries) /\ uidSys # None /\ Numbered(uidSys)
      BY <1>2, <2>0, NoneIsNoList DEF UidInv
    <2>3. Records(uidSys, t, 0) /\ Extends(uidSys)
      BY <1>2 DEF Records, Extends
    <2> QED
      BY <1>2, <2>1, <2>2, <2>3
  <1>3. CASE Opens /\ ~(uidSys = <<>> /\ ~EmptyLoads) /\ Knows(t)
    <2>1. got = [ok |-> TRUE, file |-> Existing, uid |-> Number(t)]
      BY <1>3 DEF GetUID, Found
    <2>2. PICK i \in DOMAIN Existing : Existing[i].title = t /\ Number(t) = Existing[i].uid
      BY <1>3, NumberOfKnown
    <2>3. Existing[i] \in Entries /\ Existing[i].uid \in PlaceUid(i) /\ i \in Nat
      BY <1>0, <2>2 DEF Numbered
    <2>4. Existing[i] = Entry(t, Number(t)) /\ Number(t) \in Nat /\ Number(t) # 0
      BY <2>2, <2>3 DEF Entry, Entries, PlaceUid
    <2>5. Records(Existing, t, Number(t))
      BY <1>0, <2>2, <2>4 DEF Records
    <2>6. Extends(Existing)
      BY <1>0 DEF Extends
    <2> QED
      BY <1>0, <1>3, <2>1, <2>4, <2>5, <2>6
  <1>4. CASE Opens /\ ~(uidSys = <<>> /\ ~EmptyLoads) /\ ~Knows(t)
    <2> DEFINE n == Len(Existing) + 2
    <2>1. got = [ok |-> TRUE, uid |-> n, file |-> Append(Existing, Entry(t, n))]
      BY <1>4 DEF GetUID, Found
    <2>2. \A i \in DOMAIN Existing : Existing[i].title # t
      BY <1>4 DEF Knows
    <2> HIDE DEF n
    <2>3. /\ got.file \in Seq(Entries) /\ got.file # None /\ Numbered(got.file)
          /\ n \in Nat /\ n # 0
          /\ \E i \in DOMAIN got.file : got.file[i] = Entry(t, n)
          /\ \A i \in DOMAIN Existing : i \in DOMAIN got.file /\ got.file[i] = Existing[i]
      BY <1>0, <2>1, <2>2, Appended DEF n
    <2>4. Records(got.file, t, n) /\ Extends(got.file)
      BY <1>0, <2>3 DEF Records, Extends
    <2> QED
      BY <1>4, <2>1, <2>3, <2>4
  <1> QED
    BY <1>1, <1>2, <1>3, <1>4

(* A file that holds more records what it recorded.                        *)
LEMMA StillRecorded ==
  ASSUME NEW f, f # None, NEW t, NEW n, Records(uidSys, t, n), Extends(f),
         uidSys = <<>> /\ ~EmptyLoads => f = uidSys
  PROVE  Records(f, t, n)
  BY DEF Records, Extends

-----------------------------------------------------------------------------
(* The lists.  A count is the length of the list, and a list cut to its    *)
(* length is the list.                                                     *)
LEMMA ListIsCut ==
  ASSUME uidSys \in Seq(Entries)
  PROVE  Len(Listed) \in Nat /\ Cut(Listed, Len(Listed)) = Listed
  <1>1. Hits \subseteq 1 .. Len(uidSys) /\ Len(uidSys) \in Nat
    BY DEF Hits
  <1>2. Cardinality(Hits) \in Nat
    <2>1. IsFiniteSet(1 .. Len(uidSys))
      BY <1>1, FS_Interval
    <2> QED
      BY <1>1, <2>1, FS_Subset, FS_CardinalityType
  <1> DEFINE n == Cardinality(Hits)
             e(k) == uidSys[Hit(k)].title
  <1>3. Listed = [k \in 1 .. n |-> e(k)]
    BY DEF Listed
  <1> HIDE DEF n, e
  <1>4. Len(Listed) = n
    BY <1>2, <1>3 DEF n
  <1> QED
    BY <1>2, <1>3, <1>4 DEF Cut, n

(* What a change that ES does not think of leaves in memory.               *)
LEMMA CacheChanged ==
  ASSUME CacheType, NEW ks, Changed(ks)
  PROVE  /\ CacheType'
         /\ cache'.dirty = cache.dirty /\ cache'.n = cache.n /\ cache'.list = cache.list
         /\ cache'.counted = cache.counted
         /\ kind \in ks  => cache'.changed /\ (~cache.dirty => cache'.stale)
         /\ kind \notin ks => cache' = cache
  BY DEF CacheType, Changed

(* What does not change the files a list is made of does not change it.    *)
LEMMA ListKept ==
  ASSUME uidSys' = uidSys, kind' = kind,
         IF kind = "titles" THEN tmd' = tmd ELSE tik' = tik
  PROVE  Listed' = Listed
  <1>1. Held' = Held
    BY DEF Held
  <1>2. Hits' = Hits
    BY <1>1 DEF Hits
  <1> QED
    BY <1>2 DEF Listed, Hit

LEMMA FreshTyped == ASSUME cache' = Fresh PROVE CacheType'
  BY DEF CacheType, Fresh

(* Types are kept.                                                         *)
LEMMA NextTypeInv ==
  ASSUME IInv, Next
  PROVE  TypeInv'
  <1>0. TypeInv /\ UidInv
    BY DEF IInv
  <1>1. CASE ReadLaunch
    BY <1>1, <1>0 DEF TypeInv, Steps, Titles, nand, orders, memory, history, CacheType,
       ReadLaunch, Consumed
  <1>2. CASE ReadReload
    BY <1>2, <1>0 DEF TypeInv, Steps, Titles, nand, orders, memory, history, CacheType,
       ReadReload, Consumed
  <1>3. CASE LoadKernel
    BY <1>3, <1>0 DEF TypeInv, Steps, Titles, nand, orders, memory, history, CacheType,
       LoadKernel, Failed
  <1>4. CASE ReadDisc
    BY <1>4, <1>0 DEF TypeInv, Steps, Titles, nand, orders, memory, history, CacheType,
       ReadDisc, Spent, CameUp
  <1>5. CASE LaunchSYS
    <2> DEFINE got == GetUID(TitleID)
    <2>1. TitleID \in Titles
      BY <1>0, <1>5 DEF LaunchSYS, TypeInv
    <2>2. got.file \in {None} \cup Seq(Entries) /\ got.uid \in Nat
      BY <1>0, <2>1, GetUIDRecords
    <2> HIDE DEF got
    <2>3. (uidSys' = got.file /\ uid' = got.uid) \/ UNCHANGED <<uidSys, uid>>
      BY <1>5 DEF LaunchSYS, got
    <2> QED
      BY <1>0, <1>5, <2>2, <2>3 DEF TypeInv, Steps, Titles, memory, orders, LaunchSYS,
         CameUp, Failed, CacheType
  <1>6. CASE GetCount
    <2>1. CacheType'
      <3>1. cache.dirty => Len(Listed) \in Nat
        BY <1>0, <1>6, ListIsCut DEF TypeInv, GetCount, Readable
      <3> QED
        BY <1>0, <3>1, <1>6 DEF TypeInv, CacheType, GetCount
    <2> QED
      BY <1>0, <1>6, <2>1 DEF TypeInv, Steps, Titles, memory, orders, nand, history,
         GetCount, Command
  <1>7. CASE GetList
    <2>1. CacheType'
      BY <1>0, <1>7 DEF TypeInv, CacheType, GetList
    <2> QED
      BY <1>0, <1>7, <2>1 DEF TypeInv, Steps, Titles, memory, orders, nand, history,
         GetList, Command
  <1>8. ASSUME NEW t \in Channels, AddTicket(t) PROVE TypeInv'
    BY <1>8, <1>0, CacheChanged DEF TypeInv, Steps, Titles, nand, orders, memory,
       history, AddTicket, Command, Silent
  <1>9. ASSUME NEW t \in Channels, AddTitleStart(t) PROVE TypeInv'
    <2> DEFINE got == GetUID(t)
    <2>1. got.file \in {None} \cup Seq(Entries) /\ got.uid \in Nat
      BY <1>0, <1>9, GetUIDRecords DEF Titles
    <2> HIDE DEF got
    <2>2. uidSys' = got.file
      BY <1>9 DEF AddTitleStart, Enrolled, got
    <2>3. CacheType'
      BY <1>0, <1>9, CacheChanged DEF TypeInv, AddTitleStart
    <2> QED
      BY <1>0, <1>9, <2>1, <2>2, <2>3 DEF TypeInv, Steps, Titles, memory, orders, nand,
         history, AddTitleStart, Command, Silent
  <1>10. ASSUME NEW t \in Channels, DeleteTitle(t) PROVE TypeInv'
    BY <1>10, <1>0, CacheChanged DEF TypeInv, Steps, Titles, nand, orders, memory,
       history, DeleteTitle, Command, Silent
  <1>11. ASSUME NEW t \in Channels, DeleteTicket(t) PROVE TypeInv'
    BY <1>11, <1>0, CacheChanged DEF TypeInv, Steps, Titles, nand, orders, memory,
       history, DeleteTicket, Command, Silent
  <1>12. CASE AddTitleFinish
    <2>1. CacheType'
      BY <1>0, <1>12 DEF TypeInv, CacheType, AddTitleFinish, Told, Marked
    <2> QED
      BY <1>0, <1>12, <2>1 DEF TypeInv, Steps, Titles, memory, orders, nand, history,
         AddTitleFinish, Command, Silent
  <1>13. CASE AddTitleCancel
    BY <1>13, <1>0 DEF TypeInv, Steps, Titles, nand, orders, memory, history, CacheType,
       AddTitleCancel, Command, Silent
  <1>14. CASE DIGetStoredTMDSize
    BY <1>14, <1>0 DEF TypeInv, Steps, Titles, nand, orders, memory, history, CacheType,
       DIGetStoredTMDSize, Command, Silent
  <1>15. ASSUME NEW t \in {Menu} \cup Channels, SetUID(t) PROVE TypeInv'
    <2> DEFINE got == GetUID(t)
    <2>1. got.file \in {None} \cup Seq(Entries) /\ got.uid \in Nat
      BY <1>0, <1>15, GetUIDRecords DEF Titles
    <2> HIDE DEF got
    <2>2. uidSys' = got.file /\ (uid' = got.uid \/ uid' = uid)
      BY <1>15 DEF SetUID, got
    <2>3. CacheType'
      BY <1>0, <1>15, CacheChanged DEF TypeInv, SetUID
    <2> QED
      BY <1>0, <1>15, <2>1, <2>2, <2>3 DEF TypeInv, Steps, Titles, memory, orders, nand,
         history, SetUID, Command, Silent
  <1>16. ASSUME NEW d \in Discs, DIVerify(d) PROVE TypeInv'
    <2> DEFINE got == GetUID(d)
    <2>1. got.file \in {None} \cup Seq(Entries) /\ got.uid \in Nat
      BY <1>0, <1>16, GetUIDRecords DEF Titles
    <2> HIDE DEF got
    <2>2. uidSys' = got.file /\ uid' = got.uid
      BY <1>16 DEF DIVerify, got
    <2>3. CacheType'
      BY <1>0, <1>16, CacheChanged DEF TypeInv, DIVerify
    <2> QED
      BY <1>0, <1>16, <2>1, <2>2, <2>3 DEF TypeInv, Steps, Titles, memory, orders, nand,
         history, DIVerify, Command
  <1>17. ASSUME NEW t \in {Menu} \cup Channels, SetReturnTo(t) PROVE TypeInv'
    BY <1>17, <1>0 DEF TypeInv, Steps, Titles, nand, orders, memory, history, CacheType,
       SetReturnTo, Command, Silent
  <1>18. ASSUME NEW t \in {Menu} \cup Channels \cup Ioses, Launch(t) PROVE TypeInv'
    BY <1>18, <1>0, FreshTyped DEF TypeInv, Steps, Titles, nand, orders, memory,
       history, Launch, Restart, Meant
  <1>19. CASE PowerCut
    BY <1>19, <1>0, FreshTyped DEF TypeInv, Steps, Titles, nand, orders, memory,
       history, PowerCut, Off, Restart
  <1>20. CASE CutInUID
    <2>1. <<>> \in Seq(Entries) /\ <<Entry(Menu, 1)>> \in Seq(Entries)
      BY DEF Entries, Entry, Titles
    <2>2. uidSys' \in Seq(Entries)
      BY <1>20, <2>1 DEF CutInUID
    <2> QED
      BY <1>0, <1>20, <2>2, FreshTyped DEF TypeInv, Steps, Titles, memory, orders, nand,
         history, CutInUID, Off, Restart
  <1>21. ASSUME NEW d \in Discs, CutInVerify(d) PROVE TypeInv'
    <2> DEFINE got == GetUID(d)
    <2>1. got.file \in {None} \cup Seq(Entries) /\ got.uid \in Nat
      BY <1>0, <1>21, GetUIDRecords DEF Titles
    <2> HIDE DEF got
    <2>2. uidSys' = got.file \/ uidSys' = uidSys
      BY <1>21 DEF CutInVerify, got
    <2>3. discSys' \in {discSys, None, d} /\ launchSys' \in {launchSys, None}
      BY <1>21 DEF CutInVerify
    <2> QED
      BY <1>0, <1>21, <2>1, <2>2, <2>3, FreshTyped DEF TypeInv, Steps, Titles, memory,
         orders, nand, history, CutInVerify, Off, Restart
  <1>22. ASSUME NEW t \in {Menu} \cup Channels, SetAutoboot(t) PROVE TypeInv'
    BY <1>22, <1>0 DEF TypeInv, Steps, Titles, nand, orders, memory, history,
       CacheType, SetAutoboot, Command, Silent
  <1> QED
    BY <1>1, <1>2, <1>3, <1>4, <1>5, <1>6, <1>7, <1>8, <1>9, <1>10, <1>11,
       <1>12, <1>13, <1>14, <1>15, <1>16, <1>17, <1>18, <1>19, <1>20, <1>21, <1>22
    DEF Next, Boot, Commands

(* Until a title runs nothing is opened, kept or identified.               *)
LEMMA NextBootInv ==
  ASSUME IInv, Next
  PROVE  BootInv'
  <1>0. BootInv
    BY DEF IInv
  <1>1. CASE ReadLaunch
    BY <1>1, <1>0 DEF BootInv, Up, nand, orders, memory, history, ReadLaunch
  <1>2. CASE ReadReload
    BY <1>2, <1>0 DEF BootInv, Up, nand, orders, memory, history, ReadReload
  <1>3. CASE LoadKernel
    BY <1>3, <1>0 DEF BootInv, Up, nand, orders, memory, history, LoadKernel, Failed
  <1>4. CASE ReadDisc
    BY <1>4, <1>0 DEF BootInv, Up, nand, orders, memory, history, ReadDisc, CameUp
  <1>5. CASE LaunchSYS
    BY <1>5, <1>0 DEF BootInv, Up, nand, orders, memory, history, LaunchSYS, CameUp, Failed
  <1>6. CASE GetCount
    BY <1>6, <1>0 DEF BootInv, Up, nand, orders, memory, history, GetCount, Command
  <1>7. CASE GetList
    BY <1>7, <1>0 DEF BootInv, Up, nand, orders, memory, history, GetList, Command
  <1>8. ASSUME NEW t \in Channels, AddTicket(t) PROVE BootInv'
    BY <1>8, <1>0 DEF BootInv, Up, nand, orders, memory, history, AddTicket, Command, Silent
  <1>9. ASSUME NEW t \in Channels, AddTitleStart(t) PROVE BootInv'
    BY <1>9, <1>0 DEF BootInv, Up, nand, orders, memory, history, AddTitleStart,
       Command, Silent
  <1>10. ASSUME NEW t \in Channels, DeleteTitle(t) PROVE BootInv'
    BY <1>10, <1>0, EsTitlesAssumption DEF BootInv, Up, nand, orders, memory, history,
       DeleteTitle, Command, Silent
  <1>11. ASSUME NEW t \in Channels, DeleteTicket(t) PROVE BootInv'
    BY <1>11, <1>0, EsTitlesAssumption DEF BootInv, Up, nand, orders, memory, history,
       DeleteTicket, Command, Silent
  <1>12. CASE AddTitleFinish
    BY <1>12, <1>0 DEF BootInv, Up, nand, orders, memory, history, AddTitleFinish,
       Command, Silent
  <1>13. CASE AddTitleCancel
    BY <1>13, <1>0 DEF BootInv, Up, nand, orders, memory, history, AddTitleCancel,
       Command, Silent
  <1>14. CASE DIGetStoredTMDSize
    BY <1>14, <1>0 DEF BootInv, Up, nand, orders, memory, history, DIGetStoredTMDSize,
       Command, Silent
  <1>15. ASSUME NEW t \in {Menu} \cup Channels, SetUID(t) PROVE BootInv'
    BY <1>15, <1>0 DEF BootInv, Up, nand, orders, memory, history, SetUID, Command, Silent
  <1>16. ASSUME NEW d \in Discs, DIVerify(d) PROVE BootInv'
    BY <1>16, <1>0 DEF BootInv, Up, nand, orders, memory, history, DIVerify, Command
  <1>17. ASSUME NEW t \in {Menu} \cup Channels, SetReturnTo(t) PROVE BootInv'
    BY <1>17, <1>0 DEF BootInv, Up, nand, orders, memory, history, SetReturnTo, Command,
       Silent
  <1>18. ASSUME NEW t \in {Menu} \cup Channels \cup Ioses, Launch(t) PROVE BootInv'
    BY <1>18, <1>0 DEF BootInv, Up, nand, orders, memory, history, Launch, Restart
  <1>19. CASE PowerCut
    BY <1>19, <1>0 DEF BootInv, Up, nand, orders, memory, history, PowerCut, Off, Restart
  <1>20. CASE CutInUID
    BY <1>20, <1>0 DEF BootInv, Up, nand, orders, memory, history, CutInUID, Off, Restart
  <1>21. ASSUME NEW d \in Discs, CutInVerify(d) PROVE BootInv'
    BY <1>21, <1>0, EsTitlesAssumption DEF BootInv, Up, nand, orders, memory, history,
       CutInVerify, Off, Restart
  <1>22. ASSUME NEW t \in {Menu} \cup Channels, SetAutoboot(t) PROVE BootInv'
    BY <1>22, <1>0 DEF BootInv, Up, nand, orders, memory, history, SetAutoboot,
       Command, Silent
  <1> QED
    BY <1>1, <1>2, <1>3, <1>4, <1>5, <1>6, <1>7, <1>8, <1>9, <1>10, <1>11,
       <1>12, <1>13, <1>14, <1>15, <1>16, <1>17, <1>18, <1>19, <1>20, <1>21, <1>22
    DEF Next, Boot, Commands

(* uid.sys keeps one entry per title, numbered by its place.               *)
LEMMA NextUidInv ==
  ASSUME IInv, Next
  PROVE  UidInv'
  <1>0. TypeInv /\ UidInv
    BY DEF IInv
  <1>1. CASE ReadLaunch
    BY <1>0, <1>1 DEF UidInv, Numbered, nand, ReadLaunch
  <1>2. CASE ReadReload
    BY <1>0, <1>2 DEF UidInv, Numbered, nand, ReadReload
  <1>3. CASE LoadKernel
    BY <1>0, <1>3 DEF UidInv, Numbered, nand, LoadKernel
  <1>4. CASE ReadDisc
    BY <1>0, <1>4 DEF UidInv, Numbered, nand, ReadDisc
  <1>5. CASE LaunchSYS
    <2>1. TitleID \in Titles
      BY <1>0, <1>5 DEF Titles, TypeInv, LaunchSYS
    <2>2. Numbered(GetUID(TitleID).file)
      BY <1>0, <2>1, GetUIDRecords
    <2>3. uidSys' = GetUID(TitleID).file \/ uidSys' = uidSys
      BY <1>5 DEF LaunchSYS
    <2> QED
      BY <1>0, <2>2, <2>3 DEF UidInv, Numbered
  <1>6. CASE GetCount
    BY <1>0, <1>6 DEF UidInv, Numbered, nand, GetCount
  <1>7. CASE GetList
    BY <1>0, <1>7 DEF UidInv, Numbered, nand, GetList
  <1>8. ASSUME NEW t \in Channels, AddTicket(t) PROVE UidInv'
    BY <1>0, <1>8 DEF UidInv, Numbered, nand, AddTicket
  <1>9. ASSUME NEW t \in Channels, AddTitleStart(t) PROVE UidInv'
    <2>1. t \in Titles
      BY <1>0, <1>9 DEF Titles
    <2>2. Numbered(GetUID(t).file)
      BY <1>0, <2>1, GetUIDRecords
    <2>3. uidSys' = GetUID(t).file \/ uidSys' = uidSys
      BY <1>9 DEF AddTitleStart, Enrolled
    <2> QED
      BY <1>0, <2>2, <2>3 DEF UidInv, Numbered
  <1>10. ASSUME NEW t \in Channels, DeleteTitle(t) PROVE UidInv'
    BY <1>0, <1>10 DEF UidInv, Numbered, nand, DeleteTitle
  <1>11. ASSUME NEW t \in Channels, DeleteTicket(t) PROVE UidInv'
    BY <1>0, <1>11 DEF UidInv, Numbered, nand, DeleteTicket
  <1>12. CASE AddTitleFinish
    BY <1>0, <1>12 DEF UidInv, Numbered, nand, AddTitleFinish
  <1>13. CASE AddTitleCancel
    BY <1>0, <1>13 DEF UidInv, Numbered, nand, AddTitleCancel
  <1>14. CASE DIGetStoredTMDSize
    BY <1>0, <1>14 DEF UidInv, Numbered, nand, DIGetStoredTMDSize
  <1>15. ASSUME NEW t \in {Menu} \cup Channels, SetUID(t) PROVE UidInv'
    <2>1. t \in Titles
      BY <1>0, <1>15 DEF Titles
    <2>2. Numbered(GetUID(t).file)
      BY <1>0, <2>1, GetUIDRecords
    <2>3. uidSys' = GetUID(t).file \/ uidSys' = uidSys
      BY <1>15 DEF SetUID
    <2> QED
      BY <1>0, <2>2, <2>3 DEF UidInv, Numbered
  <1>16. ASSUME NEW d \in Discs, DIVerify(d) PROVE UidInv'
    <2>1. d \in Titles
      BY <1>0, <1>16 DEF Titles
    <2>2. Numbered(GetUID(d).file)
      BY <1>0, <2>1, GetUIDRecords
    <2>3. uidSys' = GetUID(d).file \/ uidSys' = uidSys
      BY <1>16 DEF DIVerify
    <2> QED
      BY <1>0, <2>2, <2>3 DEF UidInv, Numbered
  <1>17. ASSUME NEW t \in {Menu} \cup Channels, SetReturnTo(t) PROVE UidInv'
    BY <1>0, <1>17 DEF UidInv, Numbered, nand, SetReturnTo
  <1>18. ASSUME NEW t \in {Menu} \cup Channels \cup Ioses, Launch(t) PROVE UidInv'
    BY <1>0, <1>18 DEF UidInv, Numbered, nand, Launch
  <1>19. CASE PowerCut
    BY <1>0, <1>19 DEF UidInv, Numbered, nand, PowerCut
  <1>20. CASE CutInUID
    <2>1. uidSys' \in {<<>>, <<Entry(Menu, 1)>>}
      BY <1>20 DEF CutInUID
    <2>2. Numbered(<<>>)
      BY DEF Numbered
    <2>3. Numbered(<<Entry(Menu, 1)>>)
      BY <1>0, <1>20, ExistingIsList DEF CutInUID, Existing
    <2> QED
      BY <2>1, <2>2, <2>3 DEF UidInv, Numbered
  <1>21. ASSUME NEW d \in Discs, CutInVerify(d) PROVE UidInv'
    <2>1. d \in Titles
      BY <1>0, <1>21 DEF Titles
    <2>2. Numbered(GetUID(d).file)
      BY <1>0, <2>1, GetUIDRecords
    <2>3. uidSys' = GetUID(d).file \/ uidSys' = uidSys
      BY <1>21 DEF CutInVerify
    <2> QED
      BY <1>0, <2>2, <2>3 DEF UidInv, Numbered
  <1>22. ASSUME NEW t \in {Menu} \cup Channels, SetAutoboot(t) PROVE UidInv'
    BY <1>22, <1>0 DEF UidInv, Numbered, nand, SetAutoboot
  <1> QED
    BY <1>1, <1>2, <1>3, <1>4, <1>5, <1>6, <1>7, <1>8, <1>9, <1>10, <1>11,
       <1>12, <1>13, <1>14, <1>15, <1>16, <1>17, <1>18, <1>19, <1>20, <1>21, <1>22
    DEF Next, Boot, Commands

(* The title that runs has the UID that uid.sys records for it.            *)
LEMMA NextRunInv ==
  ASSUME IInv, Next
  PROVE  RunInv'
  <1>0. TypeInv /\ UidInv /\ RunInv /\ BootInv
    BY DEF IInv
  <1>1. CASE ReadLaunch
    BY <1>1 DEF RunInv, Up, ReadLaunch
  <1>2. CASE ReadReload
    BY <1>2 DEF RunInv, Up, ReadReload
  <1>3. CASE LoadKernel
    BY <1>3 DEF RunInv, Up, LoadKernel
  <1>4. CASE ReadDisc
    <2>1. uid = 0 /\ discSys \in {None} \cup Discs
      BY <1>0, <1>4 DEF TypeInv, BootInv, Up, ReadDisc
    <2> QED
      BY <2>1, <1>4 DEF RunInv, Up, ReadDisc
  <1>5. CASE LaunchSYS
    <2>1. TitleID \in Titles
      BY <1>0, <1>5 DEF Titles, TypeInv, LaunchSYS
    <2> DEFINE got == GetUID(TitleID)
    <2>2. Opens => got.ok /\ Records(got.file, TitleID, got.uid)
      BY <1>0, <2>1, GetUIDRecords
    <2> HIDE DEF got
    <2>3. pc' = "run" =>
            uidSys' = got.file /\ uid' = got.uid /\ TitleID' = TitleID /\ lost' = lost
      BY <1>5 DEF LaunchSYS, memory, got
    <2> QED
      BY <2>2, <2>3 DEF RunInv, Up, Opens, Records
  <1>6. CASE GetCount
    BY <1>0, <1>6 DEF RunInv, Up, Opens, Records, nand, memory, GetCount
  <1>7. CASE GetList
    BY <1>0, <1>7 DEF RunInv, Up, Opens, Records, nand, memory, GetList
  <1>8. ASSUME NEW t \in Channels, AddTicket(t) PROVE RunInv'
    BY <1>0, <1>8 DEF RunInv, Up, Opens, Records, nand, memory, AddTicket
  <1>9. ASSUME NEW t \in Channels, AddTitleStart(t) PROVE RunInv'
    <2>1. t \in Titles
      BY <1>0, <1>9 DEF Titles
    <2> DEFINE f == GetUID(t).file
    <2>2. f # None /\ Extends(f) /\ (uidSys = <<>> /\ ~EmptyLoads => f = uidSys)
      BY <1>0, <2>1, <1>9, GetUIDRecords DEF AddTitleStart
    <2> HIDE DEF f
    <2>3. Records(uidSys, TitleID, uid) => Records(f, TitleID, uid)
      BY <2>2, StillRecorded
    <2>4. uidSys' = f /\ UNCHANGED <<TitleID, uid, lost, pc>>
      BY <1>9 DEF AddTitleStart, Enrolled, f
    <2> QED
      BY <1>0, <2>3, <2>4 DEF RunInv, Up, Opens, Records
  <1>10. ASSUME NEW t \in Channels, DeleteTitle(t) PROVE RunInv'
    BY <1>0, <1>10 DEF RunInv, Up, Opens, Records, nand, memory, DeleteTitle
  <1>11. ASSUME NEW t \in Channels, DeleteTicket(t) PROVE RunInv'
    BY <1>0, <1>11 DEF RunInv, Up, Opens, Records, nand, memory, DeleteTicket
  <1>12. CASE AddTitleFinish
    BY <1>0, <1>12 DEF RunInv, Up, Opens, Records, nand, memory, AddTitleFinish
  <1>13. CASE AddTitleCancel
    BY <1>0, <1>13 DEF RunInv, Up, Opens, Records, nand, memory, AddTitleCancel
  <1>14. CASE DIGetStoredTMDSize
    BY <1>0, <1>14, EsTitlesAssumption DEF RunInv, Up, Opens, Records, TypeInv, nand,
       DIGetStoredTMDSize
  <1>15. ASSUME NEW t \in {Menu} \cup Channels, SetUID(t) PROVE RunInv'
    <2>1. t \in Titles
      BY <1>0, <1>15 DEF Titles
    <2> DEFINE got == GetUID(t)
    <2>2. Opens => got.ok /\ Records(got.file, t, got.uid)
      BY <1>0, <2>1, GetUIDRecords
    <2> HIDE DEF got
    <2>3. uidSys' = got.file /\ TitleID' = t /\ lost' = lost /\ (got.ok => uid' = got.uid)
      BY <1>15 DEF SetUID, memory, got
    <2> QED
      BY <2>2, <2>3 DEF RunInv, Up, Opens, Records
  <1>16. ASSUME NEW d \in Discs, DIVerify(d) PROVE RunInv'
    <2>1. d \in Titles
      BY <1>0, <1>16 DEF Titles
    <2> DEFINE got == GetUID(d)
    <2>2. Opens => got.ok /\ Records(got.file, d, got.uid)
      BY <1>0, <2>1, GetUIDRecords
    <2> HIDE DEF got
    <2>3. uidSys' = got.file /\ TitleID' = d /\ lost' = lost /\ (got.ok => uid' = got.uid)
      BY <1>16 DEF DIVerify, memory, got
    <2> QED
      BY <2>2, <2>3 DEF RunInv, Up, Opens, Records
  <1>17. ASSUME NEW t \in {Menu} \cup Channels, SetReturnTo(t) PROVE RunInv'
    BY <1>0, <1>17 DEF RunInv, Up, Opens, Records, nand, memory, SetReturnTo
  <1>18. ASSUME NEW t \in {Menu} \cup Channels \cup Ioses, Launch(t) PROVE RunInv'
    BY <1>18 DEF RunInv, Up, Launch, Restart
  <1>19. CASE PowerCut
    BY <1>19 DEF RunInv, Up, PowerCut, Restart, Off
  <1>20. CASE CutInUID
    BY <1>20 DEF RunInv, Up, CutInUID, Restart, Off
  <1>21. ASSUME NEW d \in Discs, CutInVerify(d) PROVE RunInv'
    BY <1>21 DEF RunInv, Up, CutInVerify, Restart, Off
  <1>22. ASSUME NEW t \in {Menu} \cup Channels, SetAutoboot(t) PROVE RunInv'
    BY <1>22, <1>0 DEF RunInv, Up, Opens, Records, nand, memory, SetAutoboot
  <1> QED
    BY <1>1, <1>2, <1>3, <1>4, <1>5, <1>6, <1>7, <1>8, <1>9, <1>10, <1>11,
       <1>12, <1>13, <1>14, <1>15, <1>16, <1>17, <1>18, <1>19, <1>20, <1>21, <1>22
    DEF Next, Boot, Commands

(* The start under way ends in the title that was meant.                   *)
LEMMA NextAskedInv ==
  ASSUME IInv, Next
  PROVE  AskedInv'
  <1>0. TypeInv /\ AskedInv /\ CostInv /\ BootInv
    BY DEF IInv
  <1>1. CASE ReadLaunch
    BY <1>1, <1>0, EsTitlesAssumption DEF AskedInv, Up, Will, AfterDisc, AfterReload,
       TypeInv, CostInv, BootInv, Titles, Steps, orders, nand, history, memory,
       ReadLaunch, Consumed
  <1>2. CASE ReadReload
    BY <1>2, <1>0, EsTitlesAssumption DEF AskedInv, Up, Will, AfterDisc, AfterReload,
       TypeInv, CostInv, BootInv, Titles, Steps, orders, nand, history, memory,
       ReadReload, Consumed
  <1>3. CASE LoadKernel
    BY <1>3, <1>0, EsTitlesAssumption DEF AskedInv, Up, Will, AfterDisc, AfterReload,
       TypeInv, CostInv, BootInv, Titles, Steps, orders, nand, history, memory,
       LoadKernel, Failed
  <1>4. CASE ReadDisc
    BY <1>4, <1>0, EsTitlesAssumption DEF AskedInv, Up, Will, AfterDisc, AfterReload,
       TypeInv, CostInv, BootInv, Titles, Steps, orders, nand, history, memory,
       ReadDisc, Spent, CameUp
  <1>5. CASE LaunchSYS
    BY <1>5, <1>0, EsTitlesAssumption DEF AskedInv, Up, Will, AfterDisc, AfterReload,
       TypeInv, CostInv, BootInv, Titles, Steps, orders, nand, history, memory,
       LaunchSYS, CameUp, Failed
  <1>6. CASE GetCount
    BY <1>6, <1>0 DEF AskedInv, Up, Command, Silent, orders, GetCount
  <1>7. CASE GetList
    BY <1>7, <1>0 DEF AskedInv, Up, Command, Silent, orders, GetList
  <1>8. ASSUME NEW t \in Channels, AddTicket(t) PROVE AskedInv'
    BY <1>8, <1>0 DEF AskedInv, Up, Command, Silent, orders, AddTicket
  <1>9. ASSUME NEW t \in Channels, AddTitleStart(t) PROVE AskedInv'
    BY <1>9, <1>0 DEF AskedInv, Up, Command, Silent, orders, AddTitleStart
  <1>10. ASSUME NEW t \in Channels, DeleteTitle(t) PROVE AskedInv'
    BY <1>10, <1>0 DEF AskedInv, Up, Command, Silent, orders, DeleteTitle
  <1>11. ASSUME NEW t \in Channels, DeleteTicket(t) PROVE AskedInv'
    BY <1>11, <1>0 DEF AskedInv, Up, Command, Silent, orders, DeleteTicket
  <1>12. CASE AddTitleFinish
    BY <1>12, <1>0 DEF AskedInv, Up, Command, Silent, orders, AddTitleFinish
  <1>13. CASE AddTitleCancel
    BY <1>13, <1>0 DEF AskedInv, Up, Command, Silent, orders, AddTitleCancel
  <1>14. CASE DIGetStoredTMDSize
    BY <1>14, <1>0 DEF AskedInv, Up, Command, Silent, orders, DIGetStoredTMDSize
  <1>15. ASSUME NEW t \in {Menu} \cup Channels, SetUID(t) PROVE AskedInv'
    BY <1>15, <1>0 DEF AskedInv, Up, Command, Silent, orders, SetUID
  <1>16. ASSUME NEW d \in Discs, DIVerify(d) PROVE AskedInv'
    BY <1>16, <1>0 DEF AskedInv, Up, Command, Silent, orders, DIVerify
  <1>17. ASSUME NEW t \in {Menu} \cup Channels, SetReturnTo(t) PROVE AskedInv'
    BY <1>17, <1>0 DEF AskedInv, Up, Command, Silent, orders, SetReturnTo
  <1>18. ASSUME NEW t \in {Menu} \cup Channels \cup Ioses, Launch(t) PROVE AskedInv'
    BY <1>18, <1>0, EsTitlesAssumption DEF AskedInv, Up, Will, AfterDisc, AfterReload,
       TypeInv, Titles, nand, Launch, Restart, Meant
  <1>19. CASE PowerCut
    BY <1>19 DEF AskedInv, Up, PowerCut, Off, Restart
  <1>20. CASE CutInUID
    BY <1>20 DEF AskedInv, Up, CutInUID, Off, Restart
  <1>21. ASSUME NEW d \in Discs, CutInVerify(d) PROVE AskedInv'
    BY <1>21 DEF AskedInv, Up, CutInVerify, Off, Restart
  <1>22. ASSUME NEW t \in {Menu} \cup Channels, SetAutoboot(t) PROVE AskedInv'
    BY <1>22, <1>0 DEF AskedInv, Up, Command, Silent, orders, SetAutoboot
  <1> QED
    BY <1>1, <1>2, <1>3, <1>4, <1>5, <1>6, <1>7, <1>8, <1>9, <1>10, <1>11,
       <1>12, <1>13, <1>14, <1>15, <1>16, <1>17, <1>18, <1>19, <1>20, <1>21, <1>22
    DEF Next, Boot, Commands

(* Orders still to be tried and starts lost are two at most.               *)
LEMMA NextCostInv ==
  ASSUME IInv, Next
  PROVE  CostInv'
  <1>0. TypeInv /\ CostInv /\ BootInv
    BY DEF IInv
  <1>1. CASE ReadLaunch
    BY <1>1, <1>0, EsTitlesAssumption DEF CostInv, Cost, One, Up, TypeInv, BootInv,
       Steps, orders, nand, history, memory, ReadLaunch, Consumed
  <1>2. CASE ReadReload
    BY <1>2, <1>0, EsTitlesAssumption DEF CostInv, Cost, One, Up, TypeInv, BootInv,
       Steps, orders, nand, history, memory, ReadReload, Consumed
  <1>3. CASE LoadKernel
    BY <1>3, <1>0, EsTitlesAssumption DEF CostInv, Cost, One, Up, TypeInv, BootInv,
       Steps, orders, nand, history, memory, LoadKernel, Failed
  <1>4. CASE ReadDisc
    BY <1>4, <1>0, EsTitlesAssumption DEF CostInv, Cost, One, Up, TypeInv, BootInv,
       Steps, orders, nand, history, memory, ReadDisc, Spent, CameUp
  <1>5. CASE LaunchSYS
    BY <1>5, <1>0, EsTitlesAssumption DEF CostInv, Cost, One, Up, TypeInv, BootInv,
       Steps, orders, nand, history, memory, LaunchSYS, CameUp, Failed
  <1>6. CASE GetCount
    BY <1>6, <1>0 DEF CostInv, Cost, One, Up, TypeInv, Command, Silent, orders, GetCount
  <1>7. CASE GetList
    BY <1>7, <1>0 DEF CostInv, Cost, One, Up, TypeInv, Command, Silent, orders, GetList
  <1>8. ASSUME NEW t \in Channels, AddTicket(t) PROVE CostInv'
    BY <1>8, <1>0 DEF CostInv, Cost, One, Up, TypeInv, Command, Silent, orders, AddTicket
  <1>9. ASSUME NEW t \in Channels, AddTitleStart(t) PROVE CostInv'
    BY <1>9, <1>0 DEF CostInv, Cost, One, Up, TypeInv, Command, Silent, orders,
       AddTitleStart
  <1>10. ASSUME NEW t \in Channels, DeleteTitle(t) PROVE CostInv'
    BY <1>10, <1>0 DEF CostInv, Cost, One, Up, TypeInv, Command, Silent, orders, DeleteTitle
  <1>11. ASSUME NEW t \in Channels, DeleteTicket(t) PROVE CostInv'
    BY <1>11, <1>0 DEF CostInv, Cost, One, Up, TypeInv, Command, Silent, orders,
       DeleteTicket
  <1>12. CASE AddTitleFinish
    BY <1>12, <1>0 DEF CostInv, Cost, One, Up, TypeInv, Command, Silent, orders,
       AddTitleFinish
  <1>13. CASE AddTitleCancel
    BY <1>13, <1>0 DEF CostInv, Cost, One, Up, TypeInv, Command, Silent, orders,
       AddTitleCancel
  <1>14. CASE DIGetStoredTMDSize
    BY <1>14, <1>0 DEF CostInv, Cost, One, Up, TypeInv, Command, Silent, orders,
       DIGetStoredTMDSize
  <1>15. ASSUME NEW t \in {Menu} \cup Channels, SetUID(t) PROVE CostInv'
    BY <1>15, <1>0 DEF CostInv, Cost, One, Up, TypeInv, Command, Silent, orders, SetUID
  <1>16. ASSUME NEW d \in Discs, DIVerify(d) PROVE CostInv'
    BY <1>16, <1>0 DEF CostInv, Cost, One, Up, TypeInv, Command, Silent, orders, DIVerify
  <1>17. ASSUME NEW t \in {Menu} \cup Channels, SetReturnTo(t) PROVE CostInv'
    BY <1>17, <1>0 DEF CostInv, Cost, One, Up, TypeInv, Command, Silent, orders, SetReturnTo
  <1>18. ASSUME NEW t \in {Menu} \cup Channels \cup Ioses, Launch(t) PROVE CostInv'
    BY <1>18, <1>0 DEF CostInv, Cost, One, Up, TypeInv, nand, orders, Launch, Restart
  <1>19. CASE PowerCut
    BY <1>19, <1>0 DEF CostInv, Cost, One, Up, TypeInv, nand, orders, PowerCut, Restart, Off
  <1>20. CASE CutInUID
    BY <1>20, <1>0 DEF CostInv, Cost, One, Up, TypeInv, nand, orders, CutInUID, Restart, Off
  <1>21. ASSUME NEW d \in Discs, CutInVerify(d) PROVE CostInv'
    BY <1>21, <1>0 DEF CostInv, Cost, One, Up, TypeInv, nand, orders, CutInVerify,
       Restart, Off
  <1>22. ASSUME NEW t \in {Menu} \cup Channels, SetAutoboot(t) PROVE CostInv'
    BY <1>22, <1>0 DEF CostInv, Cost, One, Up, TypeInv, Command, Silent, orders,
       SetAutoboot
  <1> QED
    BY <1>1, <1>2, <1>3, <1>4, <1>5, <1>6, <1>7, <1>8, <1>9, <1>10, <1>11,
       <1>12, <1>13, <1>14, <1>15, <1>16, <1>17, <1>18, <1>19, <1>20, <1>21, <1>22
    DEF Next, Boot, Commands

(* What is answered from memory is right unless a change went unnoticed.   *)
LEMMA NextCacheInv ==
  ASSUME IInv, Next
  PROVE  CacheInv'
  <1>0. TypeInv /\ CacheInv /\ BootInv
    BY DEF IInv
  <1>1. CASE ReadLaunch
    BY <1>1, <1>0, ListKept DEF CacheInv, ListsTruthful, nand, memory, history, ReadLaunch
  <1>2. CASE ReadReload
    BY <1>2, <1>0, ListKept DEF CacheInv, ListsTruthful, nand, memory, history, ReadReload
  <1>3. CASE LoadKernel
    BY <1>3, <1>0, ListKept DEF CacheInv, ListsTruthful, nand, memory, history,
       LoadKernel, Failed
  <1>4. CASE ReadDisc
    BY <1>4, <1>0, ListKept DEF CacheInv, ListsTruthful, nand, memory, history,
       ReadDisc, CameUp
  <1>5. CASE LaunchSYS
    <2>1. cache.dirty /\ ~cache.counted
      BY <1>0, <1>5 DEF BootInv, Up, Fresh, LaunchSYS
    <2> QED
      BY <1>0, <2>1, <1>5 DEF CacheInv, ListsTruthful, memory, LaunchSYS, CameUp, Failed
  <1>6. CASE GetCount
    <2> DEFINE n == IF cache.dirty THEN Len(Listed) ELSE cache.n
    <2>1. Listed' = Listed
      BY <1>6, ListKept DEF GetCount, nand
    <2>2. /\ cache'.n = n /\ cache'.counted /\ cache'.dirty = cache.dirty
          /\ cache'.list = cache.list /\ cache'.stale = cache.stale
          /\ cache'.changed = (cache.changed /\ ~cache.dirty)
          /\ reply' = [right |-> n = Len(Listed), excused |-> cache.stale]
      BY <1>0, <1>6 DEF TypeInv, CacheType, GetCount
    <2> QED
      BY <1>0, <2>1, <2>2 DEF CacheInv, ListsTruthful, TypeInv, CacheType
  <1>7. CASE GetList
    <2>1. Listed' = Listed
      BY <1>7, ListKept DEF GetList, nand
    <2>2. CASE cache.dirty
      <3>1. Cut(Listed, Len(Listed)) = Listed
        BY <1>0, <1>7, <2>2, ListIsCut DEF TypeInv, GetList, Readable
      <3>2. /\ cache'.n = cache.n /\ cache'.counted /\ ~cache'.dirty
            /\ cache'.changed = cache.changed /\ cache'.stale = cache.changed
            /\ cache'.list \in {Cut(Listed, cache.n), Listed} /\ reply' = Right
        BY <1>0, <1>7, <2>2 DEF TypeInv, CacheType, GetList
      <3>3. ~cache'.changed => cache'.n = Len(Listed) /\ cache'.list = Listed
        BY <1>0, <1>7, <3>1, <3>2 DEF CacheInv, GetList
      <3> QED
        BY <2>1, <3>1, <3>2, <3>3 DEF CacheInv, ListsTruthful, Right
    <2>3. CASE ~cache.dirty
      <3>1. /\ cache' = cache
            /\ reply' = [right |-> Cut(cache.list, cache.n) = Listed, excused |-> cache.stale]
        BY <1>7, <2>3 DEF GetList
      <3>2. cache.stale \/ Cut(cache.list, cache.n) = Listed
        BY <1>0, <2>3 DEF CacheInv
      <3>3. ListsTruthful'
        BY <3>1, <3>2, Zenon DEF ListsTruthful
      <3> QED
        BY <1>0, <2>1, <3>1, <3>3 DEF CacheInv
    <2> QED
      BY <2>2, <2>3
  <1>8. ASSUME NEW t \in Channels, AddTicket(t) PROVE CacheInv'
    <2>1. kind \notin {"owned"} => cache' = cache /\ Listed' = Listed
      BY <1>0, <1>8, CacheChanged, ListKept DEF TypeInv, Lists, AddTicket
    <2>2. kind \in {"owned"} => cache'.changed /\ (~cache.dirty => cache'.stale)
      BY <1>0, <1>8, CacheChanged DEF TypeInv, AddTicket
    <2>3. cache'.dirty = cache.dirty /\ cache'.counted = cache.counted
      BY <1>0, <1>8, CacheChanged DEF TypeInv, AddTicket
    <2> QED
      BY <1>0, <1>8, <2>1, <2>2, <2>3 DEF CacheInv, ListsTruthful, AddTicket, Silent, Right
  <1>9. ASSUME NEW t \in Channels, AddTitleStart(t) PROVE CacheInv'
    <2>1. cache'.changed /\ (~cache.dirty => cache'.stale)
      BY <1>0, <1>9, CacheChanged DEF TypeInv, AddTitleStart
    <2>2. cache'.dirty = cache.dirty /\ cache'.counted = cache.counted
      BY <1>0, <1>9, CacheChanged DEF TypeInv, AddTitleStart
    <2> QED
      BY <1>0, <1>9, <2>1, <2>2 DEF CacheInv, ListsTruthful, AddTitleStart, Silent, Right
  <1>10. ASSUME NEW t \in Channels, DeleteTitle(t) PROVE CacheInv'
    <2>1. kind \notin {"titles"} => cache' = cache /\ Listed' = Listed
      BY <1>0, <1>10, CacheChanged, ListKept DEF TypeInv, Lists, DeleteTitle
    <2>2. kind \in {"titles"} => cache'.changed /\ (~cache.dirty => cache'.stale)
      BY <1>0, <1>10, CacheChanged DEF TypeInv, DeleteTitle
    <2>3. cache'.dirty = cache.dirty /\ cache'.counted = cache.counted
      BY <1>0, <1>10, CacheChanged DEF TypeInv, DeleteTitle
    <2> QED
      BY <1>0, <1>10, <2>1, <2>2, <2>3 DEF CacheInv, ListsTruthful, DeleteTitle, Silent,
         Right
  <1>11. ASSUME NEW t \in Channels, DeleteTicket(t) PROVE CacheInv'
    <2>1. kind \notin {"owned"} => cache' = cache /\ Listed' = Listed
      BY <1>0, <1>11, CacheChanged, ListKept DEF TypeInv, Lists, DeleteTicket
    <2>2. kind \in {"owned"} => cache'.changed /\ (~cache.dirty => cache'.stale)
      BY <1>0, <1>11, CacheChanged DEF TypeInv, DeleteTicket
    <2>3. cache'.dirty = cache.dirty /\ cache'.counted = cache.counted
      BY <1>0, <1>11, CacheChanged DEF TypeInv, DeleteTicket
    <2> QED
      BY <1>0, <1>11, <2>1, <2>2, <2>3 DEF CacheInv, ListsTruthful, DeleteTicket,
         Silent, Right
  <1>12. CASE AddTitleFinish
    <2>1. cache'.changed /\ cache'.dirty
      BY <1>0, <1>12 DEF TypeInv, CacheType, AddTitleFinish, Told, Marked
    <2> QED
      BY <1>12, <2>1 DEF CacheInv, ListsTruthful, AddTitleFinish, Silent, Right
  <1>13. CASE AddTitleCancel
    BY <1>13, <1>0, ListKept DEF CacheInv, ListsTruthful, nand, memory, AddTitleCancel,
       Silent, Right
  <1>14. CASE DIGetStoredTMDSize
    BY <1>14, <1>0, ListKept DEF CacheInv, ListsTruthful, nand, memory,
       DIGetStoredTMDSize, Silent, Right
  <1>15. ASSUME NEW t \in {Menu} \cup Channels, SetUID(t) PROVE CacheInv'
    <2>1. cache'.changed /\ (~cache.dirty => cache'.stale)
      BY <1>0, <1>15, CacheChanged DEF TypeInv, SetUID
    <2>2. cache'.dirty = cache.dirty /\ cache'.counted = cache.counted
      BY <1>0, <1>15, CacheChanged DEF TypeInv, SetUID
    <2> QED
      BY <1>0, <1>15, <2>1, <2>2 DEF CacheInv, ListsTruthful, SetUID, Silent, Right
  <1>16. ASSUME NEW d \in Discs, DIVerify(d) PROVE CacheInv'
    <2>1. cache'.changed /\ (~cache.dirty => cache'.stale)
      BY <1>0, <1>16, CacheChanged DEF TypeInv, DIVerify
    <2>2. cache'.dirty = cache.dirty /\ cache'.counted = cache.counted
      BY <1>0, <1>16, CacheChanged DEF TypeInv, DIVerify
    <2> QED
      BY <1>0, <1>16, <2>1, <2>2 DEF CacheInv, ListsTruthful, DIVerify, Right
  <1>17. ASSUME NEW t \in {Menu} \cup Channels, SetReturnTo(t) PROVE CacheInv'
    BY <1>17, <1>0, ListKept DEF CacheInv, ListsTruthful, nand, memory, SetReturnTo,
       Silent, Right
  <1>18. ASSUME NEW t \in {Menu} \cup Channels \cup Ioses, Launch(t) PROVE CacheInv'
    BY <1>18 DEF CacheInv, ListsTruthful, Launch, Restart, Fresh, Right
  <1>19. CASE PowerCut
    BY <1>19 DEF CacheInv, ListsTruthful, PowerCut, Restart, Off, Fresh, Right
  <1>20. CASE CutInUID
    BY <1>20 DEF CacheInv, ListsTruthful, CutInUID, Restart, Off, Fresh, Right
  <1>21. ASSUME NEW d \in Discs, CutInVerify(d) PROVE CacheInv'
    BY <1>21 DEF CacheInv, ListsTruthful, CutInVerify, Restart, Off, Fresh, Right
  <1>22. ASSUME NEW t \in {Menu} \cup Channels, SetAutoboot(t) PROVE CacheInv'
    BY <1>22, <1>0, ListKept DEF CacheInv, ListsTruthful, nand, memory, SetAutoboot,
       Silent, Right
  <1> QED
    BY <1>1, <1>2, <1>3, <1>4, <1>5, <1>6, <1>7, <1>8, <1>9, <1>10, <1>11,
       <1>12, <1>13, <1>14, <1>15, <1>16, <1>17, <1>18, <1>19, <1>20, <1>21, <1>22
    DEF Next, Boot, Commands

-----------------------------------------------------------------------------
LEMMA InitIInv == Init => IInv
  <1> SUFFICES ASSUME Init
               PROVE  IInv
    OBVIOUS
  <1>1. TypeInv
    BY DEF Init, TypeInv, CacheType, Fresh, Steps, Titles
  <1>2. BootInv /\ UidInv /\ RunInv /\ CacheInv
    BY DEF Init, BootInv, UidInv, Numbered, RunInv, CacheInv, ListsTruthful, Up, Fresh,
       Right
  <1>3. AskedInv /\ CostInv
    BY DEF Init, AskedInv, CostInv, Cost, One, Up
  <1> QED
    BY <1>1, <1>2, <1>3 DEF IInv

LEMMA StepIInv == IInv /\ [Next]_vars => IInv'
  <1>1. ASSUME IInv, Next PROVE IInv'
    BY <1>1, NextTypeInv, NextBootInv, NextUidInv, NextRunInv, NextAskedInv,
       NextCostInv, NextCacheInv DEF IInv
  <1>2. ASSUME IInv, UNCHANGED vars PROVE IInv'
    <2> USE <1>2 DEF vars, nand, orders, memory, history
    <2>1. TypeInv' /\ BootInv'
      BY DEF IInv, TypeInv, CacheType, BootInv, Up
    <2>2. UidInv' /\ RunInv'
      BY DEF IInv, UidInv, Numbered, RunInv, Records, Up, Opens
    <2>3. AskedInv' /\ CostInv'
      BY DEF IInv, AskedInv, Will, AfterDisc, AfterReload, CostInv, Cost, One, Up
    <2>4. CacheInv'
      BY ListKept DEF IInv, CacheInv, ListsTruthful
    <2> QED
      BY <2>1, <2>2, <2>3, <2>4 DEF IInv
  <1> QED
    BY <1>1, <1>2

THEOREM IInvHolds == Spec => []IInv
  BY InitIInv, StepIInv, PTL DEF Spec

(* Types, for every set of titles and any number of handles.               *)
THEOREM TypesKept == Spec => []TypeInv
  <1>1. IInv => TypeInv
    BY DEF IInv
  <1> QED
    BY <1>1, IInvHolds, PTL

(* GETTITLES, GETOWNEDTITLES and the counts: what is answered from memory  *)
(* is what uid.sys and the NAND hold, unless ES let a change go unnoticed. *)
THEOREM ListsAreTruthful == Spec => []ListsTruthful
  <1>1. IInv => ListsTruthful
    BY DEF IInv, CacheInv
  <1> QED
    BY <1>1, IInvHolds, PTL

(* A start ends in the title that LAUNCH was asked for, whatever orders    *)
(* earlier programs left in launch.sys, reload.sys and disc.sys.           *)
THEOREM LaunchIsHonoured == Spec => []LaunchHonoured
  <1>1. IInv => LaunchHonoured
    BY DEF IInv, AskedInv, Will, LaunchHonoured
  <1> QED
    BY <1>1, IInvHolds, PTL

(* ES_BootSystem: a bad order costs a start, not the console; the settings *)
(* cost one only if the channel they name has been deleted.                *)
THEOREM NoBootLoops == Spec => []NoBootLoop
  <1>1. IInv => NoBootLoop
    BY DEF IInv, TypeInv, CostInv, Cost, One, NoBootLoop
  <1> QED
    BY <1>1, IInvHolds, PTL

(* Any list of titles: a title runs under the UID that is its own.         *)
THEOREM UidsAreKept == Spec => []UidKept
  <1>1. ASSUME IInv PROVE UidKept
    <2>0. TypeInv /\ UidInv /\ RunInv
      BY <1>1 DEF IInv
    <2>1. CASE Up /\ Opens /\ uid # 0
      <3>1. uidSys # None /\ uidSys \in Seq(Entries) /\ Existing = uidSys /\ Numbered(uidSys)
        BY <2>0, <2>1, ExistingIsList DEF RunInv, Records, TypeInv, UidInv
      <3>2. PICK i \in DOMAIN uidSys : uidSys[i] = Entry(TitleID, uid)
        BY <2>0, <2>1 DEF RunInv, Records
      <3>3. uidSys[i].title = TitleID /\ uidSys[i].uid = uid
        BY <3>2 DEF Entry
      <3>4. TitleID \in Titles /\ Knows(TitleID)
        BY <2>0, <2>1, <3>1, <3>3 DEF Knows, TypeInv, Up
      <3>5. uid = Number(TitleID)
        BY <2>0, <3>1, <3>3, <3>4, NumberOfKnown DEF Numbered
      <3>6. ASSUME NEW j \in DOMAIN uidSys, uidSys[j].uid = uid PROVE uidSys[j].title = TitleID
        <4>1. i \in Nat /\ j \in Nat /\ i # 0 /\ j # 0
          BY <3>1
        <4>2. uid \in PlaceUid(i) /\ uid \in PlaceUid(j)
          BY <3>1, <3>3, <3>6 DEF Numbered
        <4>3. i = j
          BY <4>1, <4>2 DEF PlaceUid
        <4> QED
          BY <3>3, <4>3
      <3> QED
        BY <2>1, <3>1, <3>4, <3>5, <3>6 DEF UidKept
    <2>2. CASE Up /\ Opens /\ uid = 0
      BY <2>0, <2>2 DEF RunInv, Records, UidKept
    <2> QED
      BY <2>1, <2>2 DEF Up, UidKept
  <1> QED
    BY <1>1, IInvHolds, PTL

=============================================================================
