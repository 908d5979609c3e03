------------------------- MODULE TitleImport_proofs -------------------------
(***************************************************************************)
(* The title import leaves the file system consistent, whatever is         *)
(* imported, in pieces of any number, cancelled or cut short at any file   *)
(* operation, with any number of opens that fail and tickets that are      *)
(* missing; where it does not, the history says what has happened.         *)
(***************************************************************************)
EXTENDS TitleImport, TLAPS

Positions == DOMAIN iTMD.contents
InMap(h)  == \E k \in DOMAIN contentMap : contentMap[k] = h
Busy      == es.pc \in {"install", "rename", "append"}

(* What is in /tmp belongs to the title that is being imported, or to one  *)
(* ES forgot; there is no decrypted file without the data it was made from.*)
TmpInv ==
  /\ iTMD # None /\ (client.n > 0 \/ Busy) => tmpTmd = iTMD
  /\ iTMD = None /\ tmpTmd # None => tmpTmd \in past.lost
  /\ \A id \in Ids : tmpData[id] # None =>
       \/ iTMD # None /\ id \in IdsOf(iTMD)
       \/ \E imp \in past.lost : id \in IdsOf(imp)
  /\ \A id \in Ids : tmpData[id] = None => tmpApp[id] = None

(* While the contents are sent: the ones before the installer's place are  *)
(* in /tmp and right, or known, or optional; a wrong one is noted.         *)
Sent(c) ==
  /\ \/ tmpApp[c.id] \in {None, c.hash} \/ c.hash \in past.wrong
     \/ c.shared /\ InMap(c.hash)
  /\ ~c.optional => tmpApp[c.id] = c.hash \/ (c.shared /\ InMap(c.hash))

SendInv ==
  es.pc = "idle" /\ iTMD # None =>
    /\ client.n \in 0 .. Len(iTMD.contents) + 1
    /\ \A n \in Positions : n < client.n => Sent(iTMD.contents[n])
    /\ client.open =>
         /\ client.n \in Positions
         /\ SkipContent => iTMD.contents[client.n].shared /\ InMap(iTMD.contents[client.n].hash)
         /\ ~SkipContent /\ client.sent > 0 => tmpData[iTMD.contents[client.n].id] # None

(* While they are installed: the same of those that are left, and those    *)
(* that are done are in place, or a gap was met.                           *)
Placed(c) ==
  ~c.optional =>
    IF c.shared THEN InMap(c.hash) \/ es.gap
    ELSE \/ content[iTMD.title][c.id] = c.hash
         \/ content[iTMD.title][c.id] # None /\ c.hash \in past.wrong

InstallInv ==
  Busy =>
    /\ \A n \in Positions :
         /\ n < es.i => Placed(iTMD.contents[n])
         /\ n >= es.i /\ ~(n = es.i /\ es.pc = "append") => Sent(iTMD.contents[n])
    /\ es.pc \in {"rename", "append"} =>
         iTMD.contents[es.i].shared /\ ~InMap(iTMD.contents[es.i].hash)
    /\ es.pc = "append" /\ es.fd =>
         /\ Index \in DOMAIN shared1
         /\ \/ shared1[Index] = iTMD.contents[es.i].hash
            \/ iTMD.contents[es.i].hash \in past.wrong

(* What stands in the directory of a title is what its TMD says.           *)
ContentRight ==
  \A imp \in Imports : \A n \in DOMAIN imp.contents :
    \/ content[imp.title][imp.contents[n].id] \in {None, imp.contents[n].hash}
    \/ imp.contents[n].hash \in past.wrong

(* The TMD in the directory of a title is one of that title.               *)
TmdRight == \A t \in Titles : tmd[t] # None => tmd[t].title = t

IInv ==
  /\ TypeOK /\ CacheFresh /\ TmpInv /\ SendInv /\ InstallInv
  /\ MapSound /\ NoDuplicates /\ ContentRight /\ TmdRight /\ InstalledComplete

-----------------------------------------------------------------------------
(* What the assumption says of the title that is being imported.           *)
LEMMA ImportType ==
  ASSUME NEW imp \in Imports
  PROVE  /\ imp.title \in Titles /\ imp.contents \in Seq(Content)
         /\ DOMAIN imp.contents = 1 .. Len(imp.contents) /\ Len(imp.contents) \in Nat
         /\ \A n \in DOMAIN imp.contents : imp.contents[n] \in Content
<1>1. imp \in [title : Titles, contents : Seq(Content)]
  BY TitleImportAssumption
<1> QED  BY <1>1

LEMMA ContentType ==
  ASSUME NEW c \in Content
  PROVE  /\ c.id \in Ids /\ c.shared \in BOOLEAN /\ c.optional \in BOOLEAN
         /\ c.hash \in Hashes /\ c.hash # None /\ c.hash # Bad
BY TitleImportAssumption DEF Content

(* The sets the records and files are in.                                  *)
EsSet == [pc : {"idle", "install", "rename", "append", "cleanup"}, i : Nat,
          r : {"fatal", "ok", "missing"}, fd : BOOLEAN, gap : BOOLEAN]
ClientSet == [n : Nat, open : BOOLEAN, sent : 0 .. Pieces]
Data == (Titles \X Hashes \X (1 .. Pieces)) \cup {None, Bad}

(* The parts of TypeOK, by the variables they are about.                   *)
DiskType ==
  /\ DOMAIN shared1 \subseteq Nat
  /\ \A k \in DOMAIN shared1 : shared1[k] \in Hashes \cup {Bad}
  /\ contentMap \in Seq(Hashes)
  /\ content \in [Titles -> [Ids -> Hashes \cup {Bad, None}]]
  /\ tmd \in [Titles -> Imports \cup {None}]

TmpType ==
  /\ tmpTmd \in Imports \cup {None, Bad}
  /\ tmpData \in [Ids -> Data]
  /\ tmpApp \in [Ids -> Hashes \cup {Bad, None}]

MemoryType ==
  /\ iTMD \in Imports \cup {None} /\ CNTMap \in Seq(Hashes)
  /\ SkipContent \in BOOLEAN /\ CNTMapDirty \in BOOLEAN

StepType ==
  /\ es \in EsSet /\ client \in ClientSet
  /\ iTMD = None => es = Idle /\ client = NoClient
  /\ es.pc # "idle" => client = NoClient
  /\ es.pc = "install" => es.i \in 1 .. Len(iTMD.contents) + 1
  /\ es.pc \in {"rename", "append"} => es.i \in DOMAIN iTMD.contents

PastType ==
  /\ past \in [wrong : SUBSET Hashes, hollow : SUBSET Titles,
               lost : SUBSET Imports, replaced : BOOLEAN]
  /\ faults \in 0 .. MaxFaults

LEMMA TypeParts == TypeOK <=> DiskType /\ TmpType /\ MemoryType /\ StepType /\ PastType
BY DEF TypeOK, DiskType, TmpType, MemoryType, StepType, PastType, EsSet, ClientSet, Data

LEMMA TypePartsNext == TypeOK' <=> DiskType' /\ TmpType' /\ MemoryType' /\ StepType' /\ PastType'
BY DEF TypeOK, DiskType, TmpType, MemoryType, StepType, PastType, EsSet, ClientSet, Data

LEMMA InitTyped == Init => TypeOK
<1> SUFFICES ASSUME Init PROVE TypeOK
  OBVIOUS
<1>1. DiskType
  BY TitleImportAssumption DEF Init, DiskType
<1>2. TmpType
  BY DEF Init, TmpType, NoData, NoApp, Data
<1>3. MemoryType
  <2>1. <<>> \in Seq(Hashes)
    OBVIOUS
  <2> QED  BY <2>1 DEF Init, MemoryType
<1>4. StepType
  BY TitleImportAssumption DEF Init, StepType, Idle, NoClient, EsSet, ClientSet
<1>5. PastType
  BY TitleImportAssumption DEF Init, PastType
<1> QED  BY <1>1, <1>2, <1>3, <1>4, <1>5, TypeParts

(* What the steps of the installation do to es.                            *)
LEMMA EsSteps ==
  ASSUME es \in EsSet
  PROVE  /\ \A r \in {"fatal", "ok", "missing"} :
              NextContent(r) \/ WithoutMap(r) =>
                /\ es' \in EsSet /\ es'.pc = "install" /\ es'.i = es.i + 1
                /\ es.gap \/ WithoutMap(r) => es'.gap
                /\ es'.gap => es.gap \/ WithoutMap(r)
         /\ \A next \in {[es EXCEPT !.pc = "cleanup", !.r = "missing"],
                         [es EXCEPT !.pc = "cleanup"]} :
              next \in EsSet /\ next.pc = "cleanup"
         /\ \A next : next = [es EXCEPT !.pc = "append"] =>
              /\ next \in EsSet /\ next.pc = "append" /\ next.i = es.i
              /\ next.fd = es.fd /\ next.gap = es.gap
         /\ \A next, fd : fd \in BOOLEAN /\ next = [es EXCEPT !.pc = "rename", !.fd = fd] =>
              /\ next \in EsSet /\ next.pc = "rename" /\ next.i = es.i /\ next.gap = es.gap
<1>0. es.i + 1 \in Nat
  BY DEF EsSet
<1>1. ASSUME NEW r \in {"fatal", "ok", "missing"}, NextContent(r)
      PROVE  es' \in EsSet /\ es'.pc = "install" /\ es'.i = es.i + 1 /\ es'.gap = es.gap
  BY <1>0, <1>1 DEF EsSet, NextContent
<1>2. ASSUME NEW r \in {"fatal", "ok", "missing"}, WithoutMap(r)
      PROVE  es' \in EsSet /\ es'.pc = "install" /\ es'.i = es.i + 1 /\ es'.gap
  BY <1>0, <1>2 DEF EsSet, WithoutMap
<1>3. \A next \in {[es EXCEPT !.pc = "cleanup", !.r = "missing"], [es EXCEPT !.pc = "cleanup"]} :
        next \in EsSet /\ next.pc = "cleanup"
  BY DEF EsSet
<1>4. \A next : next = [es EXCEPT !.pc = "append"] =>
        /\ next \in EsSet /\ next.pc = "append" /\ next.i = es.i
        /\ next.fd = es.fd /\ next.gap = es.gap
  BY DEF EsSet
<1>5. \A next, fd : fd \in BOOLEAN /\ next = [es EXCEPT !.pc = "rename", !.fd = fd] =>
        /\ next \in EsSet /\ next.pc = "rename" /\ next.i = es.i /\ next.gap = es.gap
  BY DEF EsSet
<1>6. \A r \in {"fatal", "ok", "missing"} :
        NextContent(r) \/ WithoutMap(r) =>
          /\ es' \in EsSet /\ es'.pc = "install" /\ es'.i = es.i + 1
          /\ es.gap \/ WithoutMap(r) => es'.gap
          /\ es'.gap => es.gap \/ WithoutMap(r)
  BY <1>1, <1>2
<1> QED  BY <1>3, <1>4, <1>5, <1>6

LEMMA DiskTypeStep == TypeOK /\ TmpInv /\ [Next]_vars => DiskType'
<1> SUFFICES ASSUME TypeOK, TmpInv, [Next]_vars  PROVE DiskType'
  OBVIOUS
<1> USE DEF disk
<1>0. DiskType /\ TmpType /\ MemoryType /\ StepType
  BY TypeParts
<1>1. CASE UNCHANGED disk
  BY <1>0, <1>1 DEF DiskType
<1>2. CASE Rename
  <2> DEFINE c == iTMD.contents[es.i]
  <2>1. UNCHANGED <<contentMap, content, tmd>>
    BY <1>2 DEF Rename
  <2>2. iTMD \in Imports /\ es.i \in DOMAIN iTMD.contents
    BY <1>0, <1>2 DEF Rename, StepType, MemoryType, Idle
  <2>3. tmpApp[c.id] \in Hashes \cup {Bad, None} /\ NewFile \in Nat
    BY <1>0, <2>2, ImportType, ContentType DEF TmpType, NewFile, Index, DiskType
  <2>4. \/ UNCHANGED shared1
        \/ shared1' = [k \in DOMAIN shared1 \ {NewFile} |-> shared1[k]]
        \/ /\ tmpApp[c.id] # None
           /\ shared1' = [k \in DOMAIN shared1 \cup {NewFile} |->
                            IF k = NewFile THEN tmpApp[c.id] ELSE shared1[k]]
    BY <1>2 DEF Rename
  <2> HIDE DEF c
  <2> QED  BY <1>0, <2>1, <2>3, <2>4 DEF DiskType
<1>3. CASE AppendMap
  <2>1. iTMD \in Imports /\ es.i \in DOMAIN iTMD.contents
    BY <1>0, <1>3 DEF AppendMap, StepType, MemoryType, Idle
  <2>2. iTMD.contents[es.i].hash \in Hashes
    BY <2>1, ImportType, ContentType
  <2>3. contentMap' \in Seq(Hashes)
    BY <1>0, <1>3, <2>2 DEF AppendMap, DiskType
  <2> QED  BY <1>0, <1>3, <2>3 DEF AppendMap, DiskType
<1>4. CASE InstallPrivate
  <2>1. PICK c \in Content : InstallPrivate!(c)
    BY <1>4 DEF InstallPrivate
  <2>2. iTMD \in Imports
    BY <1>0, <2>1 DEF Installing, StepType, MemoryType, Idle
  <2>3. iTMD.title \in Titles /\ c.id \in Ids /\ tmpApp[c.id] \in Hashes \cup {Bad, None}
    BY <1>0, <2>2, ImportType, ContentType DEF TmpType
  <2>4. content' = content
        \/ \E v \in {None, tmpApp[c.id]} : content' = [content EXCEPT ![iTMD.title][c.id] = v]
    BY <2>1
  <2>5. content' \in [Titles -> [Ids -> Hashes \cup {Bad, None}]]
    <3> SUFFICES ASSUME NEW v \in Hashes \cup {Bad, None}
                 PROVE  [content EXCEPT ![iTMD.title][c.id] = v]
                          \in [Titles -> [Ids -> Hashes \cup {Bad, None}]]
      BY <1>0, <2>3, <2>4 DEF DiskType
    <3> DEFINE row == [content[iTMD.title] EXCEPT ![c.id] = v]
    <3>1. content \in [Titles -> [Ids -> Hashes \cup {Bad, None}]]
      BY <1>0 DEF DiskType
    <3>2. row \in [Ids -> Hashes \cup {Bad, None}]
      BY <2>3, <3>1
    <3>3. [content EXCEPT ![iTMD.title][c.id] = v] = [content EXCEPT ![iTMD.title] = row]
      BY <2>3, <3>1
    <3> HIDE DEF row
    <3> QED  BY <2>3, <3>1, <3>2, <3>3
  <2> QED  BY <1>0, <2>1, <2>5 DEF DiskType
<1>5. CASE InstallTmd
  <2>1. AtEnd
    BY <1>5 DEF InstallTmd
  <2>2. iTMD \in Imports /\ tmpTmd = iTMD
    BY <1>0, <2>1 DEF AtEnd, TmpInv, Busy, StepType, MemoryType, Idle
  <2>3. tmd' = [tmd EXCEPT ![iTMD.title] = tmpTmd] \/ tmd' = [tmd EXCEPT ![iTMD.title] = None]
    BY <1>5 DEF InstallTmd
  <2>4. tmd' \in [Titles -> Imports \cup {None}]
    BY <1>0, <2>2, <2>3 DEF DiskType
  <2> QED  BY <1>0, <1>5, <2>4 DEF InstallTmd, DiskType
<1> QED
  BY <1>1, <1>2, <1>3, <1>4, <1>5
  DEF Next, vars, TitleStart, ContentStart, ContentData, ContentFinish, ContentUnfinished,
      TicketMissing, LeaveOut, TitleFinish, InstallKnown, InstallUnknown, InstallShared,
      KeepTmd, CleanUp, TitleCancel, CancelForgotten, PowerCut

LEMMA DeleteType == ASSUME TmpType, NEW ids, Delete(ids)  PROVE TmpType'
BY DEF TmpType, Delete, Data

LEMMA TmpTypeStep == TypeOK /\ [Next]_vars => TmpType'
<1> SUFFICES ASSUME TypeOK, [Next]_vars  PROVE TmpType'
  OBVIOUS
<1> USE DEF tmp
<1>0. DiskType /\ TmpType /\ MemoryType /\ StepType
  BY TypeParts
<1>1. CASE UNCHANGED tmp
  BY <1>0, <1>1 DEF TmpType
<1>2. CASE \E imp \in Imports : TitleStart(imp)
  BY <1>0, <1>2 DEF TmpType, TitleStart
<1>3. CASE ContentData
  <2>1. PICK c \in Content, p \in {0, client.sent + 1} : ContentData!(c, p)
    BY <1>3 DEF ContentData
  <2>2. p \in 0 .. Pieces /\ iTMD \in Imports /\ c.id \in Ids /\ c.hash \in Hashes
    BY <1>0, <2>1, ContentType, TitleImportAssumption
    DEF StepType, Sending, MemoryType, ClientSet
  <2>3. Appended(c, p) \in Data
    <3>1. p > 0 => Part(c, p) \in Data
      BY <2>2, ImportType DEF Part, Data
    <3>2. tmpData[c.id] \in Data
      BY <1>0, <2>2 DEF TmpType
    <3> QED  BY <2>2, <3>1, <3>2 DEF Appended, Data
  <2> HIDE DEF Appended
  <2> QED  BY <1>0, <2>1, <2>3 DEF TmpType
<1>4. CASE ContentFinish \/ ContentUnfinished
  <2>1. /\ UNCHANGED <<tmpTmd, tmpData>>
        /\ \/ tmpApp' = tmpApp
           \/ \E c \in Content : tmpApp' = [tmpApp EXCEPT ![c.id] = Decrypted(c)]
           \/ \E c \in Content : tmpApp' = [tmpApp EXCEPT ![c.id] = Bad]
    BY <1>4 DEF ContentFinish, ContentUnfinished
  <2>2. \A c \in Content : Decrypted(c) \in Hashes \cup {Bad, None}
    BY ContentType DEF Decrypted
  <2> HIDE DEF Decrypted
  <2>3. tmpApp' \in [Ids -> Hashes \cup {Bad, None}]
    BY <1>0, <2>1, <2>2 DEF TmpType
  <2> QED  BY <1>0, <2>1, <2>3 DEF TmpType
<1>5. CASE InstallKnown \/ Rename \/ InstallPrivate
  <2>1. /\ UNCHANGED <<tmpTmd, tmpData>>
        /\ tmpApp' = tmpApp \/ \E id : tmpApp' = [tmpApp EXCEPT ![id] = None]
    BY <1>5 DEF InstallKnown, Rename, InstallPrivate
  <2> QED  BY <1>0, <2>1 DEF TmpType
<1>6. CASE InstallTmd
  BY <1>0, <1>6 DEF InstallTmd, TmpType
<1>7. CASE CleanUp \/ TitleCancel \/ CancelForgotten
  BY <1>0, <1>7, DeleteType DEF CleanUp, TitleCancel, CancelForgotten, Forget
<1>8. CASE PowerCut
  BY <1>8 DEF PowerCut, NoData, NoApp, TmpType, Data
<1> QED
  BY <1>1, <1>2, <1>3, <1>4, <1>5, <1>6, <1>7, <1>8
  DEF Next, vars, ContentStart, TicketMissing, LeaveOut, TitleFinish, InstallUnknown,
      InstallShared, AppendMap, KeepTmd

LEMMA MemoryTypeStep == TypeOK /\ [Next]_vars => MemoryType'
<1> SUFFICES ASSUME TypeOK, [Next]_vars  PROVE MemoryType'
  OBVIOUS
<1> USE DEF memory
<1>0. DiskType /\ TmpType /\ MemoryType /\ StepType
  BY TypeParts
<1>1. Loaded \in Seq(Hashes) /\ <<>> \in Seq(Hashes)
  BY <1>0 DEF Loaded, DiskType, MemoryType
<1>2. CASE UNCHANGED memory
  BY <1>0, <1>2 DEF MemoryType
<1>3. CASE \E imp \in Imports : TitleStart(imp)
  BY <1>0, <1>3 DEF TitleStart, MemoryType
<1>4. CASE ContentStart
  <2>1. PICK c \in Content : ContentStart!(c)
    BY <1>4 DEF ContentStart
  <2>2. CNTMap' \in Seq(Hashes) /\ CNTMapDirty' \in BOOLEAN
    BY <1>0, <1>1, <2>1 DEF LoadMap, Unreadable, MemoryType
  <2>3. SkipContent' \in BOOLEAN
    BY <2>1 DEF Known
  <2> QED  BY <1>0, <2>1, <2>2, <2>3 DEF MemoryType
<1>5. CASE InstallKnown \/ InstallUnknown \/ InstallShared
  <2>1. (LoadMap \/ Unreadable) /\ UNCHANGED <<iTMD, SkipContent>>
    BY <1>5 DEF InstallKnown, InstallUnknown, InstallShared
  <2> QED  BY <1>0, <1>1, <2>1 DEF LoadMap, Unreadable, MemoryType
<1>6. CASE AppendMap
  BY <1>0, <1>6 DEF AppendMap, MemoryType
<1>7. CASE CleanUp \/ TitleCancel \/ TicketMissing
  BY <1>0, <1>7 DEF CleanUp, TitleCancel, TicketMissing, Forget, MemoryType
<1>8. CASE PowerCut
  <2>1. iTMD' = None /\ SkipContent' = FALSE /\ CNTMap' = <<>> /\ CNTMapDirty' = TRUE
    BY <1>8 DEF PowerCut
  <2> QED  BY <1>1, <2>1 DEF MemoryType
<1> QED
  BY <1>2, <1>3, <1>4, <1>5, <1>6, <1>7, <1>8
  DEF Next, vars, ContentData, ContentFinish, ContentUnfinished, LeaveOut, TitleFinish, Rename,
      InstallPrivate, InstallTmd, KeepTmd, CancelForgotten

LEMMA PastTypeStep == TypeOK /\ [Next]_vars => PastType'
<1> SUFFICES ASSUME TypeOK, [Next]_vars  PROVE PastType'
  OBVIOUS
<1>0. PastType /\ MemoryType /\ StepType
  BY TypeParts
<1>1. faults' \in 0 .. MaxFaults
  <2>1. UNCHANGED faults \/ Fault
    BY DEF Next, vars, history, TitleStart, ContentStart, ContentData, ContentFinish,
       ContentUnfinished, TicketMissing, LeaveOut, TitleFinish, InstallKnown, InstallUnknown,
       InstallShared, Rename, AppendMap, InstallPrivate, InstallTmd, KeepTmd, CleanUp,
       TitleCancel, CancelForgotten, PowerCut
  <2> QED  BY <1>0, <2>1, TitleImportAssumption DEF PastType, Fault
<1> DEFINE Set == [wrong : SUBSET Hashes, hollow : SUBSET Titles,
                   lost : SUBSET Imports, replaced : BOOLEAN]
<1>2. past \in Set
  BY <1>0 DEF PastType
<1>3. CASE UNCHANGED past
  BY <1>1, <1>2, <1>3 DEF PastType
<1>4. CASE TicketMissing
  <2>1. iTMD \in Imports
    BY <1>0, <1>4 DEF TicketMissing, Finishing, Sending, MemoryType
  <2> QED  BY <1>1, <1>2, <1>4, <2>1 DEF TicketMissing, PastType
<1>5. CASE LeaveOut
  <2>1. past' = past \/ \E c \in Content : past' = [past EXCEPT !.wrong = past.wrong \cup {c.hash}]
    BY <1>5 DEF LeaveOut
  <2> QED  BY <1>1, <1>2, <2>1, ContentType DEF PastType
<1>6. CASE Rename
  <2>1. past' = past \/ past' = [past EXCEPT !.replaced = past.replaced \/ ~es.fd]
    BY <1>6 DEF Rename
  <2>2. es.fd \in BOOLEAN
    BY <1>0 DEF StepType, EsSet
  <2> QED  BY <1>1, <1>2, <2>1, <2>2 DEF PastType
<1>7. CASE InstallPrivate \/ InstallTmd
  <2>1. iTMD \in Imports
    <3>1. es.pc = "install"
      BY <1>7 DEF InstallPrivate, Installing, InstallTmd, AtEnd
    <3> QED  BY <1>0, <3>1 DEF StepType, MemoryType, Idle
  <2>2. iTMD.title \in Titles
    BY <2>1, ImportType
  <2>3. past' = past
        \/ \E h \in SUBSET Titles : past' = [past EXCEPT !.hollow = h]
    <3>1. CASE InstallPrivate
      <4>1. past' = past \/ past' = [past EXCEPT !.hollow = past.hollow \cup {iTMD.title}]
        BY <3>1 DEF InstallPrivate, history
      <4>2. past.hollow \cup {iTMD.title} \in SUBSET Titles
        BY <1>2, <2>2
      <4> QED  BY <4>1, <4>2
    <3>2. CASE InstallTmd
      <4> DEFINE h == IF es.gap THEN past.hollow \cup {iTMD.title} ELSE past.hollow \ {iTMD.title}
      <4>1. past' = past \/ past' = [past EXCEPT !.hollow = h]
        BY <3>2 DEF InstallTmd
      <4>2. h \in SUBSET Titles
        BY <1>2, <2>2
      <4> HIDE DEF h
      <4> QED  BY <4>1, <4>2
    <3> QED  BY <1>7, <3>1, <3>2
  <2> QED  BY <1>1, <1>2, <2>3 DEF PastType
<1>8. CASE PowerCut
  BY <1>1, <1>2, <1>8 DEF PowerCut, PastType
<1> QED
  BY <1>3, <1>4, <1>5, <1>6, <1>7, <1>8
  DEF Next, vars, history, TitleStart, ContentStart, ContentData, ContentFinish,
      ContentUnfinished, TitleFinish, InstallKnown, InstallUnknown, InstallShared, AppendMap,
      KeepTmd, CleanUp, TitleCancel, CancelForgotten

LEMMA StepTypeStep == TypeOK /\ [Next]_vars => StepType'
<1> SUFFICES ASSUME TypeOK, [Next]_vars  PROVE StepType'
  OBVIOUS
<1> USE DEF disk, memory
<1>0. DiskType /\ TmpType /\ MemoryType /\ StepType
  BY TypeParts
<1>p. Pieces \in Nat \ {0} /\ es \in EsSet /\ client \in ClientSet
  BY <1>0, TitleImportAssumption DEF StepType
<1>t. ASSUME iTMD # None
      PROVE  /\ DOMAIN iTMD.contents = 1 .. Len(iTMD.contents) /\ Len(iTMD.contents) \in Nat
  BY <1>0, <1>t, ImportType DEF MemoryType
<1>c. NoClient \in ClientSet /\ Idle \in EsSet /\ Idle.pc = "idle"
  BY <1>p DEF NoClient, Idle, ClientSet, EsSet
<1>1. CASE UNCHANGED <<iTMD, es, client>>
  BY <1>0, <1>1 DEF StepType
<1>2. CASE \E imp \in Imports : TitleStart(imp)
  <2>1. PICK imp \in Imports : TitleStart(imp)
    BY <1>2
  <2>2. client = NoClient /\ es' = es /\ es = Idle /\ iTMD' = imp /\ imp # None
    BY <1>0, <2>1, TitleImportAssumption DEF TitleStart, StepType
  <2>3. client' = client \/ client' = [client EXCEPT !.n = 1]
    BY <2>1 DEF TitleStart
  <2>4. client' \in ClientSet
    BY <1>p, <2>3 DEF ClientSet
  <2> QED  BY <1>c, <1>p, <2>2, <2>4 DEF StepType
<1>3. CASE ContentStart \/ ContentData \/ ContentFinish \/ ContentUnfinished \/ LeaveOut
  <2>1. UNCHANGED <<iTMD, es>> /\ iTMD # None /\ es.pc = "idle"
    BY <1>3
    DEF ContentStart, ContentData, ContentFinish, ContentUnfinished, LeaveOut, Finishing,
        Sending, Idle
  <2>2. client' \in ClientSet
    <3>1. CASE ContentStart \/ LeaveOut \/ ContentUnfinished
      <4>1. client' = [client EXCEPT !.open = TRUE, !.sent = 0]
            \/ client' = [client EXCEPT !.n = client.n + 1]
            \/ client' = [client EXCEPT !.open = FALSE, !.sent = 0]
        BY <3>1 DEF ContentStart, LeaveOut, ContentUnfinished
      <4>2. client.n + 1 \in Nat /\ 0 \in 0 .. Pieces
        BY <1>p DEF ClientSet
      <4> QED  BY <1>p, <4>1, <4>2 DEF ClientSet
    <3>2. CASE ContentData
      <4>1. client.sent < Pieces /\ client' = [client EXCEPT !.sent = client.sent + 1]
        BY <3>2 DEF ContentData
      <4> QED  BY <1>p, <4>1 DEF ClientSet
    <3>3. CASE ContentFinish
      <4>1. \E n \in {client.n, client.n + 1} : client' = [n |-> n, open |-> FALSE, sent |-> 0]
        BY <3>3 DEF ContentFinish
      <4> QED  BY <1>p, <4>1 DEF ClientSet
    <3> QED  BY <1>3, <3>1, <3>2, <3>3
  <2> QED  BY <1>0, <2>1, <2>2 DEF StepType
<1>4. CASE TitleFinish
  <2>1. /\ iTMD # None /\ UNCHANGED iTMD
        /\ es' = [Idle EXCEPT !.pc = "install", !.i = 1] /\ client' = NoClient
    BY <1>4 DEF TitleFinish
  <2>2. es' \in EsSet /\ es'.pc = "install" /\ es'.i = 1
    BY <2>1 DEF Idle, EsSet
  <2> QED  BY <1>c, <1>t, <2>1, <2>2 DEF StepType
<1>5. CASE \/ InstallKnown \/ InstallUnknown \/ InstallShared \/ Rename \/ AppendMap
           \/ InstallPrivate
  <2>1. /\ es.pc \in {"install", "rename", "append"} /\ es.i \in DOMAIN iTMD.contents
        /\ UNCHANGED <<iTMD, client>>
    BY <1>0, <1>5
    DEF InstallKnown, InstallUnknown, InstallShared, Rename, AppendMap, InstallPrivate,
        Installing, StepType
  <2>2. iTMD # None /\ client = NoClient
    BY <1>0, <1>c, <2>1 DEF StepType
  <2>3. es.i \in 1 .. Len(iTMD.contents) /\ Len(iTMD.contents) \in Nat
    BY <1>t, <2>1, <2>2
  <2>4. es.r \in {"fatal", "ok", "missing"}
    BY <1>p DEF EsSet
  <2>5. \/ es' = es
        \/ \E r \in {"fatal", "ok", "missing"} : NextContent(r) \/ WithoutMap(r)
        \/ es' = [es EXCEPT !.pc = "append"]
        \/ \E fd \in BOOLEAN : es' = [es EXCEPT !.pc = "rename", !.fd = fd]
        \/ es' = [es EXCEPT !.pc = "cleanup", !.r = "missing"]
    <3>1. CASE InstallKnown
      BY <2>4, <3>1 DEF InstallKnown
    <3>2. CASE InstallUnknown
      BY <2>4, <3>2 DEF InstallUnknown
    <3>3. CASE InstallShared
      BY <3>3 DEF InstallShared
    <3>4. CASE Rename
      BY <3>4 DEF Rename
    <3>5. CASE AppendMap
      BY <3>5 DEF AppendMap
    <3>6. CASE InstallPrivate
      BY <3>6 DEF InstallPrivate
    <3> QED  BY <1>5, <3>1, <3>2, <3>3, <3>4, <3>5, <3>6
  <2>6. /\ es' \in EsSet
        /\ es'.pc = "install" => es'.i \in 1 .. Len(iTMD.contents) + 1
        /\ es'.pc \in {"rename", "append"} => es'.i \in DOMAIN iTMD.contents
    <3>1. CASE es' = es
      BY <1>p, <2>1, <2>3, <3>1
    <3>2. CASE \E r \in {"fatal", "ok", "missing"} : NextContent(r) \/ WithoutMap(r)
      <4>1. es' \in EsSet /\ es'.pc = "install" /\ es'.i = es.i + 1
        BY <1>p, <3>2, EsSteps
      <4> QED  BY <2>3, <4>1
    <3>3. CASE es' = [es EXCEPT !.pc = "append"]
      BY <1>p, <2>1, <3>3, EsSteps
    <3>4. CASE \E fd \in BOOLEAN : es' = [es EXCEPT !.pc = "rename", !.fd = fd]
      BY <1>p, <2>1, <3>4, EsSteps
    <3>5. CASE es' = [es EXCEPT !.pc = "cleanup", !.r = "missing"]
      BY <1>p, <3>5, EsSteps
    <3> QED  BY <2>5, <3>1, <3>2, <3>3, <3>4, <3>5
  <2> QED  BY <1>c, <2>1, <2>2, <2>6 DEF StepType
<1>6. CASE InstallTmd \/ KeepTmd
  <2>1. /\ es.pc = "install" /\ UNCHANGED <<iTMD, client>>
        /\ es' = es \/ es' = [es EXCEPT !.pc = "cleanup"]
    BY <1>6 DEF InstallTmd, KeepTmd, AtEnd
  <2>2. iTMD # None /\ client = NoClient
    BY <1>0, <1>c, <2>1 DEF StepType
  <2>3. es' = es \/ (es' \in EsSet /\ es'.pc = "cleanup")
    BY <1>p, <2>1, EsSteps
  <2> QED  BY <1>0, <1>c, <2>1, <2>2, <2>3 DEF StepType
<1>7. CASE CleanUp \/ TitleCancel \/ TicketMissing \/ PowerCut
  <2>1. es' = Idle /\ client' = NoClient
    <3>1. CASE CleanUp
      <4>1. es.pc # "idle" /\ es' = Idle /\ client' = client
        BY <3>1 DEF CleanUp
      <4> QED  BY <1>0, <4>1 DEF StepType
    <3>2. CASE TitleCancel \/ TicketMissing \/ PowerCut
      BY <3>2 DEF TitleCancel, TicketMissing, Finishing, Sending, PowerCut
    <3> QED  BY <1>7, <3>1, <3>2
  <2> QED  BY <1>c, <2>1 DEF StepType
<1> QED
  BY <1>1, <1>2, <1>3, <1>4, <1>5, <1>6, <1>7 DEF Next, vars, CancelForgotten

LEMMA Typed == TypeOK /\ TmpInv /\ [Next]_vars => TypeOK'
BY DiskTypeStep, TmpTypeStep, MemoryTypeStep, StepTypeStep, PastTypeStep, TypePartsNext

(* The map is read again after it was written.                             *)
LEMMA CacheStep == TypeOK /\ CacheFresh /\ [Next]_vars => CacheFresh'
<1> SUFFICES ASSUME TypeOK, CacheFresh, [Next]_vars  PROVE CacheFresh'
  OBVIOUS
<1> USE DEF disk, memory
<1>1. CASE UNCHANGED <<contentMap, CNTMap, CNTMapDirty>>
  BY <1>1 DEF CacheFresh
<1>2. CASE LoadMap /\ UNCHANGED contentMap
  BY <1>2 DEF CacheFresh, LoadMap, Loaded
<1>3. CASE CNTMapDirty' = TRUE
  BY <1>3 DEF CacheFresh
<1>4. CASE Unreadable
  BY <1>4 DEF CacheFresh, Unreadable
<1> QED
  BY <1>1, <1>2, <1>3, <1>4
  DEF Next, vars, TitleStart, ContentStart, ContentData, ContentFinish, ContentUnfinished,
      TicketMissing, LeaveOut, TitleFinish, InstallKnown, InstallUnknown, InstallShared, Rename,
      AppendMap, InstallPrivate, InstallTmd, KeepTmd, CleanUp, TitleCancel, CancelForgotten,
      PowerCut

(* With a fresh map, the search finds what is in the file.                 *)
LEMMA KnownIsInMap == ASSUME CacheFresh, NEW h  PROVE Known(h) <=> InMap(h)
BY DEF CacheFresh, Known, InMap, Loaded

(* What happened has happened; only a power cut ends the worry about /tmp. *)
LEMMA PastKept ==
  ASSUME TypeOK, [Next]_vars
  PROVE  /\ past.wrong \subseteq past'.wrong
         /\ past.replaced => past'.replaced
         /\ ~PowerCut => past.lost \subseteq past'.lost
<1>1. past \in [wrong : SUBSET Hashes, hollow : SUBSET Titles,
                lost : SUBSET Imports, replaced : BOOLEAN]
  BY DEF TypeOK
<1>2. \/ past' = past
      \/ \E imp : past' = [past EXCEPT !.lost = past.lost \cup {imp}]
      \/ \E h : past' = [past EXCEPT !.wrong = past.wrong \cup {h}]
      \/ \E b : past' = [past EXCEPT !.replaced = past.replaced \/ b]
      \/ \E ts : past' = [past EXCEPT !.hollow = ts]
      \/ PowerCut /\ past' = [past EXCEPT !.lost = {}]
  <2>1. CASE TicketMissing
    BY <2>1 DEF TicketMissing
  <2>2. CASE LeaveOut
    BY <2>2 DEF LeaveOut
  <2>3. CASE Rename
    BY <2>3 DEF Rename
  <2>4. CASE InstallPrivate
    BY <2>4 DEF InstallPrivate, history
  <2>5. CASE InstallTmd
    BY <2>5 DEF InstallTmd
  <2>6. CASE PowerCut
    BY <2>6 DEF PowerCut
  <2> QED
    BY <2>1, <2>2, <2>3, <2>4, <2>5, <2>6
    DEF Next, vars, history, TitleStart, ContentStart, ContentData, ContentFinish,
        ContentUnfinished, TitleFinish, InstallKnown, InstallUnknown, InstallShared, AppendMap,
        KeepTmd, CleanUp, TitleCancel, CancelForgotten
<1> QED  BY <1>1, <1>2

(* A command that deletes temporary files leaves those of others.          *)
LEMMA DeleteStep ==
  ASSUME TypeOK, TmpInv, NEW ids, Delete(ids)
  PROVE  /\ tmpTmd' = None
         /\ \A id \in Ids : tmpData'[id] \in {None, tmpData[id]}
         /\ \A id \in Ids \cap ids : tmpData'[id] = None
         /\ \A id \in Ids : tmpData'[id] = None => tmpApp'[id] = None
BY DEF Delete, TmpInv

(* A file to which a piece is appended is not empty, and is of this title. *)
LEMMA AppendedData ==
  ASSUME TypeOK, NEW c \in Content, iTMD \in Imports, NEW p \in 0 .. Pieces
  PROVE  Appended(c, p) # None /\ Appended(c, p) \in Data
<1>1. \A n \in 1 .. Pieces : Part(c, n) # None /\ Part(c, n) \in Data
  BY ImportType, ContentType, TitleImportAssumption DEF Part, Data
<1>2. Pieces \in 1 .. Pieces /\ (p > 0 => p \in 1 .. Pieces)
  BY TitleImportAssumption
<1>3. Bad # None /\ Bad \in Data
  BY TitleImportAssumption DEF Data
<1>4. CASE tmpData[c.id] = Part(c, Pieces)
  BY <1>1, <1>2, <1>4 DEF Appended
<1>5. CASE tmpData[c.id] # Part(c, Pieces)
  <2>1. Appended(c, p) \in {Part(c, p), Bad} /\ (p = 0 => Appended(c, p) = Bad)
    BY <1>5 DEF Appended
  <2> QED  BY <1>1, <1>2, <1>3, <2>1
<1> QED  BY <1>4, <1>5

LEMMA TmpStep == TypeOK /\ TmpInv /\ [Next]_vars => TmpInv'
<1> SUFFICES ASSUME TypeOK, TmpInv, [Next]_vars  PROVE TmpInv'
  OBVIOUS
<1> USE DEF tmp, memory, Busy
<1>0. DiskType /\ TmpType /\ MemoryType /\ StepType
  BY TypeParts
<1>e. es \in EsSet
  BY <1>0 DEF StepType
<1>1. CASE UNCHANGED <<tmp, iTMD, es, client, past>>
  BY <1>1 DEF TmpInv
<1>2. CASE \E imp \in Imports : TitleStart(imp)
  <2>1. PICK imp \in Imports : TitleStart(imp)
    BY <1>2
  <2>2. /\ iTMD = None /\ iTMD' = imp /\ imp # None /\ es.pc = "idle" /\ client.n = 0
        /\ UNCHANGED <<tmpData, tmpApp, es, past>>
    BY <1>0, <2>1, TitleImportAssumption DEF TitleStart, StepType, Idle, NoClient
  <2>3. \/ tmpTmd' = imp
        \/ client' = client
    BY <2>1 DEF TitleStart
  <2> QED  BY <2>2, <2>3 DEF TmpInv
<1>3. CASE ContentStart \/ LeaveOut
  <2>1. /\ iTMD # None /\ client.n \in DOMAIN iTMD.contents
        /\ UNCHANGED <<tmp, iTMD, es>> /\ past'.lost = past.lost
    <3>1. CASE ContentStart
      BY <3>1 DEF ContentStart, Sending
    <3>2. CASE LeaveOut
      <4>1. past' = past \/ \E h : past' = [past EXCEPT !.wrong = past.wrong \cup {h}]
        BY <3>2 DEF LeaveOut
      <4>2. past'.lost = past.lost
        BY <4>1 DEF TypeOK
      <4> QED  BY <3>2, <4>2 DEF LeaveOut, Sending
    <3> QED  BY <1>3, <3>1, <3>2
  <2>2. client.n > 0
    BY <1>0, <2>1, ImportType DEF MemoryType
  <2> QED  BY <2>1, <2>2 DEF TmpInv
<1>4. CASE ContentData
  <2>1. PICK c \in Content, p \in {0, client.sent + 1} : ContentData!(c, p)
    BY <1>4 DEF ContentData
  <2>2. /\ iTMD # None /\ client.n \in DOMAIN iTMD.contents /\ c = iTMD.contents[client.n]
        /\ UNCHANGED <<iTMD, es, tmpTmd, tmpApp, past>>
    BY <2>1 DEF Sending, history
  <2>3. client.n > 0 /\ tmpTmd = iTMD
    BY <1>0, <2>2, ImportType DEF MemoryType, TmpInv
  <2>4. Appended(c, p) # None /\ c.id \in IdsOf(iTMD) /\ c.id \in Ids
    <3>1. p \in 0 .. Pieces /\ iTMD \in Imports
      BY <1>0, <2>1, <2>2, TitleImportAssumption DEF StepType, ClientSet, MemoryType
    <3>2. Appended(c, p) # None
      BY <3>1, AppendedData
    <3> QED  BY <2>2, <3>2, ContentType DEF IdsOf
  <2>5. tmpData' = tmpData \/ tmpData' = [tmpData EXCEPT ![c.id] = Appended(c, p)]
    BY <2>1
  <2> HIDE DEF Appended
  <2>6. \A id \in Ids : tmpData'[id] = tmpData[id]
          \/ (id \in IdsOf(iTMD) /\ tmpData'[id] # None)
    BY <1>0, <2>4, <2>5 DEF TmpType
  <2> QED  BY <2>2, <2>3, <2>6 DEF TmpInv
<1>5. CASE ContentFinish \/ ContentUnfinished
  <2>1. PICK c \in Content :
          /\ Sending(c) /\ UNCHANGED <<iTMD, es, tmpTmd, tmpData, past>>
          /\ \/ tmpApp' = tmpApp
             \/ /\ tmpData[c.id] # None
                /\ \E v : tmpApp' = [tmpApp EXCEPT ![c.id] = v]
    BY <1>5 DEF ContentFinish, ContentUnfinished, Finishing, history
  <2>2. iTMD # None /\ client.n \in DOMAIN iTMD.contents
    BY <2>1 DEF Sending
  <2>3. client.n > 0 /\ tmpTmd = iTMD
    BY <1>0, <2>2, ImportType DEF MemoryType, TmpInv
  <2>4. \A id \in Ids : tmpData[id] = None => tmpApp'[id] = None
    BY <1>0, <2>1 DEF TmpInv, TmpType
  <2> QED  BY <2>1, <2>2, <2>3, <2>4 DEF TmpInv
<1>6. CASE TitleFinish
  <2>1. iTMD # None /\ client.n = Len(iTMD.contents) + 1 /\ UNCHANGED <<tmp, iTMD, past>>
    BY <1>6 DEF TitleFinish, history
  <2>2. client.n > 0
    BY <1>0, <2>1, ImportType DEF MemoryType
  <2> QED  BY <2>1, <2>2 DEF TmpInv
<1>7. CASE \/ InstallKnown \/ InstallUnknown \/ InstallShared \/ Rename \/ AppendMap
           \/ InstallPrivate \/ KeepTmd
  <2>1. Busy /\ UNCHANGED <<iTMD, client, tmpTmd, tmpData>>
    BY <1>7
    DEF InstallKnown, InstallUnknown, InstallShared, Rename, AppendMap, InstallPrivate, KeepTmd,
        Installing, AtEnd
  <2>2. iTMD # None /\ tmpTmd = iTMD
    BY <1>0, <2>1 DEF TmpInv, StepType, Idle
  <2>3. \A id \in Ids : tmpApp'[id] \in {tmpApp[id], None}
    <3>1. tmpApp' = tmpApp \/ \E id : tmpApp' = [tmpApp EXCEPT ![id] = None]
      BY <1>7
      DEF InstallKnown, InstallUnknown, InstallShared, Rename, AppendMap, InstallPrivate, KeepTmd
    <3> QED  BY <1>0, <3>1 DEF TmpType
  <2>4. past.lost \subseteq past'.lost
    <3>1. ~PowerCut
      BY <2>1, <2>2, TitleImportAssumption DEF PowerCut
    <3> QED  BY <3>1, PastKept
  <2> QED  BY <2>1, <2>2, <2>3, <2>4 DEF TmpInv
<1>8. CASE InstallTmd
  <2>1. /\ es.pc = "install" /\ UNCHANGED <<iTMD, client, tmpData, tmpApp>>
        /\ UNCHANGED <<tmpTmd, es>> \/ (tmpTmd' = None /\ es' = [es EXCEPT !.pc = "cleanup"])
    BY <1>8 DEF InstallTmd, AtEnd
  <2>2. client.n = 0 /\ iTMD # None
    BY <1>0, <2>1 DEF StepType, NoClient, Idle
  <2>3. es' = es \/ es'.pc = "cleanup"
    BY <1>e, <2>1, EsSteps
  <2>4. past.lost \subseteq past'.lost
    <3>1. ~PowerCut
      BY <2>1, <2>2 DEF PowerCut
    <3> QED  BY <3>1, PastKept
  <2>5. client'.n = 0
    BY <2>1, <2>2
  <2>6. CASE UNCHANGED <<tmpTmd, es>>
    BY <2>1, <2>2, <2>4, <2>6 DEF TmpInv
  <2>7. CASE tmpTmd' = None /\ es'.pc = "cleanup"
    BY <2>1, <2>2, <2>4, <2>5, <2>7 DEF TmpInv
  <2> QED  BY <1>e, <2>1, <2>6, <2>7, EsSteps
<1>9. CASE CleanUp \/ TitleCancel
  <2>1. Delete(IdsOf(iTMD)) /\ iTMD' = None /\ UNCHANGED past
    BY <1>9 DEF CleanUp, TitleCancel, Forget, history
  <2>2. \A id \in Ids : tmpData'[id] # None =>
          tmpData[id] # None /\ id \notin IdsOf(iTMD)
    BY <2>1, DeleteStep
  <2> QED  BY <2>1, <2>2, DeleteStep DEF TmpInv
<1>10. CASE CancelForgotten
  <2>1. PICK ids : Delete(ids)
    BY <1>10 DEF CancelForgotten
  <2>2. iTMD = None /\ UNCHANGED <<iTMD, past>>
    BY <1>10 DEF CancelForgotten, history
  <2> QED  BY <2>1, <2>2, DeleteStep DEF TmpInv
<1>11. CASE TicketMissing
  <2>1. PICK c \in Content : TicketMissing!(c)
    BY <1>11 DEF TicketMissing
  <2>2. /\ iTMD # None /\ client.n \in DOMAIN iTMD.contents /\ iTMD' = None
        /\ UNCHANGED tmp /\ past'.lost = past.lost \cup {iTMD}
    BY <2>1 DEF Finishing, Sending, TypeOK
  <2>3. client.n > 0 /\ tmpTmd = iTMD
    BY <1>0, <2>2, ImportType DEF MemoryType, TmpInv
  <2> QED  BY <2>2, <2>3 DEF TmpInv
<1>12. CASE PowerCut
  BY <1>12 DEF PowerCut, TmpInv, NoData, NoApp
<1> QED
  BY <1>1, <1>2, <1>3, <1>4, <1>5, <1>6, <1>7, <1>8, <1>9, <1>10, <1>11, <1>12
  DEF Next, vars, history

LEMMA DistinctIds ==
  ASSUME NEW imp \in Imports, NEW m \in DOMAIN imp.contents, NEW n \in DOMAIN imp.contents,
         imp.contents[m].id = imp.contents[n].id
  PROVE  m = n
BY TitleImportAssumption

(* While the installer sends, what it has behind it stays as it was.       *)
LEMMA SentStays ==
  ASSUME NEW c, Sent(c), UNCHANGED contentMap, tmpApp'[c.id] = tmpApp[c.id],
         past.wrong \subseteq past'.wrong
  PROVE  Sent(c)'
BY DEF Sent, InMap

LEMMA SendStep ==
  TypeOK /\ CacheFresh /\ TmpInv /\ SendInv /\ [Next]_vars => SendInv'
<1> SUFFICES ASSUME TypeOK, CacheFresh, TmpInv, SendInv, [Next]_vars  PROVE SendInv'
  OBVIOUS
<1> USE DEF tmp, disk, memory, Positions
<1>0. DiskType /\ TmpType /\ MemoryType /\ StepType
  BY TypeParts
<1>p. Pieces \in Nat \ {0} /\ es \in EsSet /\ client \in ClientSet
  BY <1>0, TitleImportAssumption DEF StepType
<1>1. CASE UNCHANGED vars
  BY <1>1 DEF vars, history, SendInv, Sent, InMap
<1>2. CASE \E imp \in Imports : TitleStart(imp)
  <2>1. PICK imp \in Imports : TitleStart(imp)
    BY <1>2
  <2>2. iTMD = None /\ iTMD' = imp
    BY <2>1 DEF TitleStart
  <2>3. client'.n \in {0, 1} /\ client'.open = FALSE
    BY <1>0, <2>1, <2>2 DEF TitleStart, StepType, NoClient
  <2>4. Len(imp.contents) \in Nat /\ DOMAIN imp.contents = 1 .. Len(imp.contents)
    BY ImportType
  <2> QED  BY <2>2, <2>3, <2>4 DEF SendInv
<1>3. CASE ContentStart \/ ContentData \/ ContentFinish \/ ContentUnfinished \/ LeaveOut
  <2>1. /\ es.pc = "idle" /\ iTMD # None /\ iTMD \in Imports
        /\ client.n \in DOMAIN iTMD.contents
        /\ UNCHANGED <<contentMap, iTMD, es>>
    BY <1>0, <1>3
    DEF ContentStart, ContentData, ContentFinish, ContentUnfinished, LeaveOut, Finishing,
        Sending, Idle, MemoryType
  <2>2. /\ Len(iTMD.contents) \in Nat /\ DOMAIN iTMD.contents = 1 .. Len(iTMD.contents)
        /\ \A n \in DOMAIN iTMD.contents : iTMD.contents[n] \in Content
    BY <2>1, ImportType
  <2> DEFINE c == iTMD.contents[client.n]
  <2>3. c \in Content /\ c.id \in Ids /\ c.hash # None /\ c.hash # Bad
    BY <2>1, <2>2, ContentType
  <2>4. \A n \in Positions : iTMD.contents[n].id \in Ids
    BY <2>2, ContentType
  <2>5. \A n \in Positions : iTMD.contents[n].id = c.id => n = client.n
    BY <2>1, DistinctIds
  <2>6. past.wrong \subseteq past'.wrong /\ \A h : InMap(h)' <=> InMap(h)
    BY <2>1, PastKept DEF InMap
  <2>7. \A n \in Positions :
          /\ n < client.n + 1 => n < client.n \/ n = client.n
          /\ n < client.n => iTMD.contents[n].id # c.id
    BY <2>1, <2>2, <2>5
  <2>8. ASSUME \A id \in Ids : id # c.id => tmpApp'[id] = tmpApp[id]
        PROVE  \A n \in Positions : n < client.n => Sent(iTMD.contents[n])'
    BY <2>1, <2>4, <2>6, <2>7, <2>8, SentStays DEF SendInv
  <2>9. CASE ContentStart
    <3>1. /\ UNCHANGED <<tmpData, tmpApp>>
          /\ SkipContent' => c.shared /\ Known(c.hash)
          /\ client' = [client EXCEPT !.open = TRUE, !.sent = 0]
      BY <2>9 DEF ContentStart, Sending
    <3>2. client'.n = client.n /\ client'.open = TRUE /\ client'.sent = 0
      BY <1>p, <3>1 DEF ClientSet
    <3>3. SkipContent' => c.shared /\ InMap(c.hash)'
      <4>1. PICK h : h = c.hash
        OBVIOUS
      <4>2. Known(h) <=> InMap(h)
        BY KnownIsInMap
      <4>3. InMap(h)' <=> InMap(h)
        BY <2>1 DEF InMap
      <4>4. InMap(c.hash)' <=> InMap(h)'
        BY <2>9, <4>1 DEF ContentStart, InMap
      <4> QED  BY <3>1, <4>1, <4>2, <4>3, <4>4
    <3>4. \A n \in Positions : n < client.n => Sent(iTMD.contents[n])'
      BY <2>8, <3>1
    <3>5. client.n \in 0 .. Len(iTMD.contents) + 1
      BY <2>1 DEF SendInv
    <3> QED  BY <2>1, <3>2, <3>3, <3>4, <3>5 DEF SendInv
  <2>10. CASE ContentData
    <3>1. PICK p \in {0, client.sent + 1} :
            /\ client.open /\ client.sent < Pieces
            /\ client' = [client EXCEPT !.sent = client.sent + 1]
            /\ tmpData' = IF SkipContent THEN tmpData
                          ELSE [tmpData EXCEPT ![c.id] = Appended(c, p)]
            /\ UNCHANGED <<tmpApp, SkipContent>>
      BY <2>10 DEF ContentData, Sending
    <3>2. client'.n = client.n /\ client'.open = TRUE
      BY <1>p, <3>1 DEF ClientSet
    <3>3. \A n \in Positions : n < client.n => Sent(iTMD.contents[n])'
      BY <2>8, <3>1
    <3>4. SkipContent => c.shared /\ InMap(c.hash)'
      BY <2>1, <2>6, <3>1 DEF SendInv
    <3>5. ~SkipContent => tmpData'[c.id] # None
      <4>1. Appended(c, p) # None
        <5>1. p \in 0 .. Pieces
          BY <1>p, <3>1 DEF ClientSet
        <5> QED  BY <2>1, <2>3, <5>1, AppendedData
      <4> HIDE DEF Appended
      <4> QED  BY <1>0, <2>3, <3>1, <4>1 DEF TmpType
    <3>6. client.n \in 0 .. Len(iTMD.contents) + 1
      BY <2>1 DEF SendInv
    <3> QED  BY <2>1, <3>1, <3>2, <3>3, <3>4, <3>5, <3>6 DEF SendInv
  <2>11. CASE ContentFinish
    <3> DEFINE nodata  == SkipContent \/ tmpData[c.id] = None
               decrypt == ~nodata /\ tmpApp[c.id] = None
               success == nodata \/ (decrypt /\ Accepted(c))
    <3>1. /\ UNCHANGED <<tmpData, SkipContent>> /\ client.open
          /\ client.sent = Pieces \/ (client.sent = 0 /\ c.optional)
          /\ tmpApp' = IF decrypt THEN [tmpApp EXCEPT ![c.id] = Decrypted(c)] ELSE tmpApp
          /\ client' = [n |-> IF success THEN client.n + 1 ELSE client.n,
                        open |-> FALSE, sent |-> 0]
      BY <2>11 DEF ContentFinish, Finishing, Sending
    <3>2. client'.n = (IF success THEN client.n + 1 ELSE client.n) /\ client'.open = FALSE
      BY <3>1
    <3>3. \A n \in Positions : n < client.n => Sent(iTMD.contents[n])'
      <4>1. \A id \in Ids : id # c.id => tmpApp'[id] = tmpApp[id]
        BY <1>0, <2>3, <3>1 DEF TmpType
      <4> QED  BY <2>8, <4>1
    <3>4. success =>
            \/ c.shared /\ InMap(c.hash)
            \/ tmpApp'[c.id] = c.hash
            \/ c.optional /\ tmpApp'[c.id] = None
      <4>1. CASE SkipContent
        BY <2>1, <3>1, <4>1 DEF SendInv
      <4>2. CASE ~SkipContent /\ tmpData[c.id] = None
        <5>1. ~(client.sent > 0)
          BY <2>1, <3>1, <4>2 DEF SendInv
        <5>2. c.optional
          BY <1>p, <3>1, <5>1
        <5>3. tmpApp' = tmpApp /\ tmpApp[c.id] = None
          BY <2>3, <3>1, <4>2 DEF TmpInv
        <5> QED  BY <5>2, <5>3
      <4>3. CASE ~SkipContent /\ tmpData[c.id] # None
        <5> HAVE success
        <5>1. tmpApp[c.id] = None /\ Decrypted(c) = c.hash
          BY <4>3 DEF Accepted
        <5>2. tmpApp' = [tmpApp EXCEPT ![c.id] = Decrypted(c)]
          BY <3>1, <4>3, <5>1
        <5> HIDE DEF Decrypted
        <5>3. tmpApp'[c.id] = c.hash
          BY <1>0, <2>3, <5>1, <5>2 DEF TmpType
        <5> QED  BY <5>3
      <4> QED  BY <4>1, <4>2, <4>3
    <3> HIDE DEF success
    <3>5. success => \A n \in Positions : n = client.n => Sent(iTMD.contents[n])'
      <4>1. PICK d : d = c
        OBVIOUS
      <4>2. success => Sent(d)'
        BY <2>6, <3>4, <4>1 DEF Sent
      <4>3. \A n \in Positions : n = client.n => (iTMD.contents[n])' = d
        BY <2>1, <4>1
      <4>4. \A n \in Positions : n = client.n /\ Sent(d)' => Sent(iTMD.contents[n])'
        BY <4>3 DEF Sent
      <4> QED  BY <4>2, <4>4
    <3>6. \A n \in Positions : n < client'.n => Sent(iTMD.contents[n])'
      BY <2>7, <3>2, <3>3, <3>5
    <3>7. client'.n \in 0 .. Len(iTMD.contents) + 1
      BY <2>1, <2>2, <3>2
    <3> QED  BY <2>1, <3>2, <3>6, <3>7 DEF SendInv
  <2>12. CASE ContentUnfinished
    <3>1. /\ client' = [client EXCEPT !.open = FALSE, !.sent = 0]
          /\ tmpApp' = tmpApp \/ tmpApp' = [tmpApp EXCEPT ![c.id] = Bad]
      BY <2>12 DEF ContentUnfinished, Finishing, Sending
    <3>2. client'.n = client.n /\ client'.open = FALSE
      BY <1>p, <3>1 DEF ClientSet
    <3>3. \A id \in Ids : id # c.id => tmpApp'[id] = tmpApp[id]
      BY <1>0, <2>3, <3>1 DEF TmpType
    <3>4. client.n \in 0 .. Len(iTMD.contents) + 1
      BY <2>1 DEF SendInv
    <3>5. \A n \in Positions : n < client.n => Sent(iTMD.contents[n])'
      BY <2>8, <3>3
    <3> QED  BY <2>1, <3>2, <3>4, <3>5 DEF SendInv
  <2>13. CASE LeaveOut
    <3>1. /\ UNCHANGED tmpApp
          /\ c.optional /\ client.open = FALSE
          /\ client' = [client EXCEPT !.n = client.n + 1]
          /\ past' = IF tmpApp[c.id] \in {None, c.hash} THEN past
                     ELSE [past EXCEPT !.wrong = past.wrong \cup {c.hash}]
      <4>1. client.open \in BOOLEAN
        BY <1>p DEF ClientSet
      <4> QED  BY <2>13, <4>1 DEF LeaveOut, Sending
    <3>2. client'.n = client.n + 1 /\ client'.open = FALSE
      BY <1>p, <3>1 DEF ClientSet
    <3>3. tmpApp[c.id] \in {None, c.hash} \/ c.hash \in past'.wrong
      BY <3>1 DEF TypeOK
    <3>4. \A n \in Positions : n = client.n => Sent(iTMD.contents[n])'
      <4>1. PICK d : d = c
        OBVIOUS
      <4>2. Sent(d)'
        BY <3>1, <3>3, <4>1 DEF Sent
      <4>3. \A n \in Positions : n = client.n => (iTMD.contents[n])' = d
        BY <2>1, <4>1
      <4>4. \A n \in Positions : n = client.n /\ Sent(d)' => Sent(iTMD.contents[n])'
        BY <4>3 DEF Sent
      <4> QED  BY <4>2, <4>4
    <3>5. \A n \in Positions : n < client.n => Sent(iTMD.contents[n])'
      BY <2>8, <3>1
    <3>6. client.n + 1 \in 0 .. Len(iTMD.contents) + 1
      BY <2>1, <2>2
    <3>7. \A n \in Positions : n < client.n + 1 => Sent(iTMD.contents[n])'
      BY <2>7, <3>4, <3>5
    <3> HIDE DEF c
    <3> QED  BY <2>1, <3>2, <3>6, <3>7 DEF SendInv
  <2> QED  BY <1>3, <2>9, <2>10, <2>11, <2>12, <2>13
<1>4. CASE \/ TitleFinish \/ InstallKnown \/ InstallUnknown \/ InstallShared \/ Rename
           \/ AppendMap \/ InstallPrivate \/ InstallTmd \/ KeepTmd
  <2>1. es'.pc # "idle"
    <3>1. CASE TitleFinish
      BY <3>1 DEF TitleFinish, Idle
    <3>2. CASE \/ InstallKnown \/ InstallUnknown \/ InstallShared \/ Rename \/ AppendMap
               \/ InstallPrivate \/ InstallTmd \/ KeepTmd
      <4>1. es.pc # "idle"
        BY <3>2 DEF InstallKnown, InstallUnknown, InstallShared, Rename, AppendMap,
                    InstallPrivate, Installing, InstallTmd, KeepTmd, AtEnd
      <4>2. \/ es' = es
            \/ \E r, g : es' = [es EXCEPT !.pc = "install", !.i = es.i + 1, !.r = r,
                                          !.fd = FALSE, !.gap = g]
            \/ \E r : es' = [es EXCEPT !.pc = "install", !.i = es.i + 1, !.r = r, !.fd = FALSE]
            \/ \E fd : es' = [es EXCEPT !.pc = "rename", !.fd = fd]
            \/ es' = [es EXCEPT !.pc = "append"]
            \/ es' = [es EXCEPT !.pc = "cleanup", !.r = "missing"]
            \/ es' = [es EXCEPT !.pc = "cleanup"]
        BY <3>2 DEF InstallKnown, InstallUnknown, InstallShared, Rename, AppendMap,
                    InstallPrivate, InstallTmd, KeepTmd, NextContent, WithoutMap
      <4> QED  BY <1>p, <4>1, <4>2 DEF EsSet
    <3> QED  BY <1>4, <3>1, <3>2
  <2> QED  BY <2>1 DEF SendInv
<1>5. CASE CleanUp \/ TitleCancel \/ TicketMissing \/ CancelForgotten \/ PowerCut
  BY <1>5 DEF CleanUp, TitleCancel, TicketMissing, CancelForgotten, PowerCut, Forget, SendInv
<1> QED
  BY <1>1, <1>2, <1>3, <1>4, <1>5 DEF Next


SharedKept ==
  /\ Len(contentMap) <= Len(contentMap')
  /\ \A k \in DOMAIN contentMap :
       /\ contentMap'[k] = contentMap[k]
       /\ \/ k - 1 \in DOMAIN shared1 =>
               k - 1 \in DOMAIN shared1' /\ shared1'[k - 1] = shared1[k - 1]
          \/ k = 1 /\ Rename /\ ~es.fd

(* A new file gets the number after the last entry, if the map is open.    *)
LEMMA SharedStep == TypeOK /\ [Next]_vars => SharedKept
<1> SUFFICES ASSUME TypeOK, [Next]_vars  PROVE SharedKept
  OBVIOUS
<1> USE DEF disk
<1>0. DiskType /\ TmpType /\ MemoryType /\ StepType
  BY TypeParts
<1>m. /\ contentMap \in Seq(Hashes) /\ Len(contentMap) \in Nat
      /\ DOMAIN contentMap = 1 .. Len(contentMap)
  BY <1>0 DEF DiskType
<1>1. CASE UNCHANGED <<shared1, contentMap>>
  BY <1>m, <1>1 DEF SharedKept
<1>2. CASE Rename
  <2>1. /\ UNCHANGED contentMap
        /\ \/ UNCHANGED shared1
           \/ \E v : shared1' = [k \in DOMAIN shared1 \cup {NewFile} |->
                                   IF k = NewFile THEN v ELSE shared1[k]]
           \/ shared1' = [k \in DOMAIN shared1 \ {NewFile} |-> shared1[k]]
    BY <1>2 DEF Rename
  <2>2. \A k \in DOMAIN contentMap : k - 1 = NewFile => k = 1 /\ ~es.fd
    BY <1>m DEF NewFile, Index
  <2>3. \A k \in DOMAIN contentMap : k - 1 \in DOMAIN shared1 /\ k - 1 # NewFile =>
          k - 1 \in DOMAIN shared1' /\ shared1'[k - 1] = shared1[k - 1]
    BY <2>1
  <2> QED  BY <1>2, <1>m, <2>1, <2>2, <2>3 DEF SharedKept
<1>3. CASE AppendMap
  <2>1. /\ es.pc = "append" /\ UNCHANGED shared1
        /\ contentMap' \in {contentMap, Append(contentMap, iTMD.contents[es.i].hash)}
    BY <1>3 DEF AppendMap
  <2>2. iTMD \in Imports /\ es.i \in DOMAIN iTMD.contents
    BY <1>0, <2>1 DEF StepType, MemoryType, Idle
  <2>3. iTMD.contents[es.i].hash \in Hashes
    BY <2>2, ImportType, ContentType
  <2>4. PICK h \in Hashes : h = iTMD.contents[es.i].hash
    BY <2>3
  <2>5. contentMap' = contentMap \/ contentMap' = Append(contentMap, h)
    BY <2>1, <2>4
  <2>6. /\ Len(contentMap) <= Len(contentMap')
        /\ \A k \in DOMAIN contentMap : contentMap'[k] = contentMap[k]
    BY <1>m, <2>5
  <2> QED  BY <2>1, <2>6 DEF SharedKept
<1> QED
  BY <1>1, <1>2, <1>3
  DEF Next, vars, TitleStart, ContentStart, ContentData, ContentFinish, ContentUnfinished,
      TicketMissing, LeaveOut, TitleFinish, InstallKnown, InstallUnknown, InstallShared,
      InstallPrivate, InstallTmd, KeepTmd, CleanUp, TitleCancel, CancelForgotten, PowerCut

LEMMA MapGrows ==
  ASSUME TypeOK, TypeOK', SharedKept, NEW h, InMap(h)  PROVE InMap(h)'
<1>1. PICK k \in DOMAIN contentMap : contentMap[k] = h
  BY DEF InMap
<1>2. DOMAIN contentMap = 1 .. Len(contentMap) /\ DOMAIN contentMap' = 1 .. Len(contentMap')
      /\ Len(contentMap) \in Nat /\ Len(contentMap') \in Nat
  BY DEF TypeOK
<1>3. k \in DOMAIN contentMap' /\ contentMap'[k] = h
  BY <1>1, <1>2 DEF SharedKept
<1> QED  BY <1>3 DEF InMap

(* A rename that could overwrite the file of an entry is noted.            *)
LEMMA RenameNoted ==
  ASSUME TypeOK, TypeOK', Rename, ~es.fd, shared1' # shared1
  PROVE  past'.replaced
<1>1. past \in [wrong : SUBSET Hashes, hollow : SUBSET Titles,
                lost : SUBSET Imports, replaced : BOOLEAN]
  BY DEF TypeOK
<1>2. past' = [past EXCEPT !.replaced = past.replaced \/ ~es.fd]
  BY DEF Rename
<1> QED  BY <1>1, <1>2

(* A map entry is written when its file is there, and no other entry has   *)
(* the hash.                                                               *)
LEMMA MapStep ==
  TypeOK /\ TypeOK' /\ InstallInv /\ MapSound /\ NoDuplicates /\ [Next]_vars
    => MapSound' /\ NoDuplicates'
<1> SUFFICES ASSUME TypeOK, TypeOK', InstallInv, MapSound, NoDuplicates, [Next]_vars
             PROVE  MapSound' /\ NoDuplicates'
  OBVIOUS
<1>0. SharedKept /\ past.wrong \subseteq past'.wrong /\ (past.replaced => past'.replaced)
  BY SharedStep, PastKept
<1>1. /\ contentMap \in Seq(Hashes) /\ Len(contentMap) \in Nat
      /\ DOMAIN contentMap = 1 .. Len(contentMap)
  BY DEF TypeOK
<1>2. ASSUME NEW k \in DOMAIN contentMap
      PROVE  /\ contentMap'[k] = contentMap[k]
             /\ \/ k = 1 /\ past'.replaced
                \/ /\ k - 1 \in DOMAIN shared1'
                   /\ shared1'[k - 1] = contentMap[k] \/ contentMap[k] \in past'.wrong
  <2>1. \/ k = 1 /\ past.replaced
        \/ /\ k - 1 \in DOMAIN shared1
           /\ shared1[k - 1] = contentMap[k] \/ contentMap[k] \in past.wrong
    BY DEF MapSound
  <2>2. CASE k = 1 /\ Rename /\ ~es.fd /\ shared1' # shared1
    BY <1>0, <2>2, RenameNoted DEF SharedKept
  <2>3. CASE ~(k = 1 /\ Rename /\ ~es.fd /\ shared1' # shared1)
    BY <1>0, <2>1, <2>3 DEF SharedKept
  <2> QED  BY <2>2, <2>3
<1>3. CASE UNCHANGED contentMap
  BY <1>2, <1>3 DEF MapSound, NoDuplicates
<1>4. CASE AppendMap /\ es.fd
  <2> DEFINE h == iTMD.contents[es.i].hash
  <2>1. es.pc = "append" /\ contentMap' = Append(contentMap, h) /\ UNCHANGED <<shared1, past>>
    BY <1>4 DEF AppendMap, history
  <2>2. iTMD \in Imports /\ es.i \in DOMAIN iTMD.contents
    BY <2>1 DEF TypeOK, Idle
  <2>3. h \in Hashes
    BY <2>2, ImportType, ContentType
  <2>4. ~InMap(h) /\ Index \in DOMAIN shared1 /\ (shared1[Index] = h \/ h \in past.wrong)
    BY <1>4, <2>1 DEF InstallInv, Busy
  <2> HIDE DEF h
  <2>5. /\ DOMAIN contentMap' = 1 .. Len(contentMap) + 1
        /\ contentMap'[Len(contentMap) + 1] = h
        /\ \A k \in DOMAIN contentMap : contentMap'[k] = contentMap[k]
    BY <1>1, <2>1, <2>3
  <2>6. (Len(contentMap) + 1) - 1 = Index
    BY <1>1 DEF Index
  <2>7. \A k \in DOMAIN contentMap' : k \in DOMAIN contentMap \/ k = Len(contentMap) + 1
    BY <1>1, <2>5
  <2>8. MapSound'
    BY <1>2, <2>1, <2>4, <2>5, <2>6, <2>7 DEF MapSound
  <2>9. NoDuplicates'
    BY <2>4, <2>5, <2>7 DEF NoDuplicates, InMap
  <2> QED  BY <2>8, <2>9
<1>5. CASE AppendMap /\ ~es.fd
  BY <1>3, <1>5 DEF AppendMap
<1> QED
  BY <1>3, <1>4, <1>5
  DEF Next, vars, disk, TitleStart, ContentStart, ContentData, ContentFinish, ContentUnfinished,
      TicketMissing, LeaveOut, TitleFinish, InstallKnown, InstallUnknown, InstallShared, Rename,
      InstallPrivate, InstallTmd, KeepTmd, CleanUp, TitleCancel, CancelForgotten, PowerCut

(* The contents of a title are written right, or a wrong one was noted;    *)
(* one that is removed leaves its title hollow.                            *)
ContentKept ==
  \A t \in Titles, id \in Ids :
    content[t][id] # None =>
      \/ content'[t][id] = content[t][id]
      \/ /\ content'[t][id] = None /\ t \in past'.hollow
         /\ t = iTMD.title /\ es.pc = "install" /\ id = iTMD.contents[es.i].id

LEMMA ContentStep ==
  TypeOK /\ InstallInv /\ ContentRight /\ [Next]_vars => ContentRight' /\ ContentKept
<1> SUFFICES ASSUME TypeOK, InstallInv, ContentRight, [Next]_vars
             PROVE  ContentRight' /\ ContentKept
  OBVIOUS
<1>0. /\ content \in [Titles -> [Ids -> Hashes \cup {Bad, None}]]
      /\ past \in [wrong : SUBSET Hashes, hollow : SUBSET Titles,
                   lost : SUBSET Imports, replaced : BOOLEAN]
  BY DEF TypeOK
<1>w. past.wrong \subseteq past'.wrong
  BY PastKept
<1>1. CASE UNCHANGED content
  BY <1>w, <1>1 DEF ContentRight, ContentKept
<1>2. CASE InstallPrivate
  <2>1. PICK c \in Content : InstallPrivate!(c)
    BY <1>2 DEF InstallPrivate
  <2> DEFINE t == iTMD.title
  <2>2. /\ es.pc = "install" /\ es.i \in DOMAIN iTMD.contents /\ c = iTMD.contents[es.i]
        /\ ~c.shared
    BY <2>1 DEF Installing
  <2>3. iTMD \in Imports /\ t \in Titles /\ c.id \in Ids
    BY <2>2, ImportType, ContentType DEF TypeOK, Idle
  <2>4. es.i >= es.i
    BY DEF TypeOK
  <2>5. tmpApp[c.id] \in {None, c.hash} \/ c.hash \in past.wrong
    BY <2>2, <2>4 DEF InstallInv, Positions, Busy, Sent
  <2>6. \/ content' = content
        \/ /\ content[t][c.id] = None /\ tmpApp[c.id] # None
           /\ content' = [content EXCEPT ![t][c.id] = tmpApp[c.id]]
        \/ /\ content' = [content EXCEPT ![t][c.id] = None]
           /\ past' = [past EXCEPT !.hollow = past.hollow \cup {t}]
    BY <2>1
  <2>7. \A u \in Titles, id \in Ids : u # t \/ id # c.id => content'[u][id] = content[u][id]
    BY <1>0, <2>3, <2>6
  <2>8. \/ content'[t][c.id] = content[t][c.id]
        \/ content[t][c.id] = None /\ content'[t][c.id] = tmpApp[c.id]
        \/ content'[t][c.id] = None /\ t \in past'.hollow
    BY <1>0, <2>3, <2>6
  <2>9. ASSUME NEW imp \in Imports, NEW n \in DOMAIN imp.contents
        PROVE  \/ content'[imp.title][imp.contents[n].id] \in {None, imp.contents[n].hash}
               \/ imp.contents[n].hash \in past'.wrong
    <3>1. imp.title \in Titles /\ imp.contents[n].id \in Ids
      BY ImportType, ContentType
    <3>2. \/ content[imp.title][imp.contents[n].id] \in {None, imp.contents[n].hash}
          \/ imp.contents[n].hash \in past.wrong
      BY DEF ContentRight
    <3>3. CASE imp.title # t \/ imp.contents[n].id # c.id
      BY <1>w, <2>7, <3>1, <3>2, <3>3
    <3>4. CASE imp.title = t /\ imp.contents[n].id = c.id
      <4>1. imp.contents[n].hash = c.hash
        BY <2>2, <2>3, <3>4, TitleImportAssumption
      <4> QED  BY <1>w, <2>5, <2>8, <3>2, <3>4, <4>1
    <3> QED  BY <3>3, <3>4
  <2>10. ContentKept
    BY <2>2, <2>7, <2>8 DEF ContentKept
  <2> QED  BY <2>9, <2>10 DEF ContentRight
<1> QED
  BY <1>1, <1>2
  DEF Next, vars, disk, TitleStart, ContentStart, ContentData, ContentFinish, ContentUnfinished,
      TicketMissing, LeaveOut, TitleFinish, InstallKnown, InstallUnknown, InstallShared, Rename,
      AppendMap, InstallTmd, KeepTmd, CleanUp, TitleCancel, CancelForgotten, PowerCut

LEMMA InstallStep ==
  TypeOK /\ TypeOK' /\ CacheFresh /\ SendInv /\ InstallInv /\ ContentRight /\ [Next]_vars
    => InstallInv'
<1> SUFFICES ASSUME TypeOK, TypeOK', CacheFresh, SendInv, InstallInv, ContentRight, [Next]_vars
             PROVE  InstallInv'
  OBVIOUS
<1> USE DEF tmp, disk, memory, Positions, Busy
<1>0. /\ \A h : InMap(h) => InMap(h)'
      /\ ContentKept /\ past.wrong \subseteq past'.wrong
  BY SharedStep, MapGrows, ContentStep, PastKept
<1>t. /\ tmpApp \in [Ids -> Hashes \cup {Bad, None}] /\ es \in EsSet
      /\ content \in [Titles -> [Ids -> Hashes \cup {Bad, None}]]
      /\ contentMap \in Seq(Hashes)
      /\ iTMD = None => es.pc = "idle"
  BY DEF TypeOK, Idle, EsSet
<1>1. CASE UNCHANGED <<shared1, contentMap, content, tmpApp, iTMD, es, past>>
  BY <1>1 DEF InstallInv, Sent, Placed, InMap, Index
<1>2. CASE es'.pc \in {"idle", "cleanup"}
  BY <1>2 DEF InstallInv
<1>3. CASE TitleFinish
  <2>1. /\ es.pc = "idle" /\ iTMD # None /\ client.n = Len(iTMD.contents) + 1
        /\ es'.i = 1 /\ es'.pc = "install" /\ UNCHANGED <<contentMap, tmpApp, iTMD, past>>
    BY <1>3 DEF TitleFinish, Idle, history
  <2>2. DOMAIN iTMD.contents = 1 .. Len(iTMD.contents) /\ Len(iTMD.contents) \in Nat
    BY <2>1, ImportType DEF TypeOK
  <2>3. \A n \in Positions : n < client.n /\ ~(n < 1)
    BY <2>1, <2>2
  <2>4. \A n \in Positions : Sent(iTMD.contents[n])'
    BY <1>0, <2>1, <2>3 DEF SendInv, Sent
  <2> QED  BY <2>1, <2>3, <2>4 DEF InstallInv
<1>4. CASE \/ InstallKnown \/ InstallUnknown \/ InstallShared \/ Rename \/ AppendMap
           \/ InstallPrivate
  <2> DEFINE c == iTMD.contents[es.i]
  <2>1. /\ es.pc \in {"install", "rename", "append"} /\ es.i \in DOMAIN iTMD.contents
        /\ UNCHANGED iTMD
    BY <1>4
    DEF InstallKnown, InstallUnknown, InstallShared, Rename, AppendMap, InstallPrivate,
        Installing, TypeOK
  <2>2. iTMD \in Imports /\ iTMD.title \in Titles
    BY <1>t, <2>1, ImportType DEF TypeOK
  <2>3. /\ Len(iTMD.contents) \in Nat /\ DOMAIN iTMD.contents = 1 .. Len(iTMD.contents)
        /\ \A n \in Positions : iTMD.contents[n] \in Content
    BY <2>2, ImportType
  <2>4. \A n \in Positions : iTMD.contents[n].id \in Ids /\ iTMD.contents[n].hash # None
    BY <2>3, ContentType
  <2>5. \A n \in Positions : iTMD.contents[n].id = c.id => n = es.i
    BY <2>1, <2>2, DistinctIds
  <2>6. \A id \in Ids : id # c.id => tmpApp'[id] = tmpApp[id]
    <3>1. tmpApp' = tmpApp \/ tmpApp' = [tmpApp EXCEPT ![c.id] = None]
      BY <1>4
      DEF InstallKnown, InstallUnknown, InstallShared, Rename, AppendMap, InstallPrivate,
          Installing
    <3> QED  BY <1>t, <3>1
  <2>7. \A n \in Positions : n # es.i /\ Sent(iTMD.contents[n]) => Sent(iTMD.contents[n])'
    BY <1>0, <2>1, <2>4, <2>5, <2>6 DEF Sent
  <2>8. ASSUME es.gap => es'.gap
        PROVE  \A n \in Positions : n < es.i => Placed(iTMD.contents[n])'
    <3> SUFFICES ASSUME NEW n \in Positions, n < es.i  PROVE Placed(iTMD.contents[n])'
      OBVIOUS
    <3>1. PICK e : e = iTMD.contents[n]
      OBVIOUS
    <3>2. Placed(e) /\ e.id \in Ids /\ e.hash # None /\ e.id # c.id
      BY <2>1, <2>3, <2>4, <2>5, <3>1 DEF InstallInv
    <3>3. content[iTMD.title][e.id] # None =>
            content'[iTMD.title][e.id] = content[iTMD.title][e.id]
      BY <1>0, <2>2, <3>2 DEF ContentKept
    <3>4. Placed(e)'
      BY <1>0, <2>1, <2>8, <3>2, <3>3 DEF Placed
    <3>5. (iTMD.contents[n])' = e
      BY <2>1, <3>1
    <3> QED  BY <3>4, <3>5 DEF Placed
  <2>9. \A n \in Positions : n > es.i => Sent(iTMD.contents[n])'
    BY <2>1, <2>3, <2>7 DEF InstallInv
  <2>10. es.pc # "append" => Sent(c)
    BY <2>1, <2>3 DEF InstallInv
  <2>11. PICK d \in Content : d = c
    BY <2>1, <2>3
  <2>12. ASSUME Placed(d)', es.gap => es'.gap, es'.pc = "install", es'.i = es.i + 1
         PROVE  InstallInv'
    <3>1. \A n \in Positions : n < es.i + 1 => n < es.i \/ n = es.i
      BY <2>1, <2>3
    <3>2. \A n \in Positions : n >= es.i + 1 => n > es.i
      BY <2>1, <2>3
    <3>3. \A n \in Positions : n = es.i => Placed(iTMD.contents[n])'
      <4>1. \A n \in Positions : n = es.i => (iTMD.contents[n])' = d
        BY <2>1, <2>11
      <4> QED  BY <2>12, <4>1 DEF Placed
    <3>4. iTMD'.contents = iTMD.contents
      BY <2>1
    <3> QED  BY <2>8, <2>9, <2>12, <3>1, <3>2, <3>3, <3>4 DEF InstallInv
  <2>13. \A r \in {"fatal", "ok", "missing"} : NextContent(r) \/ WithoutMap(r) =>
           /\ es'.pc = "install" /\ es'.i = es.i + 1
           /\ es.gap \/ WithoutMap(r) => es'.gap
    BY <1>t, EsSteps
  <2>14. /\ d.id \in Ids /\ d.hash # None /\ d.hash # Bad /\ d.hash \in Hashes
         /\ d.shared \in BOOLEAN /\ d.optional \in BOOLEAN
    BY ContentType
  <2>15. \A e \in Content : Installing(e) => e = d /\ es.pc = "install"
    BY <2>11 DEF Installing
  <2>16. es.r \in {"fatal", "ok", "missing"}
    BY <1>t DEF EsSet
  <2>17. es.pc \in {"rename", "append"} => d.shared /\ ~InMap(d.hash)
    BY <2>11 DEF InstallInv
  <2> HIDE DEF c
  <2>18. CASE InstallKnown
    <3>1. d.shared /\ Known(d.hash) /\ NextContent(es.r)
      BY <2>15, <2>18 DEF InstallKnown
    <3>2. InMap(d.hash)
      BY <3>1, KnownIsInMap
    <3>3. Placed(d)'
      BY <1>0, <3>1, <3>2 DEF Placed
    <3> QED  BY <2>12, <2>13, <2>16, <3>1, <3>3
  <2>19. CASE InstallUnknown
    <3>1. d.shared /\ WithoutMap(es.r)
      BY <2>15, <2>19 DEF InstallUnknown
    <3>2. Placed(d)'
      BY <2>13, <2>16, <3>1 DEF Placed
    <3> QED  BY <2>12, <2>13, <2>16, <3>1, <3>2
  <2>20. CASE InstallShared
    <3>1. PICK fd \in BOOLEAN :
            /\ es.pc = "install" /\ d.shared /\ ~Known(d.hash)
            /\ UNCHANGED <<shared1, contentMap, content, tmpApp>>
            /\ es' = [es EXCEPT !.pc = "rename", !.fd = fd]
      BY <2>15, <2>20 DEF InstallShared
    <3>2. es'.pc = "rename" /\ es'.i = es.i /\ es'.gap = es.gap
      BY <1>t, <3>1, EsSteps
    <3>3. ~InMap(d.hash)'
      BY <3>1, KnownIsInMap DEF InMap
    <3>4. \A n \in Positions : n = es.i => Sent(iTMD.contents[n])'
      BY <1>0, <2>1, <2>10, <2>11, <3>1 DEF Sent, c
    <3>5. \A n \in Positions : n >= es.i => n > es.i \/ n = es.i
      BY <2>1, <2>3
    <3>6. iTMD'.contents[es'.i] = d
      BY <2>1, <2>11, <3>2 DEF c
    <3> QED  BY <2>1, <2>8, <2>9, <3>1, <3>2, <3>3, <3>4, <3>5, <3>6 DEF InstallInv
  <2>21. CASE Rename
    <3>1. /\ es.pc = "rename" /\ UNCHANGED <<contentMap, content>>
          /\ \/ tmpApp[d.id] = None /\ d.optional /\ NextContent("missing")
             \/ es' = [es EXCEPT !.pc = "cleanup", !.r = "missing"]
             \/ UNCHANGED <<tmpApp, es>>
             \/ /\ tmpApp[d.id] # None
                /\ shared1' = [k \in DOMAIN shared1 \cup {NewFile} |->
                                 IF k = NewFile THEN tmpApp[d.id] ELSE shared1[k]]
                /\ es' = [es EXCEPT !.pc = "append"]
      BY <2>11, <2>21 DEF Rename, c
    <3>2. CASE tmpApp[d.id] = None /\ d.optional /\ NextContent("missing")
      <4>1. Placed(d)'
        BY <3>2 DEF Placed
      <4> QED  BY <2>12, <2>13, <3>2, <4>1
    <3>3. CASE es' = [es EXCEPT !.pc = "cleanup", !.r = "missing"]
      <4>1. es'.pc = "cleanup"
        BY <1>t, <3>3, EsSteps
      <4> QED  BY <1>2, <4>1
    <3>4. CASE UNCHANGED <<tmpApp, es>>
      <4>1. \A n \in Positions : n = es.i => Sent(iTMD.contents[n])'
        BY <1>0, <2>1, <2>10, <2>11, <3>1, <3>4 DEF Sent, c
      <4>2. \A n \in Positions : n >= es.i => n > es.i \/ n = es.i
        BY <2>1, <2>3
      <4>3. ~InMap(d.hash)' /\ d.shared
        BY <2>17, <3>1 DEF InMap
      <4>4. iTMD'.contents[es'.i] = d
        BY <2>1, <2>11, <3>4 DEF c
      <4> QED  BY <2>1, <2>8, <2>9, <3>1, <3>4, <4>1, <4>2, <4>3, <4>4 DEF InstallInv
    <3>5. CASE /\ tmpApp[d.id] # None
               /\ shared1' = [k \in DOMAIN shared1 \cup {NewFile} |->
                                IF k = NewFile THEN tmpApp[d.id] ELSE shared1[k]]
               /\ es' = [es EXCEPT !.pc = "append"]
      <4>1. es'.pc = "append" /\ es'.i = es.i /\ es'.fd = es.fd /\ es'.gap = es.gap
        BY <1>t, <3>5, EsSteps
      <4>2. tmpApp[d.id] = d.hash \/ d.hash \in past'.wrong
        BY <1>0, <2>10, <2>11, <2>17, <3>1, <3>5 DEF Sent
      <4>3. es.fd => Index' \in DOMAIN shared1' /\ shared1'[Index'] = tmpApp[d.id]
        BY <3>1, <3>5 DEF NewFile, Index
      <4>4. ~InMap(d.hash)' /\ d.shared
        BY <2>17, <3>1 DEF InMap
      <4>5. iTMD'.contents[es'.i] = d
        BY <2>1, <2>11, <4>1 DEF c
      <4>6. \A n \in Positions : n >= es.i => n > es.i \/ n = es.i
        BY <2>1, <2>3
      <4>7. iTMD'.contents = iTMD.contents
        BY <2>1
      <4> QED
        BY <2>8, <2>9, <4>1, <4>2, <4>3, <4>4, <4>5, <4>6, <4>7 DEF InstallInv
    <3> QED  BY <3>1, <3>2, <3>3, <3>4, <3>5
  <2>22. CASE AppendMap
    <3>1. /\ es.pc = "append"
          /\ \/ NextContent("ok") /\ contentMap' = Append(contentMap, d.hash)
             \/ WithoutMap("ok")
      BY <2>11, <2>22 DEF AppendMap, c
    <3>2. Placed(d)'
      <4>1. CASE contentMap' = Append(contentMap, d.hash)
        <5>1. /\ Len(contentMap) + 1 \in DOMAIN contentMap'
              /\ contentMap'[Len(contentMap) + 1] = d.hash
          BY <1>t, <2>14, <4>1
        <5> QED  BY <2>17, <3>1, <5>1 DEF Placed, InMap
      <4>2. CASE WithoutMap("ok")
        BY <2>13, <2>17, <3>1, <4>2 DEF Placed
      <4> QED  BY <3>1, <4>1, <4>2
    <3> QED  BY <2>12, <2>13, <3>1, <3>2
  <2>23. CASE InstallPrivate
    <3> DEFINE t == iTMD.title
    <3>1. /\ es.pc = "install" /\ ~d.shared
          /\ \/ content[t][d.id] # None /\ NextContent("ok") /\ UNCHANGED content
             \/ tmpApp[d.id] = None /\ UNCHANGED content /\ \E r \in {"ok", "missing"} : NextContent(r)
             \/ UNCHANGED <<tmpApp, es, contentMap>>
             \/ /\ tmpApp[d.id] # None /\ NextContent("ok")
                /\ content' = [content EXCEPT ![t][d.id] = tmpApp[d.id]]
      BY <2>15, <2>23 DEF InstallPrivate
    <3>2. ~d.optional => tmpApp[d.id] = d.hash
      BY <2>10, <2>11, <3>1 DEF Sent
    <3>3. content[t][d.id] \in {None, d.hash} \/ d.hash \in past.wrong
      BY <2>1, <2>2, <2>11 DEF ContentRight, c
    <3>4. CASE content[t][d.id] # None /\ NextContent("ok") /\ UNCHANGED content
      <4>1. Placed(d)'
        BY <1>0, <2>1, <3>1, <3>3, <3>4 DEF Placed
      <4> QED  BY <2>12, <2>13, <3>4, <4>1
    <3>5. CASE tmpApp[d.id] = None /\ \E r \in {"ok", "missing"} : NextContent(r)
      <4>1. Placed(d)'
        BY <2>14, <3>2, <3>5 DEF Placed
      <4> QED  BY <2>12, <2>13, <3>5, <4>1
    <3>6. CASE UNCHANGED <<tmpApp, es, contentMap>>
      <4>1. \A n \in Positions : n = es.i => Sent(iTMD.contents[n])'
        BY <1>0, <2>1, <2>10, <2>11, <3>1, <3>6 DEF Sent, c
      <4>2. \A n \in Positions : n >= es.i => n > es.i \/ n = es.i
        BY <2>1, <2>3
      <4>3. iTMD'.contents = iTMD.contents /\ es'.pc = "install" /\ es'.i = es.i
        BY <2>1, <3>1, <3>6
      <4> QED  BY <2>8, <2>9, <3>6, <4>1, <4>2, <4>3 DEF InstallInv
    <3>7. CASE /\ tmpApp[d.id] # None /\ NextContent("ok")
               /\ content' = [content EXCEPT ![t][d.id] = tmpApp[d.id]]
      <4>1. content'[t][d.id] = tmpApp[d.id]
        BY <1>t, <2>2, <2>14, <3>7
      <4>2. Placed(d)'
        BY <2>1, <3>1, <3>2, <4>1 DEF Placed
      <4> QED  BY <2>12, <2>13, <3>7, <4>2
    <3> QED  BY <3>1, <3>4, <3>5, <3>6, <3>7
  <2> QED  BY <1>4, <2>18, <2>19, <2>20, <2>21, <2>22, <2>23
<1>5. CASE InstallTmd \/ KeepTmd
  <2>1. es.pc = "install" /\ UNCHANGED <<shared1, contentMap, content, tmpApp, iTMD>>
        /\ (es' = [es EXCEPT !.pc = "cleanup"] \/ UNCHANGED <<es, past>>)
    BY <1>5 DEF InstallTmd, KeepTmd, AtEnd
  <2>2. es'.pc = "cleanup" \/ UNCHANGED <<es, past>>
    BY <1>t, <2>1, EsSteps
  <2> QED  BY <1>1, <1>2, <2>1, <2>2
<1>6. CASE \/ \E imp \in Imports : TitleStart(imp)
           \/ ContentStart \/ ContentData \/ ContentFinish \/ ContentUnfinished
           \/ TicketMissing \/ LeaveOut
           \/ CleanUp \/ TitleCancel \/ CancelForgotten \/ PowerCut
  <2>1. es'.pc = "idle"
    BY <1>6 DEF TitleStart, ContentStart, ContentData, ContentFinish, ContentUnfinished,
                TicketMissing, LeaveOut, Finishing, Sending, CleanUp, TitleCancel,
                CancelForgotten, PowerCut, Idle
  <2> QED  BY <1>2, <2>1
<1>7. CASE UNCHANGED vars
  BY <1>1, <1>7 DEF vars, history
<1> QED  BY <1>3, <1>4, <1>5, <1>6, <1>7 DEF Next

-----------------------------------------------------------------------------
(* What InstalledComplete says of one content of one title.                *)
Complete(t, c) ==
  \/ c.optional
  \/ IF c.shared THEN InMap(c.hash) ELSE content[t][c.id] = c.hash
  \/ t \in past.hollow /\ (c.shared \/ content[t][c.id] = None)
  \/ ~c.shared /\ content[t][c.id] # None /\ c.hash \in past.wrong

LEMMA CompleteOf ==
  /\ InstalledComplete <=>
       \A t \in Titles : tmd[t] # None =>
         \A n \in DOMAIN tmd[t].contents : Complete(t, tmd[t].contents[n])
  /\ InstalledComplete' <=>
       \A t \in Titles : tmd'[t] # None =>
         \A n \in DOMAIN tmd'[t].contents : Complete(t, tmd[t].contents[n])'
BY DEF InstalledComplete, Complete, Stored, InMap

(* What becomes of hollow and tmd.                                         *)
LEMMA TmdKept ==
  ASSUME TypeOK, TypeOK', TmpInv, [Next]_vars
  PROVE  \/ /\ past.hollow \subseteq past'.hollow
            /\ \A t \in Titles : tmd'[t] \in {None, tmd[t]}
         \/ /\ InstallTmd /\ es.pc = "install" /\ es.i = Len(iTMD.contents) + 1
            /\ iTMD \in Imports /\ tmd[iTMD.title] = None
            /\ \A t \in Titles : tmd'[t] = IF t = iTMD.title THEN iTMD ELSE tmd[t]
            /\ \A t \in Titles \ {iTMD.title} : t \in past.hollow => t \in past'.hollow
            /\ es.gap => iTMD.title \in past'.hollow
<1>t. /\ tmd \in [Titles -> Imports \cup {None}]
      /\ past \in [wrong : SUBSET Hashes, hollow : SUBSET Titles,
                   lost : SUBSET Imports, replaced : BOOLEAN]
  BY DEF TypeOK
<1>1. CASE InstallTmd /\ tmd[iTMD.title] = None
  <2>1. /\ es.pc = "install" /\ es.i = Len(iTMD.contents) + 1
        /\ tmd' = [tmd EXCEPT ![iTMD.title] = tmpTmd]
        /\ past' = [past EXCEPT !.hollow = IF es.gap THEN past.hollow \cup {iTMD.title}
                                           ELSE past.hollow \ {iTMD.title}]
    BY <1>1 DEF InstallTmd, AtEnd
  <2>2. iTMD \in Imports /\ iTMD # None /\ tmpTmd = iTMD /\ iTMD.title \in Titles
    BY <2>1, ImportType DEF TypeOK, TmpInv, Busy, Idle
  <2>3. past'.hollow = IF es.gap THEN past.hollow \cup {iTMD.title}
                       ELSE past.hollow \ {iTMD.title}
    BY <1>t, <2>1
  <2> QED  BY <1>t, <1>1, <2>1, <2>2, <2>3
<1>2. CASE ~(InstallTmd /\ tmd[iTMD.title] = None)
  <2>1. \A t \in Titles : tmd'[t] \in {None, tmd[t]}
    <3>1. CASE InstallTmd
      BY <1>t, <1>2, <3>1 DEF InstallTmd
    <3>2. CASE ~InstallTmd
      BY <3>2
      DEF Next, vars, disk, TitleStart, ContentStart, ContentData, ContentFinish,
          ContentUnfinished, TicketMissing, LeaveOut, TitleFinish, InstallKnown, InstallUnknown,
          InstallShared, Rename, AppendMap, InstallPrivate, KeepTmd, CleanUp, TitleCancel,
          CancelForgotten, PowerCut
    <3> QED  BY <3>1, <3>2
  <2>2. past.hollow \subseteq past'.hollow
    <3>1. CASE TicketMissing \/ LeaveOut \/ Rename \/ PowerCut
      <4>1. \/ past' = past
            \/ \E s : past' = [past EXCEPT !.lost = s]
            \/ \E s : past' = [past EXCEPT !.wrong = s]
            \/ \E b : past' = [past EXCEPT !.replaced = b]
        BY <3>1 DEF TicketMissing, LeaveOut, Rename, PowerCut
      <4> QED  BY <1>t, <4>1
    <3>2. CASE InstallPrivate
      <4>1. past' = past \/ past' = [past EXCEPT !.hollow = past.hollow \cup {iTMD.title}]
        BY <3>2 DEF InstallPrivate, history
      <4> QED  BY <1>t, <4>1
    <3>3. CASE InstallTmd
      BY <1>2, <3>3 DEF InstallTmd
    <3>4. CASE UNCHANGED past
      BY <3>4
    <3> QED
      BY <3>1, <3>2, <3>3, <3>4
      DEF Next, vars, history, TitleStart, ContentStart, ContentData, ContentFinish,
          ContentUnfinished, TitleFinish, InstallKnown, InstallUnknown, InstallShared, AppendMap,
          KeepTmd, CleanUp, TitleCancel, CancelForgotten
  <2> QED  BY <2>1, <2>2
<1> QED  BY <1>1, <1>2

LEMMA TmdStep ==
  ASSUME TypeOK, TypeOK', TmpInv, TmdRight, [Next]_vars  PROVE TmdRight'
BY TmdKept DEF TmdRight

(* The TMD is installed after the last content, when all are in place.     *)
LEMMA InstalledStep ==
  ASSUME TypeOK, TypeOK', TmpInv, InstallInv, ContentRight, TmdRight, InstalledComplete,
         [Next]_vars
  PROVE  InstalledComplete'
<1>0. /\ ContentRight' /\ ContentKept /\ past.wrong \subseteq past'.wrong
      /\ \A h : InMap(h) => InMap(h)'
  BY SharedStep, MapGrows, ContentStep, PastKept
<1>1. ASSUME NEW t \in Titles, NEW imp \in Imports, imp.title = t, NEW n \in DOMAIN imp.contents,
             Complete(t, imp.contents[n]), t \in past.hollow => t \in past'.hollow
      PROVE  Complete(t, imp.contents[n])'
  <2> DEFINE c == imp.contents[n]
  <2>1. c.id \in Ids /\ c.shared \in BOOLEAN /\ c.hash # None
    BY ImportType, ContentType
  <2>2. content'[t][c.id] \in {None, c.hash} \/ c.hash \in past'.wrong
    BY <1>0, <1>1 DEF ContentRight
  <2>3. content[t][c.id] # None =>
          content'[t][c.id] = content[t][c.id] \/ t \in past'.hollow
    BY <1>0, <2>1 DEF ContentKept
  <2>4. PICK d : d = c
    OBVIOUS
  <2> HIDE DEF c
  <2>5. CASE d.shared
    BY <1>0, <1>1, <2>4, <2>5 DEF Complete, c
  <2>6. CASE ~d.shared
    BY <1>0, <1>1, <2>1, <2>2, <2>3, <2>4, <2>6 DEF Complete, c
  <2> QED  BY <2>5, <2>6
<1>2. CASE /\ past.hollow \subseteq past'.hollow
           /\ \A t \in Titles : tmd'[t] \in {None, tmd[t]}
  <2>1. ASSUME NEW t \in Titles, tmd'[t] # None, NEW n \in DOMAIN tmd'[t].contents
        PROVE  Complete(t, tmd[t].contents[n])'
    <3>1. PICK imp \in Imports : imp = tmd[t] /\ imp = tmd'[t] /\ imp # None
      BY <1>2, <2>1 DEF TypeOK
    <3>2. imp.title = t /\ n \in DOMAIN imp.contents /\ Complete(t, imp.contents[n])
      BY <2>1, <3>1, CompleteOf DEF TmdRight
    <3>3. Complete(t, imp.contents[n])'
      BY <1>1, <1>2, <3>2
    <3> QED  BY <3>1, <3>3 DEF Complete
  <2> QED  BY <2>1, CompleteOf
<1>3. CASE /\ InstallTmd /\ es.pc = "install" /\ es.i = Len(iTMD.contents) + 1
           /\ iTMD \in Imports /\ tmd[iTMD.title] = None
           /\ \A t \in Titles : tmd'[t] = IF t = iTMD.title THEN iTMD ELSE tmd[t]
           /\ \A t \in Titles \ {iTMD.title} : t \in past.hollow => t \in past'.hollow
           /\ es.gap => iTMD.title \in past'.hollow
  <2>1. ASSUME NEW t \in Titles \ {iTMD.title}, tmd'[t] # None,
               NEW n \in DOMAIN tmd'[t].contents
        PROVE  Complete(t, tmd[t].contents[n])'
    <3>1. PICK imp \in Imports : imp = tmd[t] /\ imp = tmd'[t] /\ imp # None
      BY <1>3, <2>1 DEF TypeOK
    <3>2. imp.title = t /\ n \in DOMAIN imp.contents /\ Complete(t, imp.contents[n])
      BY <2>1, <3>1, CompleteOf DEF TmdRight
    <3>3. Complete(t, imp.contents[n])'
      BY <1>1, <1>3, <3>2
    <3> QED  BY <3>1, <3>3 DEF Complete
  <2>2. ASSUME NEW n \in DOMAIN iTMD.contents
        PROVE  Complete(iTMD.title, iTMD.contents[n])'
    <3>1. PICK d : d = iTMD.contents[n]
      OBVIOUS
    <3>2. Placed(d) /\ d.shared \in BOOLEAN
      <4>1. n < es.i
        BY <1>3, <2>2, ImportType
      <4> QED  BY <1>3, <2>2, <3>1, <4>1, ImportType, ContentType DEF InstallInv, Busy, Positions
    <3>3. UNCHANGED <<content, contentMap, iTMD>>
      BY <1>3 DEF InstallTmd, memory
    <3>4. \/ d.optional
          \/ IF d.shared THEN InMap(d.hash) ELSE content[iTMD.title][d.id] = d.hash
          \/ d.shared /\ es.gap
          \/ ~d.shared /\ content[iTMD.title][d.id] # None /\ d.hash \in past.wrong
      BY <3>2 DEF Placed
    <3>5. \/ d.optional
          \/ IF d.shared THEN InMap(d.hash)' ELSE content'[iTMD.title][d.id] = d.hash
          \/ d.shared /\ iTMD.title \in past'.hollow
          \/ ~d.shared /\ content'[iTMD.title][d.id] # None /\ d.hash \in past'.wrong
      BY <1>0, <1>3, <3>2, <3>3, <3>4
    <3>6. (iTMD.contents[n])' = d /\ iTMD'.title = iTMD.title
      BY <3>1, <3>3
    <3> QED  BY <3>5, <3>6 DEF Complete
  <2>3. UNCHANGED iTMD
    BY <1>3 DEF InstallTmd, memory
  <2>4. ASSUME NEW t \in Titles, tmd'[t] # None, NEW n \in DOMAIN tmd'[t].contents
        PROVE  Complete(t, tmd[t].contents[n])'
    <3>1. CASE t = iTMD.title
      BY <1>3, <2>2, <2>3, <2>4, <3>1 DEF Complete
    <3> QED  BY <2>1, <2>4, <3>1
  <2> QED  BY <2>4, CompleteOf
<1> QED  BY <1>2, <1>3, TmdKept

-----------------------------------------------------------------------------
LEMMA InitInv == Init => IInv
<1> SUFFICES ASSUME Init  PROVE IInv
  OBVIOUS
<1>1. TypeOK
  BY InitTyped
<1>2. /\ es.pc = "idle" /\ iTMD = None /\ CNTMapDirty = TRUE /\ tmpTmd = None
      /\ tmpData = NoData /\ tmpApp = NoApp /\ contentMap = FirstMap
      /\ shared1 = [k \in 0 .. Len(FirstMap) - 1 |-> FirstMap[k + 1]]
      /\ \A t \in Titles : tmd[t] = None
      /\ content = [t \in Titles |-> [id \in Ids |-> None]]
  BY DEF Init, Idle
<1>3. CacheFresh /\ SendInv /\ InstallInv /\ TmdRight /\ InstalledComplete
  BY <1>2 DEF CacheFresh, SendInv, InstallInv, Busy, TmdRight, InstalledComplete
<1>4. TmpInv
  BY <1>2 DEF TmpInv, NoData, NoApp
<1>5. FirstMap \in Seq(Hashes) /\ Len(FirstMap) \in Nat /\ DOMAIN FirstMap = 1 .. Len(FirstMap)
  BY TitleImportAssumption
<1>6. MapSound
  <2>1. ASSUME NEW k \in 1 .. Len(FirstMap)
        PROVE  k - 1 \in 0 .. Len(FirstMap) - 1 /\ (k - 1) + 1 = k
    BY <1>5
  <2> QED  BY <1>2, <1>5, <2>1 DEF MapSound
<1>7. NoDuplicates
  BY <1>2, TitleImportAssumption DEF NoDuplicates
<1>8. ContentRight
  <2>1. ASSUME NEW imp \in Imports, NEW n \in DOMAIN imp.contents
        PROVE  content[imp.title][imp.contents[n].id] = None
    BY <1>2, ImportType, ContentType
  <2> QED  BY <2>1 DEF ContentRight
<1> QED  BY <1>1, <1>3, <1>4, <1>6, <1>7, <1>8 DEF IInv

LEMMA InvStep == IInv /\ [Next]_vars => IInv'
<1> SUFFICES ASSUME IInv, [Next]_vars  PROVE IInv'
  OBVIOUS
<1>1. /\ TypeOK /\ CacheFresh /\ TmpInv /\ SendInv /\ InstallInv
      /\ MapSound /\ NoDuplicates /\ ContentRight /\ TmdRight /\ InstalledComplete
  BY DEF IInv
<1>2. TypeOK'
  BY <1>1, Typed
<1>3. CacheFresh' /\ TmpInv' /\ SendInv'
  BY <1>1, CacheStep, TmpStep, SendStep
<1>4. MapSound' /\ NoDuplicates' /\ ContentRight'
  BY <1>1, <1>2, MapStep, ContentStep
<1>5. InstallInv'
  BY <1>1, <1>2, InstallStep
<1>6. TmdRight' /\ InstalledComplete'
  BY <1>1, <1>2, TmdStep, InstalledStep
<1> QED  BY <1>2, <1>3, <1>4, <1>5, <1>6 DEF IInv

LEMMA Always == Spec => []IInv
<1>1. Init => IInv
  BY InitInv
<1>2. IInv /\ [Next]_vars => IInv'
  BY InvStep
<1> QED  BY <1>1, <1>2, PTL DEF Spec

-----------------------------------------------------------------------------
(* The variables keep their types; the import's steps stay in its loop.    *)
THEOREM TypeCorrect == Spec => []TypeOK
<1>1. IInv => TypeOK
  BY DEF IInv
<1> QED  BY <1>1, Always, PTL

(* content.map names files of /shared1 that are there and have the hash it *)
(* says: es/ES.c moves the file before it writes the entry, and a file a   *)
(* power cut left without an entry is removed and replaced.  Only entry 1  *)
(* can be wrong, after content.map could not be opened, and a hash whose   *)
(* wrong content an installer passed over.                                 *)
THEOREM MapIsSound == Spec => []MapSound
<1>1. IInv => MapSound
  BY DEF IInv
<1> QED  BY <1>1, Always, PTL

(* A shared content is stored once, whatever is imported, in whatever      *)
(* order and whichever opens fail: ES_CheckSharedContent is never asked    *)
(* with an outdated map.                                                   *)
THEOREM StoredOnce == Spec => []NoDuplicates
<1>1. IInv => NoDuplicates
  BY DEF IInv
<1> QED  BY <1>1, Always, PTL

(* A title whose TMD is installed has all contents that are not optional,  *)
(* although ES_AddTitleFinish goes on after a private one that is missing; *)
(* or the failed open that cost it one was noted for this title.           *)
THEOREM TitlesAreComplete == Spec => []InstalledComplete
<1>1. IInv => InstalledComplete
  BY DEF IInv
<1> QED  BY <1>1, Always, PTL

(* The map in memory is the one in the file, or marked dirty.              *)
THEOREM CacheIsFresh == Spec => []CacheFresh
<1>1. IInv => CacheFresh
  BY DEF IInv
<1> QED  BY <1>1, Always, PTL

(* After an import that was finished, failed or was cancelled, nothing of  *)
(* it is in /tmp; what is there is of an import ES forgot, es/main.c:423.  *)
THEOREM NothingLeftBehind == Spec => []TmpClean
<1>1. IInv => TmpClean
  BY DEF IInv, TmpInv, TmpClean
<1> QED  BY <1>1, Always, PTL

(* No later import removes, replaces or renumbers a shared content that an *)
(* installed title may rely on, but the first, by the rename of ES.c:1080  *)
(* after content.map could not be opened.                                  *)
THEOREM SharedIsStable == Spec => SharedStable
<1>1. IInv /\ [Next]_vars =>
        [/\ Len(contentMap) <= Len(contentMap')
         /\ \A k \in DOMAIN contentMap :
              /\ contentMap'[k] = contentMap[k]
              /\ \/ k - 1 \in DOMAIN shared1 =>
                      k - 1 \in DOMAIN shared1' /\ shared1'[k - 1] = shared1[k - 1]
                 \/ k = 1 /\ es.pc = "rename" /\ ~es.fd]_vars
  BY SharedStep DEF IInv, SharedKept, Rename
<1> QED  BY <1>1, Always, PTL DEF Spec, SharedStable
=============================================================================
