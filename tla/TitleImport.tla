----------------------------- MODULE TitleImport ----------------------------
(***************************************************************************)
(* The title import of the ES module: ADDTITLESTART, the three ADDCONTENT  *)
(* commands, ADDTITLEFINISH and ADDTITLECANCEL of es/main.c over           *)
(* ES_AddContentData, ES_AddContentFinish, ES_CheckSharedContent and       *)
(* ES_AddTitleFinish of es/ES.c.                                           *)
(*                                                                         *)
(* A title is a list of contents.  A private content ends up in the        *)
(* directory of the title; a shared one in /shared1, under a number that   *)
(* content.map relates to its hash, and is stored once for all titles.     *)
(* Pieces of content arrive one by one and are collected under /tmp.       *)
(*                                                                         *)
(* ES is one thread and a command runs to its end before the next, but the *)
(* console may be switched off at any file operation, and any open may     *)
(* fail: the FS module has few handles.  What is in /tmp is                *)
(* lost then (the FS module wipes it when it starts), and so is what ES    *)
(* keeps in memory; the rest of the file system stays.  So the finish is   *)
(* one step per file operation; a command that changes only memory and     *)
(* /tmp is one step, since no trace of it survives a power cut.            *)
(***************************************************************************)
EXTENDS Integers, Sequences

CONSTANTS
  Titles, Ids, Hashes,
  Imports,   \* what may be imported: a title and the contents of its TMD
  Pieces,    \* the pieces the data of a content is sent in
  FirstMap,  \* the content.map the console starts with
  MaxFaults, \* bound: opens that fail, and tickets that are missing
  None,      \* no file, no title
  Bad        \* the hash of a damaged file, a TMD without content

Content == [id : Ids, shared : BOOLEAN, optional : BOOLEAN, hash : Hashes]

\* A TMD lists a content once.  A title keeps the number of a content that does not change.
ASSUME TitleImportAssumption ==
  /\ Pieces \in Nat \ {0} /\ MaxFaults \in Nat
  /\ None \notin Imports /\ None \notin Hashes
  /\ Bad \notin Imports /\ Bad \notin Hashes /\ Bad # None
  /\ None \notin Titles \X Hashes \X (1 .. Pieces)
  /\ \A imp \in Imports : imp \in [title : Titles, contents : Seq(Content)]
  /\ \A imp \in Imports : \A m, n \in DOMAIN imp.contents :
       imp.contents[m].id = imp.contents[n].id => m = n
  /\ \A imp, jmp \in Imports : imp.title = jmp.title =>
       \A m \in DOMAIN imp.contents, n \in DOMAIN jmp.contents :
         imp.contents[m].id = jmp.contents[n].id =>
           imp.contents[m].hash = jmp.contents[n].hash
  /\ FirstMap \in Seq(Hashes) /\ FirstMap # <<>>
  /\ \A k, l \in DOMAIN FirstMap : FirstMap[k] = FirstMap[l] => k = l

VARIABLES
  shared1,      \* the files of /shared1, by number
  contentMap,   \* /shared1/content.map: entry k names file k - 1
  content,      \* the private contents of each title
  tmd,          \* the TMD in the directory of each title
  tmpTmd,       \* /tmp/title.tmd
  tmpData,      \* /tmp/<id>: how much of which content was collected
  tmpApp,       \* /tmp/<id>.app: the decrypted content
  iTMD, SkipContent, CNTMap, CNTMapDirty,   \* the variables of the code
  es,           \* ADDTITLEFINISH: how far it is, its r, whether its fd is open,
                \* and whether it met a content.map that was not
  client,       \* the installer: the content it is at, the pieces it sent
  past,         \* history: what has happened that limits the promises below
  faults        \* history: how often an open failed or a ticket was missing

disk   == <<shared1, contentMap, content, tmd>>
tmp    == <<tmpTmd, tmpData, tmpApp>>
memory == <<iTMD, SkipContent, CNTMap, CNTMapDirty>>
history == <<past, faults>>
vars   == <<disk, tmp, memory, es, client, history>>

-----------------------------------------------------------------------------
Idle     == [pc |-> "idle", i |-> 0, r |-> "fatal", fd |-> FALSE, gap |-> FALSE]
NoClient == [n |-> 0, open |-> FALSE, sent |-> 0]
NoData   == [id \in Ids |-> None]
NoApp    == [id \in Ids |-> None]

Init ==
  /\ shared1 = [k \in 0 .. Len(FirstMap) - 1 |-> FirstMap[k + 1]]
  /\ contentMap = FirstMap
  /\ content = [t \in Titles |-> [id \in Ids |-> None]]
  /\ tmd = [t \in Titles |-> None]
  /\ tmpTmd = None /\ tmpData = NoData /\ tmpApp = NoApp
  /\ iTMD = None /\ SkipContent = FALSE /\ CNTMap = <<>> /\ CNTMapDirty = TRUE
  /\ es = Idle /\ client = NoClient
  /\ past = [wrong    |-> {},     \* hashes of contents left out with a wrong file in /tmp
              hollow   |-> {},     \* titles that lack contents because an open failed
              lost     |-> {},     \* imports ES forgot, with their files in /tmp
              replaced |-> FALSE]  \* file 0 of /shared1 was overwritten
  /\ faults = 0

(* The content the installer is at, and the one ADDTITLEFINISH is at.      *)
Sending(c) ==
  /\ es = Idle /\ iTMD # None
  /\ client.n \in DOMAIN iTMD.contents /\ c = iTMD.contents[client.n]
Installing(c) ==
  es.pc = "install" /\ es.i \in DOMAIN iTMD.contents /\ c = iTMD.contents[es.i]

(* ES_CheckSharedContent looks into the map it has, read again if dirty.   *)
Loaded   == IF CNTMapDirty THEN contentMap ELSE CNTMap
LoadMap  == CNTMap' = Loaded /\ CNTMapDirty' = FALSE

Known(h) == \E k \in DOMAIN Loaded : Loaded[k] = h

Fault == faults < MaxFaults /\ faults' = faults + 1

(* Or it cannot read it, and has none.                                     *)
Unreadable == CNTMapDirty /\ CNTMap' = <<>> /\ UNCHANGED CNTMapDirty

-----------------------------------------------------------------------------
(* ADDTITLESTART: the TMD is kept in memory and in /tmp, if the file there *)
(* is new and can be opened.                                               *)
TitleStart(imp) ==
  /\ es = Idle /\ iTMD = None
  /\ iTMD' = imp
  /\ \/ tmpTmd = None /\ tmpTmd' = imp /\ client' = [client EXCEPT !.n = 1] /\ UNCHANGED faults
     \/ tmpTmd = None /\ tmpTmd' = Bad /\ UNCHANGED client /\ Fault
     \/ tmpTmd # None /\ UNCHANGED <<tmpTmd, client, faults>>
  /\ UNCHANGED <<disk, tmpData, tmpApp, SkipContent, CNTMap, CNTMapDirty, es, past>>

(* ADDCONTENTSTART; the installer may begin a content again.               *)
ContentStart ==
  \E c \in Content :
    /\ Sending(c)
    /\ \/ c.shared /\ LoadMap /\ SkipContent' = Known(c.hash) /\ UNCHANGED faults
       \/ c.shared /\ Unreadable /\ SkipContent' = FALSE /\ Fault
       \/ ~c.shared /\ SkipContent' = FALSE /\ UNCHANGED <<CNTMap, CNTMapDirty, faults>>
    /\ client' = [client EXCEPT !.open = TRUE, !.sent = 0]
    /\ UNCHANGED <<disk, tmp, iTMD, es, past>>

(* The first n pieces of a content, encrypted with the key of its title.   *)
Part(c, n) == <<iTMD.title, c.hash, n>>

(* A file to which piece p is appended.  What follows the last piece is    *)
(* never read again; any other piece than the next spoils the file.        *)
Appended(c, p) ==
  IF tmpData[c.id] = Part(c, Pieces) THEN tmpData[c.id]
  ELSE IF p > 0 /\ tmpData[c.id] = (IF p = 1 THEN None ELSE Part(c, p - 1)) THEN Part(c, p)
  ELSE Bad

(* ADDCONTENTDATA appends to the file it finds.  The installer sends the   *)
(* pieces in order; the line may damage one (0).                           *)
ContentData ==
  \E c \in Content, p \in {0, client.sent + 1} :
    /\ Sending(c) /\ client.open /\ client.sent < Pieces
    /\ client' = [client EXCEPT !.sent = @ + 1]
    /\ tmpData' = IF SkipContent THEN tmpData ELSE [tmpData EXCEPT ![c.id] = Appended(c, p)]
    /\ UNCHANGED <<disk, tmpTmd, tmpApp, memory, es, history>>

(* The content ES_AddContentFinish writes to the .app file.                *)
Decrypted(c) == IF tmpData[c.id] = Part(c, Pieces) THEN c.hash ELSE Bad

(* Mutant: the result of the comparison of the hashes is not used.         *)
AcceptedAlways(c) == TRUE

(* "check sha1 for the current content".                                   *)
Accepted(c) == Decrypted(c) = c.hash

(* The installer has sent a content, or nothing of an optional one.        *)
Finishing(c) ==
  /\ Sending(c) /\ client.open
  /\ client.sent = Pieces \/ (client.sent = 0 /\ c.optional)

(* ADDCONTENTFINISH.  Without data it is a success; the .app file must be  *)
(* new; a wrong or short content is an error, and its .app file stays.     *)
ContentFinish ==
  \E c \in Content :
    LET nodata  == SkipContent \/ tmpData[c.id] = None
        decrypt == ~nodata /\ tmpApp[c.id] = None
        success == nodata \/ (decrypt /\ Accepted(c))
    IN  /\ Finishing(c)
        /\ tmpApp' = IF decrypt THEN [tmpApp EXCEPT ![c.id] = Decrypted(c)] ELSE tmpApp
        /\ client' = [n |-> IF success THEN client.n + 1 ELSE client.n,
                      open |-> FALSE, sent |-> 0]
        /\ UNCHANGED <<disk, tmpTmd, tmpData, memory, es, history>>

(* Or no key, no handle, an error on the way: the .app file may be there,  *)
(* without its content.                                                    *)
ContentUnfinished ==
  \E c \in Content :
    /\ Finishing(c) /\ ~SkipContent /\ Fault
    /\ \/ UNCHANGED tmpApp
       \/ /\ tmpData[c.id] # None /\ tmpApp[c.id] = None
          /\ tmpApp' = [tmpApp EXCEPT ![c.id] = Bad]
    /\ client' = [client EXCEPT !.open = FALSE, !.sent = 0]
    /\ UNCHANGED <<disk, tmpTmd, tmpData, memory, es, past>>

(* Or there is no ticket: ES forgets the import, and leaves what /tmp has. *)
TicketMissing ==
  \E c \in Content :
    /\ Finishing(c) /\ ~SkipContent /\ Fault
    /\ iTMD' = None /\ client' = NoClient
    /\ past' = [past EXCEPT !.lost = @ \cup {iTMD}]
    /\ UNCHANGED <<disk, tmp, SkipContent, CNTMap, CNTMapDirty, es>>

(* The installer leaves an optional content out: one it never sent, or one *)
(* that failed, whose file stays in /tmp.                                  *)
LeaveOut ==
  \E c \in Content :
    /\ Sending(c) /\ c.optional /\ ~client.open
    /\ client' = [client EXCEPT !.n = @ + 1]
    /\ past' = IF tmpApp[c.id] \in {None, c.hash} THEN past
               ELSE [past EXCEPT !.wrong = @ \cup {c.hash}]
    /\ UNCHANGED <<disk, tmp, memory, es, faults>>

-----------------------------------------------------------------------------
(* ADDTITLEFINISH: the command arrives when all contents were sent, ...    *)
TitleFinish ==
  /\ es = Idle /\ iTMD # None /\ client.n = Len(iTMD.contents) + 1
  /\ es' = [Idle EXCEPT !.pc = "install", !.i = 1]
  /\ client' = NoClient
  /\ UNCHANGED <<disk, tmp, memory, history>>

NextContent(r) == es' = [es EXCEPT !.pc = "install", !.i = @ + 1, !.r = r, !.fd = FALSE]

(* The same after a content that did not get into content.map.             *)
WithoutMap(r) ==
  es' = [es EXCEPT !.pc = "install", !.i = @ + 1, !.r = r, !.fd = FALSE, !.gap = TRUE]

(* ... a shared content that is in the map already is dropped, ...         *)
InstallKnown ==
  \E c \in Content :
    /\ Installing(c) /\ c.shared /\ Known(c.hash) /\ LoadMap
    /\ tmpApp' = [tmpApp EXCEPT ![c.id] = None]
    /\ NextContent(es.r)
    /\ UNCHANGED <<disk, tmpTmd, tmpData, iTMD, SkipContent, client, history>>

(* ... one is skipped, with r as it is, if the map cannot be read, ...     *)
InstallUnknown ==
  \E c \in Content :
    /\ Installing(c) /\ c.shared /\ Unreadable /\ Fault
    /\ WithoutMap(es.r)
    /\ UNCHANGED <<disk, tmp, iTMD, SkipContent, client, past>>

(* ... for another one content.map is opened, or not; nobody checks, ...   *)
InstallShared ==
  \E c \in Content, fd \in BOOLEAN :
    /\ Installing(c) /\ c.shared /\ ~Known(c.hash) /\ LoadMap
    /\ (fd /\ UNCHANGED faults) \/ (~fd /\ Fault)
    /\ es' = [es EXCEPT !.pc = "rename", !.fd = fd]
    /\ UNCHANGED <<disk, tmp, iTMD, SkipContent, client, past>>

(* Mutants: the number of the new file is one too high, or one too low.    *)
IndexHigh == Len(contentMap) + 1
IndexLow  == Len(contentMap) - 1

(* The number a new file in /shared1 gets, from the size of content.map,   *)
(* which is an error number less than an entry long if it is not open.     *)
Index   == Len(contentMap)
NewFile == IF es.fd THEN Index ELSE 0

(* ... and it is moved to /shared1 under that number: a rename, which      *)
(* first removes a file that is in its place.  If there is nothing to      *)
(* move, ES ends, or goes on with the next content, and keeps the handle.  *)
Rename ==
  LET c == iTMD.contents[es.i]
  IN  /\ es.pc = "rename"
      /\ \/ /\ tmpApp[c.id] = None
            /\ IF c.optional THEN NextContent("missing")
                             ELSE es' = [es EXCEPT !.pc = "cleanup", !.r = "missing"]
            /\ UNCHANGED <<shared1, tmpApp, past>>
         \/ /\ tmpApp[c.id] # None
            /\ IF NewFile \in DOMAIN shared1
                 THEN /\ shared1' = [k \in DOMAIN shared1 \ {NewFile} |-> shared1[k]]
                      /\ UNCHANGED <<tmpApp, es>>
                 ELSE /\ shared1' = [k \in DOMAIN shared1 \cup {NewFile} |->
                                       IF k = NewFile THEN tmpApp[c.id] ELSE shared1[k]]
                      /\ tmpApp' = [tmpApp EXCEPT ![c.id] = None]
                      /\ es' = [es EXCEPT !.pc = "append"]
            /\ past' = [past EXCEPT !.replaced = @ \/ ~es.fd]
      /\ UNCHANGED <<contentMap, content, tmd, tmpTmd, tmpData, memory, client, faults>>

(* Mutant: the map in memory is not marked as outdated.                    *)
AppendQuietly ==
  LET c == iTMD.contents[es.i]
  IN  /\ es.pc = "append"
      /\ \/ es.fd /\ contentMap' = Append(contentMap, c.hash) /\ NextContent("ok")
         \/ ~es.fd /\ UNCHANGED contentMap /\ WithoutMap("ok")
      /\ UNCHANGED <<shared1, content, tmd, tmp, memory, client, history>>

(* ... and entered in content.map, if that is open; ...                    *)
AppendMap ==
  LET c == iTMD.contents[es.i]
  IN  /\ es.pc = "append"
      /\ \/ es.fd /\ contentMap' = Append(contentMap, c.hash) /\ NextContent("ok")
         \/ ~es.fd /\ UNCHANGED contentMap /\ WithoutMap("ok")
      /\ CNTMapDirty' = TRUE
      /\ UNCHANGED <<shared1, content, tmd, tmp, iTMD, SkipContent, CNTMap, client, history>>

(* ... a private content that is in the directory of the title is kept;    *)
(* one that is not, or cannot be opened, is moved there, a rename as well, *)
(* and if it is missing the loop goes on all the same; ...                 *)
InstallPrivate ==
  \E c \in Content :
    LET t == iTMD.title
    IN  /\ Installing(c) /\ ~c.shared
        /\ \/ /\ content[t][c.id] # None /\ NextContent("ok")
              /\ tmpApp' = [tmpApp EXCEPT ![c.id] = None]
              /\ UNCHANGED <<content, history>>
           \/ /\ tmpApp[c.id] = None
              /\ IF content[t][c.id] # None THEN Fault ELSE UNCHANGED faults
              /\ NextContent(IF c.optional THEN "ok" ELSE "missing")
              /\ UNCHANGED <<content, tmpApp, past>>
           \/ /\ tmpApp[c.id] # None /\ content[t][c.id] # None /\ Fault
              /\ content' = [content EXCEPT ![t][c.id] = None]
              /\ past' = [past EXCEPT !.hollow = @ \cup {t}]
              /\ UNCHANGED <<tmpApp, es>>
           \/ /\ tmpApp[c.id] # None /\ content[t][c.id] = None
              /\ content' = [content EXCEPT ![t][c.id] = tmpApp[c.id]]
              /\ tmpApp' = [tmpApp EXCEPT ![c.id] = None]
              /\ NextContent("ok") /\ UNCHANGED history
        /\ UNCHANGED <<shared1, contentMap, tmd, tmpTmd, tmpData, memory, client>>

AtEnd == es.pc = "install" /\ es.i = Len(iTMD.contents) + 1

(* ... after the last content the TMD is moved, removing the old one, ...  *)
InstallTmd ==
  LET t == iTMD.title
  IN  /\ AtEnd /\ es.r = "ok"
      /\ IF tmd[t] = None
           THEN /\ tmd' = [tmd EXCEPT ![t] = tmpTmd] /\ tmpTmd' = None
                /\ es' = [es EXCEPT !.pc = "cleanup"]
                /\ past' = [past EXCEPT !.hollow = IF es.gap THEN @ \cup {t} ELSE @ \ {t}]
           ELSE tmd' = [tmd EXCEPT ![t] = None] /\ UNCHANGED <<tmpTmd, es, past>>
      /\ UNCHANGED <<shared1, contentMap, content, tmpData, tmpApp, memory, client, faults>>

(* ... or not, after an error, ...                                         *)
KeepTmd ==
  /\ AtEnd /\ es.r # "ok" /\ es' = [es EXCEPT !.pc = "cleanup"]
  /\ UNCHANGED <<disk, tmp, memory, client, history>>

(* /tmp/title.tmd and the temporary files of these contents are deleted.   *)
Delete(ids) ==
  /\ tmpTmd' = None
  /\ tmpData' = [id \in Ids |-> IF id \in ids THEN None ELSE tmpData[id]]
  /\ tmpApp' = [id \in Ids |-> IF id \in ids THEN None ELSE tmpApp[id]]

IdsOf(imp) == {imp.contents[n].id : n \in DOMAIN imp.contents}

(* The temporary files of the title are deleted and its TMD is forgotten.  *)
Forget == Delete(IdsOf(iTMD)) /\ iTMD' = None

(* ... and the command ends.                                               *)
CleanUp ==
  /\ es.pc = "cleanup" /\ Forget
  /\ es' = Idle
  /\ UNCHANGED <<disk, SkipContent, CNTMap, CNTMapDirty, client, history>>

(* ADDTITLECANCEL, at any time.                                            *)
TitleCancel ==
  /\ es = Idle /\ iTMD # None /\ Forget
  /\ client' = NoClient
  /\ UNCHANGED <<disk, SkipContent, CNTMap, CNTMapDirty, es, history>>

(* ADDTITLECANCEL by an installer whose import ES forgot: iTMD is NULL,    *)
(* and what lies at address 0 says which contents are deleted.             *)
CancelForgotten ==
  /\ es = Idle /\ iTMD = None /\ past.lost # {}
  /\ \E ids \in SUBSET Ids : Delete(ids)
  /\ UNCHANGED <<disk, memory, es, client, history>>

(* The console is switched off and on: FS wipes /tmp and ES_BootSystem     *)
(* starts with no map.                                                     *)
PowerCut ==
  /\ tmpTmd' = None /\ tmpData' = NoData /\ tmpApp' = NoApp
  /\ iTMD' = None /\ SkipContent' = FALSE /\ CNTMap' = <<>> /\ CNTMapDirty' = TRUE
  /\ es' = Idle /\ client' = NoClient
  /\ past' = [past EXCEPT !.lost = {}]
  /\ UNCHANGED <<disk, faults>>

Next ==
  \/ \E imp \in Imports : TitleStart(imp)
  \/ ContentStart \/ ContentData
  \/ ContentFinish \/ ContentUnfinished \/ TicketMissing \/ LeaveOut
  \/ TitleFinish \/ InstallKnown \/ InstallUnknown \/ InstallShared \/ Rename \/ AppendMap
  \/ InstallPrivate \/ InstallTmd \/ KeepTmd \/ CleanUp
  \/ TitleCancel \/ CancelForgotten \/ PowerCut

Spec == Init /\ [][Next]_vars

-----------------------------------------------------------------------------
TypeOK ==
  /\ DOMAIN shared1 \subseteq Nat
  /\ \A k \in DOMAIN shared1 : shared1[k] \in Hashes \cup {Bad}
  /\ contentMap \in Seq(Hashes) /\ CNTMap \in Seq(Hashes)
  /\ content \in [Titles -> [Ids -> Hashes \cup {Bad, None}]]
  /\ tmd \in [Titles -> Imports \cup {None}]
  /\ tmpTmd \in Imports \cup {None, Bad} /\ iTMD \in Imports \cup {None}
  /\ tmpData \in [Ids -> (Titles \X Hashes \X (1 .. Pieces)) \cup {None, Bad}]
  /\ tmpApp \in [Ids -> Hashes \cup {Bad, None}]
  /\ SkipContent \in BOOLEAN /\ CNTMapDirty \in BOOLEAN
  /\ es \in [pc : {"idle", "install", "rename", "append", "cleanup"}, i : Nat,
             r : {"fatal", "ok", "missing"}, fd : BOOLEAN, gap : BOOLEAN]
  /\ client \in [n : Nat, open : BOOLEAN, sent : 0 .. Pieces]
  /\ past \in [wrong : SUBSET Hashes, hollow : SUBSET Titles,
               lost : SUBSET Imports, replaced : BOOLEAN]
  /\ faults \in 0 .. MaxFaults
  /\ iTMD = None => es = Idle /\ client = NoClient
  /\ es.pc # "idle" => client = NoClient
  /\ es.pc = "install" => es.i \in 1 .. Len(iTMD.contents) + 1
  /\ es.pc \in {"rename", "append"} => es.i \in DOMAIN iTMD.contents

(* content.map and /shared1 agree, also after a power cut between moving a *)
(* file and entering it: the file of every entry exists and has the hash   *)
(* the entry says.  Except the first, once a rename went to file 0 because *)
(* content.map was not open; and a wrong optional content, left in /tmp by *)
(* an installer that went on, is entered as if it were right.              *)
MapSound ==
  \A k \in DOMAIN contentMap :
    \/ k = 1 /\ past.replaced
    \/ /\ k - 1 \in DOMAIN shared1
       /\ shared1[k - 1] = contentMap[k] \/ contentMap[k] \in past.wrong

(* "content already in shared1, move on": a shared content is stored once, *)
(* however many titles have it and even when one title lists it twice.     *)
NoDuplicates ==
  \A k, l \in DOMAIN contentMap : contentMap[k] = contentMap[l] => k = l

(* The contents of a title that are not optional are all there, each with  *)
(* the hash the TMD demands.                                               *)
Stored(c, t) ==
  IF c.shared THEN \E k \in DOMAIN contentMap : contentMap[k] = c.hash
              ELSE content[t][c.id] = c.hash

InPlace(imp) ==
  \A n \in DOMAIN imp.contents :
    imp.contents[n].optional \/ Stored(imp.contents[n], imp.title)

(* A TMD the system menu would start is complete, but for contents that    *)
(* were skipped or removed since content.map or the content itself could   *)
(* not be opened, and for a wrong file that a TMD which has the content as *)
(* an optional one let in.                                                 *)
InstalledComplete ==
  \A t \in Titles : tmd[t] # None =>
    \A n \in DOMAIN tmd[t].contents :
      LET c == tmd[t].contents[n]
      IN  \/ c.optional \/ Stored(c, t)
          \/ t \in past.hollow /\ (c.shared \/ content[t][c.id] = None)
          \/ ~c.shared /\ content[t][c.id] # None /\ c.hash \in past.wrong

(* What a title relies on stays: content.map only grows at its end, and no *)
(* file an entry names is removed or replaced, by whatever later import,   *)
(* failed, cancelled or cut short; except the first, by a rename without   *)
(* the number content.map would have given.                                *)
SharedStable ==
  [][/\ Len(contentMap) <= Len(contentMap')
     /\ \A k \in DOMAIN contentMap :
          /\ contentMap'[k] = contentMap[k]
          /\ \/ k - 1 \in DOMAIN shared1 =>
                  k - 1 \in DOMAIN shared1' /\ shared1'[k - 1] = shared1[k - 1]
             \/ k = 1 /\ es.pc = "rename" /\ ~es.fd]_vars

(* Unless it is marked dirty, the map in memory is the one in the file.    *)
CacheFresh == ~CNTMapDirty => CNTMap = contentMap

(* An import that ended, finished or cancelled, leaves nothing in /tmp that *)
(* the next one would stumble over: ISFS_CreateFile fails on a file that   *)
(* exists, and pieces are appended to what is there.  One that ended for   *)
(* want of a ticket leaves what it had, until the console is switched off. *)
TmpClean ==
  iTMD = None =>
    /\ tmpTmd # None => tmpTmd \in past.lost
    /\ \A id \in Ids : tmpData[id] # None \/ tmpApp[id] # None =>
         \E imp \in past.lost : id \in IdsOf(imp)

(* "content already in shared1, move on", "Skiping optional content": when *)
(* all that is not optional is in place, the import is a success and the   *)
(* TMD is installed.                                                       *)
CompleteIsSuccess == es.pc = "cleanup" /\ InPlace(iTMD) => es.r = "ok"
=============================================================================
