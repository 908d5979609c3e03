------------------------------ MODULE FSServer ------------------------------
(***************************************************************************)
(* The FS module as its clients see it: the handle table fd_stack of       *)
(* fs/FS.c over the directory tree of FSTree.                              *)
(*                                                                         *)
(* A handle is an index of fd_stack; the kernel sees to it that a client   *)
(* uses only the handles it was given.  The DI module opens a file in two  *)
(* messages: 0x60 with the path, which leaves the handle in HAXHandle, and *)
(* an open of "/AX", which gives it to the kernel; what other clients ask  *)
(* comes in between.  A handle opened on obcd.txt is not a file: it reads  *)
(* and writes sectors of the card itself, and obcd_trig tells the two      *)
(* apart.                                                                  *)
(*                                                                         *)
(* FatFs does not know which files are open.  The clients do not delete or *)
(* move a file one of them has open, and one that writes a file has it     *)
(* alone.                                                                  *)
(***************************************************************************)
EXTENDS FSTree

CONSTANTS
  Clients, DI,   \* DI opens its files with 0x60 and "/AX"
  MaxFile,       \* MAX_FILE
  Modes,         \* sets of "r" and "w"
  Obcd,          \* the path of obcd.txt
  SaveHack,      \* the files that are created when they are opened
  Files,         \* bound: the files that are opened
  Targets,       \* bound: where something is moved to
  MaxSize        \* bound: blocks of a file

Handles  == 0 .. MaxFile - 1
NoHandle == -1

ASSUME FSServerAssumption ==
  /\ DI \in Clients /\ MaxFile \in Nat \ {0} /\ MaxSize \in Nat
  /\ Modes \subseteq SUBSET {"r", "w"} /\ Obcd \in Path
  /\ SaveHack \subseteq Path /\ Files \cup Targets \subseteq Path

VARIABLES
  fd_stack,    \* the files open, under their handles
  obcd_trig,   \* the handle is one of the card itself
  HAXHandle,   \* what the last 0x60 answered
  held,        \* the handles each client was given
  pending      \* DI has sent 0x60 and not yet opened "/AX"

vars == <<treevars, fd_stack, obcd_trig, HAXHandle, held, pending>>
table == <<fd_stack, obcd_trig, HAXHandle, held, pending>>

-----------------------------------------------------------------------------
(* fs = NULL.                                                              *)
Closed == [path |-> <<>>, mode |-> {}, fptr |-> 0, fsize |-> 0]
InUse(h) == fd_stack[h] # Closed
Opened(p, m, size) == [path |-> p, mode |-> m, fptr |-> 0, fsize |-> size]

ServerInit ==
  /\ Init
  /\ fd_stack = [h \in Handles |-> Closed] /\ obcd_trig = [h \in Handles |-> FALSE]
  /\ HAXHandle = 0
  /\ held = [c \in Clients |-> {}] /\ pending = FALSE

FreeHandles == {h \in Handles : ~InUse(h)}

(* What polite clients open, delete and move.                              *)
MayOpen(p, m) ==
  \A h \in Handles : fd_stack[h].path = p => "w" \notin m \cup fd_stack[h].mode
NotOpen(p) == \A h \in Handles : ~(InUse(h) /\ IsPrefix(p, fd_stack[h].path))

(* f_open, and the games whose saves are created.                          *)
f_open(i, p, m) ==
  /\ obcd_trig' = [obcd_trig EXCEPT ![i] = FALSE]
  /\ \/ /\ IsFile(p) /\ UNCHANGED tree
        /\ fd_stack' = [fd_stack EXCEPT ![i] = Opened(p, m, tree[p])]
     \/ /\ CanCreate(p) /\ p \in SaveHack /\ tree' = With(p, 0)
        /\ fd_stack' = [fd_stack EXCEPT ![i] = Opened(p, m, 0)]

f_open_fails(i, p) ==
  /\ ~IsFile(p) /\ ~(CanCreate(p) /\ p \in SaveHack) /\ UNCHANGED tree
  /\ obcd_trig' = [obcd_trig EXCEPT ![i] = FALSE]
  /\ fd_stack' = [fd_stack EXCEPT ![i] = Closed]

(* Mutant: obcd_trig is set and never reset.                               *)
OpenKeepsTrig(p, m, r) ==
  \/ FreeHandles = {} /\ r = NoHandle /\ UNCHANGED <<tree, fd_stack, obcd_trig>>
  \/ \E i \in FreeHandles :
       /\ \A k \in FreeHandles : i <= k
       /\ IF p = Obcd /\ m = {"r"}
            THEN /\ r = i /\ UNCHANGED tree
                 /\ fd_stack' = [fd_stack EXCEPT ![i] = Opened(p, m, 0)]
                 /\ obcd_trig' = [obcd_trig EXCEPT ![i] = TRUE]
            ELSE /\ IsFile(p) /\ UNCHANGED <<tree, obcd_trig>> /\ r = i
                 /\ fd_stack' = [fd_stack EXCEPT ![i] = Opened(p, m, tree[p])]

(* FS_Open of a path: the first free handle, the card itself if obcd.txt   *)
(* is opened for reading.                                                  *)
FS_Open(p, m, r) ==
  \/ FreeHandles = {} /\ r = NoHandle /\ UNCHANGED <<tree, fd_stack, obcd_trig>>
  \/ \E i \in FreeHandles :
       /\ \A k \in FreeHandles : i <= k
       /\ IF p = Obcd /\ m = {"r"}
            THEN /\ r = i /\ UNCHANGED tree
                 /\ fd_stack' = [fd_stack EXCEPT ![i] = Opened(p, m, 0)]
                 /\ obcd_trig' = [obcd_trig EXCEPT ![i] = TRUE]
            ELSE (f_open(i, p, m) /\ r = i) \/ (f_open_fails(i, p) /\ r = NoHandle)

Given(c, r) == held' = [held EXCEPT ![c] = IF r \in Handles THEN @ \cup {r} ELSE @]

(* IOS_OPEN of a path.                                                     *)
Open(c, p, m) ==
  /\ op = Idle /\ c # DI /\ MayOpen(p, m)
  /\ Cardinality(DOMAIN tree) < MaxEntries \/ p \notin SaveHack
  /\ \E r \in Handles \cup {NoHandle} : FS_Open(p, m, r) /\ Given(c, r)
  /\ UNCHANGED <<op, nandpath, stack, HAXHandle, pending>>

(* IOCTLV 0x60, and then IOS_OPEN of "/AX".                                *)
HaxAsk(p, m) ==
  /\ op = Idle /\ ~pending /\ MayOpen(p, m)
  /\ Cardinality(DOMAIN tree) < MaxEntries \/ p \notin SaveHack
  /\ FS_Open(p, m, HAXHandle') /\ HAXHandle' \in Handles \cup {NoHandle}
  /\ pending' = TRUE
  /\ UNCHANGED <<op, nandpath, stack, held>>

HaxOpen ==
  /\ op = Idle /\ pending /\ pending' = FALSE
  /\ Given(DI, HAXHandle)
  /\ UNCHANGED <<treevars, fd_stack, obcd_trig, HAXHandle>>

-----------------------------------------------------------------------------
(* Mutant: a handle whose f_close fails stays in use.                      *)
CloseOrKeep(c, h) ==
  /\ op = Idle /\ h \in held[c]
  /\ fd_stack' \in {fd_stack, [fd_stack EXCEPT ![h] = Closed]}
  /\ held' = [held EXCEPT ![c] = @ \ {h}]
  /\ UNCHANGED <<treevars, obcd_trig, HAXHandle, pending>>

(* FS_Close: the handle is free afterwards, also if f_close fails, and the *)
(* new size is in the directory only if it does not.                       *)
Close(c, h) ==
  LET f == fd_stack[h]
  IN  /\ op = Idle /\ h \in held[c]
      /\ fd_stack' = [fd_stack EXCEPT ![h] = Closed]
      /\ tree' \in {tree, IF ~obcd_trig[h] /\ "w" \in f.mode
                            THEN [tree EXCEPT ![f.path] = f.fsize] ELSE tree}
      /\ held' = [held EXCEPT ![c] = @ \ {h}]
      /\ UNCHANGED <<op, nandpath, stack, obcd_trig, HAXHandle, pending>>

(* FS_Read and FS_Write of a block of a file; those of the card itself do  *)
(* not touch the file system.                                              *)
Read(c, h) ==
  /\ op = Idle /\ h \in held[c] /\ ~obcd_trig[h] /\ "r" \in fd_stack[h].mode
  /\ fd_stack[h].fptr < fd_stack[h].fsize
  /\ fd_stack' = [fd_stack EXCEPT ![h].fptr = @ + 1]
  /\ UNCHANGED <<treevars, obcd_trig, HAXHandle, held, pending>>

Write(c, h) ==
  /\ op = Idle /\ h \in held[c] /\ ~obcd_trig[h] /\ "w" \in fd_stack[h].mode
  /\ fd_stack[h].fptr < MaxSize
  /\ fd_stack' = [fd_stack EXCEPT ![h].fptr = @ + 1,
                    ![h].fsize = IF fd_stack[h].fptr = @ THEN @ + 1 ELSE @]
  /\ UNCHANGED <<treevars, obcd_trig, HAXHandle, held, pending>>

(* FS_Seek.  f_lseek takes an unsigned offset and stops at the end of the  *)
(* file, so a place before the beginning ends there, too.                  *)
Seek(c, h) ==
  LET f == fd_stack[h]
      base == [set |-> 0, cur |-> f.fptr, end |-> f.fsize]
  IN  /\ op = Idle /\ h \in held[c] /\ ~obcd_trig[h]
      /\ \E whence \in {"set", "cur", "end"}, where \in -1 .. 1 :
           LET at == base[whence] + where
           IN  /\ whence = "set" => at \in 0 .. f.fsize
               /\ fd_stack' = [fd_stack EXCEPT ![h].fptr =
                                 IF at \in 0 .. f.fsize THEN at ELSE f.fsize]
      /\ UNCHANGED <<treevars, obcd_trig, HAXHandle, held, pending>>

-----------------------------------------------------------------------------
CreateAny ==
  \E p \in Path : Create(p, Dir) \/ Create(p, 0)

AskAny ==
  \/ \E p \in Path : NotOpen(p) /\ AskDelete(p)
  \/ \E s \in Path, d \in Targets : NotOpen(s) /\ NotOpen(d) /\ AskMove(s, d)

PowerOff ==
  /\ PowerCut
  /\ fd_stack' = [h \in Handles |-> Closed] /\ obcd_trig' = [h \in Handles |-> FALSE]
  /\ HAXHandle' = 0
  /\ held' = [c \in Clients |-> {}] /\ pending' = FALSE

UseHandle(c, h) == Close(c, h) \/ Read(c, h) \/ Write(c, h) \/ Seek(c, h)

Next ==
  \/ CreateAny /\ UNCHANGED table
  \/ AskAny /\ UNCHANGED table
  \/ Serve /\ UNCHANGED table
  \/ \E c \in Clients, p \in Files, m \in Modes : Open(c, p, m)
  \/ \E p \in Files, m \in Modes : HaxAsk(p, m)
  \/ HaxOpen
  \/ \E c \in Clients, h \in Handles : UseHandle(c, h)
  \/ PowerOff

(* The module answers the request it is at.                                *)
Spec == ServerInit /\ [][Next]_vars /\ WF_vars(Serve /\ UNCHANGED table)

-----------------------------------------------------------------------------
OpenFile == [path : Path, mode : Modes, fptr : 0 .. MaxSize, fsize : 0 .. MaxSize]

TypeOK ==
  /\ DOMAIN tree \subseteq Path /\ \A p \in DOMAIN tree : tree[p] \in {Dir} \cup 0 .. MaxSize
  /\ op \in [kind : {"none", "delete", "clear", "move", "replace", "again", "boot"},
             s : Path \cup {<<>>}, d : Path \cup {<<>>}]
  /\ nandpath \in Seq(Names)
  /\ stack \in Seq([path : Seq(Names), seen : SUBSET Names, LFilePath : Seq(Names)])
  /\ fd_stack \in [Handles -> OpenFile \cup {Closed}]
  /\ \A h \in Handles : fd_stack[h].fptr <= fd_stack[h].fsize
  /\ obcd_trig \in [Handles -> BOOLEAN] /\ HAXHandle \in Handles \cup {NoHandle}
  /\ held \in [Clients -> SUBSET Handles] /\ pending \in BOOLEAN

(* The directories on the way to an entry are there: no deletion, rename   *)
(* or power cut leaves entries that cannot be reached any more.            *)
NoOrphans ==
  \A p \in DOMAIN tree : \A n \in 1 .. Len(p) - 1 : IsDir(SubSeq(p, 1, n))

(* Every entry of fd_stack in use was given to exactly one client, or is   *)
(* the one HAXHandle keeps for DI: no two clients share a file pointer, no *)
(* handle is used after it was closed, and no entry is lost.               *)
OneOwner ==
  /\ \A h \in Handles :
       InUse(h) <=> (\E c \in Clients : h \in held[c]) \/ (pending /\ HAXHandle = h)
  /\ \A c, e \in Clients : c # e => held[c] \cap held[e] = {}
  /\ pending => \A c \in Clients : HAXHandle \notin held[c]

(* Sectors of the card itself are read and written only under a handle     *)
(* that was opened on obcd.txt for that.                                   *)
RawOnlyIfAsked ==
  \A h \in Handles : InUse(h) =>
    (obcd_trig[h] <=> fd_stack[h].path = Obcd /\ fd_stack[h].mode = {"r"})

(* An entry that disappears was below the path of the delete, or of /tmp   *)
(* at the start; or it was moved; or it was replaced by what is still at   *)
(* the source.                                                             *)
VanishesRightly(p) ==
  \/ op.kind \in {"delete", "clear", "boot"} /\ IsPrefix(op.s, p)
  \/ op.kind = "replace" /\ p = op.d /\ op.s \in DOMAIN tree'
  \/ /\ op.kind \in {"move", "again"} /\ IsPrefix(op.s, p)
     /\ Moved(op.s, op.d, p) \in DOMAIN tree'

(* FS_Delete removes nothing outside its directory, although it makes its  *)
(* paths from a nandpath it has not set; and what is being moved is always *)
(* in one of the two places.                                               *)
NothingElseVanishes ==
  [][\A p \in DOMAIN tree \ DOMAIN tree' : VanishesRightly(p)]_tree

(* FS_Delete ends, and every request is answered, unless the power goes    *)
(* off again and again.                                                    *)
Answered == <>[][~PowerOff]_vars => (op # Idle ~> op = Idle)

(* "Folder is not empty and can't be removed without deleting the content  *)
(* first": when FS_Delete returns FS_SUCCESS the content is deleted.       *)
DeleteIsComplete ==
  op.kind = "clear" /\ Len(stack) = 1 /\ Top.LFilePath = <<>> /\ Unseen = {} =>
    Children(op.s) = {}
=============================================================================
