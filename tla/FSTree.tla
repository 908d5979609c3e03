------------------------------- MODULE FSTree -------------------------------
(***************************************************************************)
(* The requests to the FS module that change the directory tree: create,   *)
(* delete and rename of fs/FS.c, and the emptying of /tmp when the module  *)
(* starts (fs/main.c).                                                     *)
(*                                                                         *)
(* The module is one thread, so a request is alone; but a rename onto an   *)
(* existing file and the deletion of a directory take several operations   *)
(* of FatFs, and the console may be switched off between any two.  One     *)
(* step below is one such operation.  FatFs's own operations are taken as  *)
(* atomic, and a path stands for the one FS_AdjustNpath makes of it.       *)
(*                                                                         *)
(* FS_Delete is recursive.  Its path and the path it is at (LFilePath) are *)
(* its own, but nandpath, from which it makes LFilePath, is a variable of  *)
(* the module, which the inner call overwrites.  Every other use sets      *)
(* nandpath first, so its value is not kept when a request has ended.      *)
(***************************************************************************)
EXTENDS Integers, Sequences, SequencesExt

CONSTANTS
  Names,       \* of files and directories
  Tmp,         \* the one of /tmp
  MaxDepth,    \* bound: the length of a path
  MaxEntries   \* bound: files and directories

Path == UNION {[1 .. n -> Names] : n \in 1 .. MaxDepth}

ASSUME FSTreeAssumption ==
  Tmp \in Names /\ MaxDepth \in Nat \ {0} /\ MaxEntries \in Nat \ {0}

VARIABLES
  tree,       \* the entries there are: the size of a file, or Dir
  op,         \* the request the module is at
  nandpath,   \* the variable of the code
  stack       \* the calls of FS_Delete under way

treevars == <<tree, op, nandpath, stack>>

-----------------------------------------------------------------------------
Dir  == -1
Idle == [kind |-> "none", s |-> <<>>, d |-> <<>>]

Exists(p)   == p \in DOMAIN tree
IsDir(p)    == p = <<>> \/ (Exists(p) /\ tree[p] = Dir)
IsFile(p)   == Exists(p) /\ tree[p] # Dir
Parent(p)   == Front(p)
Children(p) == {n \in Names : Exists(Append(p, n))}
Under(p)    == {q \in DOMAIN tree : IsPrefix(p, q)}

(* Mutant: f_unlink does not look into the directory.                      *)
RemovableAlways(p) == Exists(p)

(* What f_unlink removes: a file, or a directory that is empty.            *)
Removable(p) == IsFile(p) \/ (Exists(p) /\ Children(p) = {})

Without(p) == [q \in DOMAIN tree \ {p} |-> tree[q]]
With(p, v) == [q \in DOMAIN tree \cup {p} |-> IF q = p THEN v ELSE tree[q]]

f_unlink(p) == tree' = IF Removable(p) THEN Without(p) ELSE tree

(* f_rename moves a whole directory by moving its entry.                   *)
Moved(s, d, q) ==
  IF IsPrefix(s, q) THEN d \o SubSeq(q, Len(s) + 1, Len(q)) ELSE q
f_rename(s, d) ==
  LET from == [q \in {Moved(s, d, r) : r \in DOMAIN tree} |->
                 CHOOSE r \in DOMAIN tree : Moved(s, d, r) = q]
  IN  tree' = [q \in DOMAIN from |-> tree[from[q]]]

-----------------------------------------------------------------------------
Init ==
  /\ tree = [p \in {<<Tmp>>} |-> Dir]
  /\ op = Idle /\ nandpath = <<>> /\ stack = <<>>

(* FS_CreateFile, FS_CreateDir: the parent must be there, the name not.    *)
CanCreate(p) == ~Exists(p) /\ IsDir(Parent(p))

Create(p, v) ==
  /\ op = Idle /\ CanCreate(p) /\ Len(p) <= MaxDepth
  /\ Cardinality(DOMAIN tree) < MaxEntries
  /\ tree' = With(p, v)
  /\ UNCHANGED <<op, nandpath, stack>>

(* A request arrives.  A directory is not moved into itself.               *)
AskDelete(p) ==
  /\ op = Idle /\ Exists(p)
  /\ op' = [kind |-> "delete", s |-> p, d |-> <<>>]
  /\ UNCHANGED <<tree, nandpath, stack>>

AskMove(s, d) ==
  /\ op = Idle /\ Exists(s) /\ IsDir(Parent(d)) /\ ~IsPrefix(s, d)
  /\ \A q \in Under(s) : Len(Moved(s, d, q)) <= MaxDepth
  /\ op' = [kind |-> "move", s |-> s, d |-> d]
  /\ UNCHANGED <<tree, nandpath, stack>>

(* The request is answered.                                                *)
Done == op' = Idle /\ nandpath' = <<>>

-----------------------------------------------------------------------------
Top == Last(stack)
Call(p) == [path |-> p, seen |-> {}, LFilePath |-> <<>>]

(* Mutant: nandpath is left as it is.                                      *)
FS_DeleteKeepsPath(p, callers) ==
  /\ UNCHANGED nandpath
  /\ stack' = IF IsDir(p) /\ Children(p) # {} THEN Append(callers, Call(p)) ELSE callers

(* FS_Delete begins: it does nothing for what is not a directory, and      *)
(* fails for an empty one.                                                 *)
FS_Delete(p, callers) ==
  /\ nandpath' = p
  /\ stack' = IF IsDir(p) /\ Children(p) # {} THEN Append(callers, Call(p)) ELSE callers

(* FS_DeleteFile: one entry is removed at once; a directory that is not    *)
(* empty is refused by f_unlink and given to FS_Delete.                    *)
DeleteFile ==
  /\ op.kind = "delete" /\ f_unlink(op.s)
  /\ IF Removable(op.s)
       THEN Done /\ UNCHANGED stack
       ELSE op' = [op EXCEPT !.kind = "clear"] /\ FS_Delete(op.s, <<>>)

Unseen == Children(Top.path) \ Top.seen

(* Mutant: an entry that cannot be removed is tried again.                 *)
TurnTriesAgain(n) ==
  LET file == Append(nandpath, n)
  IN  /\ stack # <<>> /\ Top.LFilePath = <<>> /\ n \in Unseen
      /\ f_unlink(file) /\ UNCHANGED <<op, nandpath>>
      /\ stack' = IF Removable(file)
                    THEN [stack EXCEPT ![Len(stack)].seen = @ \cup {n}] ELSE stack

(* The loop of FS_Delete, for the entry n f_readdir found: it is removed   *)
(* under the name LFilePath; if that fails, a directory is emptied by a    *)
(* call and a file ends the loop.                                          *)
Turn(n) ==
  LET file == Append(nandpath, n)
      seen == [Top EXCEPT !.seen = @ \cup {n}]
  IN  /\ stack # <<>> /\ Top.LFilePath = <<>> /\ n \in Unseen
      /\ f_unlink(file)
      /\ CASE Removable(file) ->
                UNCHANGED nandpath /\ stack' = Append(Front(stack), seen)
           [] ~Removable(file) /\ IsDir(Append(Top.path, n)) ->
                FS_Delete(Append(Top.path, n),
                          Append(Front(stack), [seen EXCEPT !.LFilePath = file]))
           [] OTHER -> UNCHANGED nandpath /\ stack' = Front(stack)
      /\ UNCHANGED op

(* Back in the loop after the call, whatever it answered.                  *)
AfterCall ==
  /\ stack # <<>> /\ Top.LFilePath # <<>>
  /\ f_unlink(Top.LFilePath)
  /\ stack' = Append(Front(stack), [Top EXCEPT !.LFilePath = <<>>])
  /\ UNCHANGED <<op, nandpath>>

Return ==
  /\ stack # <<>> /\ Top.LFilePath = <<>> /\ Unseen = {}
  /\ stack' = Front(stack)
  /\ UNCHANGED <<tree, op, nandpath>>

ClearDone ==
  /\ op.kind = "clear" /\ stack = <<>> /\ Done
  /\ UNCHANGED <<tree, stack>>

-----------------------------------------------------------------------------
(* FS_Move: a rename, ...                                                  *)
Move ==
  /\ op.kind = "move"
  /\ IF Exists(op.d)
       THEN op' = [op EXCEPT !.kind = "replace"] /\ nandpath' = op.d /\ UNCHANGED tree
       ELSE Done /\ f_rename(op.s, op.d)
  /\ UNCHANGED stack

(* ... or, onto what exists, "On normal IOS Rename overwrites the target!": *)
(* the target is removed first, unless it is a directory with entries.     *)
Replace ==
  /\ op.kind = "replace" /\ f_unlink(op.d)
  /\ IF Removable(op.d)
       THEN op' = [op EXCEPT !.kind = "again"] /\ UNCHANGED nandpath
       ELSE Done
  /\ UNCHANGED stack

MoveAgain ==
  /\ op.kind = "again" /\ f_rename(op.s, op.d) /\ Done
  /\ UNCHANGED stack

-----------------------------------------------------------------------------
(* The console is switched off and on; the module empties /tmp, ...        *)
PowerCut ==
  /\ op' = [kind |-> "boot", s |-> <<Tmp>>, d |-> <<>>]
  /\ FS_Delete(<<Tmp>>, <<>>)
  /\ UNCHANGED tree

(* ... makes sure there is one, and waits for requests.                    *)
BootDone ==
  /\ op.kind = "boot" /\ stack = <<>> /\ Done
  /\ tree' = IF Exists(<<Tmp>>) THEN tree ELSE With(<<Tmp>>, Dir)
  /\ UNCHANGED stack

Serve ==
  \/ DeleteFile \/ (\E n \in Names : Turn(n)) \/ AfterCall \/ Return \/ ClearDone
  \/ Move \/ Replace \/ MoveAgain \/ BootDone
=============================================================================
