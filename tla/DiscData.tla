------------------------------ MODULE DiscData ------------------------------
(***************************************************************************)
(* How the data of a WBFS image reaches the console: the split files       *)
(* FS[], the open files FC[], the block cache BC[] with its buffer bufrb,  *)
(* and the table that maps the blocks of a disc to those of its image      *)
(* (di/dip.c, FMode = IS_WBFS).                                            *)
(*                                                                         *)
(* An image is a row of numbered units cut into split files.  A block is   *)
(* Units of them, found by way of the usage table, read through whichever  *)
(* split file holds it, and kept in a slot of the block cache.  The DI     *)
(* module is one thread, but a read is several steps here: WBFS_Read loops *)
(* over the split files until everything is read, and whether that loop    *)
(* ends is one of the questions.                                           *)
(***************************************************************************)
EXTENDS Integers, Sequences, FiniteSets

CONSTANTS
  Games,        \* the WBFS images that can be selected
  Offsets,      \* [Games -> Seq(Nat)]: FS[].Offset, where each of their split files ends, in units
  Unused,       \* [Games -> SUBSET Nat]: WBFS sectors the image leaves out
  Sectors,      \* max_wbfs_sec: sectors of a disc
  SectorBlocks, \* blocks in a WBFS sector
  Units,        \* units in a block (wii_sector_size)
  Data, Raw,    \* sizes of a block decrypted (0x7c00) and as stored (0x8000)
  PartUnit,     \* game_part_offset: the first unit of the partition
  Replaced,     \* [Games -> [block, at, size]] or NoFile: a file under /custom
  BlockMax,     \* BLOCKCACHE_MAX
  FileMax,      \* FILECACHE_MAX
  NoFile, Junk

ASSUME DiscDataAssumption ==
  /\ {Sectors, SectorBlocks, Units, Data, Raw, PartUnit, BlockMax, FileMax} \subseteq Nat \ {0}
  /\ Data < Raw /\ NoFile \notin Games /\ "custom" \notin Games
  /\ \A g \in Games :
       /\ Offsets[g] \in Seq(Nat \ {0}) \ {<<>>} /\ Unused[g] \subseteq 0 .. Sectors - 1
       /\ \A i, j \in DOMAIN Offsets[g] : i < j => Offsets[g][i] < Offsets[g][j]

VARIABLES
  game,      \* the image selected last, NoFile before the first
  table,     \* the image whose usage table is in memory: the last that could be opened
  FS,        \* the split files: their first unit, and the one after their last
  FC,        \* open files: what they hold, and at which unit of the image
  FCEntry,   \* the slot the next file goes to
  BC,        \* block cache: the block each slot is said to hold
  bufrb,     \* the units each slot of the buffer really holds
  BCEntry,   \* the slot the next block goes to
  isparsed,  \* 0 no /custom folder, 1 look at the table, 2 files replaced
  op,        \* the read under way
  answer,    \* the last block delivered: what was asked for, what came
  cause      \* the first thing since the selection that may spoil data

dataVars == <<game, table, FS, FC, FCEntry, BC, bufrb, BCEntry, isparsed, op, answer, cause>>

-----------------------------------------------------------------------------
FileSlots  == 1 .. FileMax
BlockSlots == 1 .. BlockMax
NoBlock  == -1
NoOp     == [kind |-> "none", block |-> NoBlock, slot |-> 1, off |-> 0, len |-> 0,
             next |-> 1, split |-> 0, did |-> FALSE]
NoUnit   == <<Junk, 0>>
NoAnswer == [want |-> <<>>, got |-> <<>>]

(* The end of each split file is summed up from the sizes before it; each  *)
(* begins where the last one ends.                                         *)
Before(g, i) == IF i = 1 THEN 0 ELSE Offsets[g][i - 1]
SplitsOf(g)  == [i \in DOMAIN Offsets[g] |-> [g |-> g, from |-> Before(g, i), to |-> Offsets[g][i]]]
ImageEnd(g)  == Offsets[g][Len(Offsets[g])]
Borders(g)   == {Before(g, i) : i \in DOMAIN Offsets[g]}

(* Rebuild_Disc_Usage_Table: for a sector in use, the unused ones before   *)
(* it; for an unused one, those up to the end of its run.                  *)
RunEnd(g, s) == CHOOSE e \in s .. Sectors :
                  e \notin Unused[g] /\ s .. (e - 1) \subseteq Unused[g]
Rebuilt(g, s) == Cardinality(Unused[g] \cap 0 .. (RunEnd(g, s) - 1))

(* The sector the usage table is asked about: it is computed from the      *)
(* decrypted offset, Data units a block, and from the offset of the        *)
(* partition.  The block read is that many sectors further down.           *)
Asked(b)       == (b * Data) \div (SectorBlocks * Raw)
Lies(b)        == b \div SectorBlocks
Physical(g, b) == b - SectorBlocks * Rebuilt(g, Asked(b))
Stored(g, b)   == b - SectorBlocks * Rebuilt(g, Lies(b))

Row(g, p)  == [k \in 1 .. Units |-> <<g, PartUnit + p * Units + k - 1>>]
IsReplaced(g, b) == Replaced[g] # NoFile /\ Replaced[g].block = b
BlocksOf(g) == {b \in 0 .. Sectors * SectorBlocks - 1 : Lies(b) \notin Unused[g]}
Custom(g) == <<<<"custom", g>>>>

-----------------------------------------------------------------------------
DataInit ==
  /\ game = NoFile /\ table = NoFile /\ FS = <<>>
  /\ FC = [s \in FileSlots |-> NoFile] /\ FCEntry = 1
  /\ BC = [s \in BlockSlots |-> NoBlock] /\ BCEntry = 1
  /\ bufrb = [s \in BlockSlots |-> <<>>]
  /\ isparsed = 0 /\ op = NoOp /\ answer = NoAnswer
  /\ cause = "none"

After(what, happened) == IF happened /\ cause = "none" THEN what ELSE cause

(* The index the round-robin of a cache uses next. *)
Slot(entry, max) == IF entry > max THEN 1 ELSE entry

(* WBFS_Read_Block(Physical, slot): the units to read, into which slot, by *)
(* the usage table of image g.  Before there is one, any offset will do.   *)
BlockRead(kind, g, b, slot) ==
  [kind |-> kind, block |-> b, slot |-> slot,
   off |-> IF g = NoFile THEN 0 ELSE PartUnit + Physical(g, b) * Units,
   len |-> Units, next |-> 1, split |-> 0, did |-> FALSE]

(* InitCache, and without its first loop. *)
OldBlocks == BC
NoBlocks == [s \in BlockSlots |-> NoBlock]
NoFiles  == [s \in FileSlots |-> NoFile]

(* InitCache also ends every split file at offset 1, where nothing matches; *)
(* how many there are, splitcount, stays.                                   *)
NoSplits == [i \in DOMAIN FS |-> [FS[i] EXCEPT !.to = 1]]
Unlisted == \A i \in DOMAIN FS : FS[i].to = 1

(* DVDSelectGame: the caches are emptied (the handles in FC are forgotten). *)
(* If the image can be opened its split files are listed, its table is read *)
(* and its header, decrypted, through slot 0 of the buffer.  If not, the    *)
(* emptied lists and the table of the image before it are what reads of the *)
(* new one will work with.                                                  *)
SelectImage(g) ==
  /\ op = NoOp
  /\ game' = g
  /\ FC' = NoFiles
  /\ BC' = NoBlocks
  /\ bufrb' = [s \in BlockSlots |-> <<>>]
  /\ isparsed' = IF Replaced[g] = NoFile THEN 0 ELSE 1
  /\ answer' = NoAnswer
  /\ UNCHANGED <<FCEntry, BCEntry>>
  /\ \/ /\ table' = g /\ FS' = SplitsOf(g)
        /\ op' = BlockRead("header", g, 0, 1)
        /\ cause' = "none"
     \/ /\ UNCHANGED <<table, op>> /\ FS' = NoSplits
        /\ cause' = "failed"

(* DVDLowRead: Search_FST looks for the files under /custom, and serves a  *)
(* replaced file from there; it empties the next slot of FC first.         *)
NextFile == Slot(FCEntry, FileMax)

ReadReplaced(b) ==
  /\ op = NoOp /\ game # NoFile /\ isparsed > 0 /\ IsReplaced(game, b)
  /\ isparsed' = 2
  /\ FC' = [FC EXCEPT ![NextFile] = [g |-> "custom", from |-> Replaced[game].at,
                                     to |-> Replaced[game].at + Replaced[game].size]]
  /\ FCEntry' = NextFile + 1
  /\ answer' = [want |-> Custom(game), got |-> Custom(game)]
  /\ UNCHANGED <<game, table, FS, BC, bufrb, BCEntry, op, cause>>

(* The slots that are said to hold block b; the code copies from each in    *)
(* turn, so the last one is what the console gets.                          *)
Holding(b) == {s \in BlockSlots : BC[s] = b}

(* What Search_FST does on the way to a read of the image: no file is      *)
(* there, the file is not replaced, or the one that replaces it cannot be  *)
(* opened.                                                                 *)
Looked(b) ==
  /\ isparsed' \in IF isparsed > 0 THEN {isparsed, 2} ELSE {0}
  /\ \/ /\ IsReplaced(game, b) => isparsed' < 2
        /\ UNCHANGED <<FC, FCEntry>>
     \/ /\ isparsed' = 2
        /\ FC' = [FC EXCEPT ![NextFile] = NoFile]
        /\ FCEntry' = NextFile

ReadCachedBlock(b) ==
  /\ op = NoOp /\ game # NoFile
  /\ Holding(b) # {}
  /\ LET s == CHOOSE x \in Holding(b) : \A y \in Holding(b) : y <= x
     IN  answer' = [want |-> Row(game, Stored(game, b)), got |-> bufrb[s]]
  /\ Looked(b)
  /\ UNCHANGED <<game, table, FS, BC, bufrb, BCEntry, op, cause>>

ReadBlock(b) ==
  /\ op = NoOp /\ game # NoFile
  /\ Holding(b) = {}
  /\ op' = BlockRead("low", table, b, Slot(BCEntry, BlockMax))
  /\ bufrb' = [bufrb EXCEPT ![Slot(BCEntry, BlockMax)] = <<>>]
  /\ cause' = After("hole", table = game /\ Physical(game, b) # Stored(game, b))
  /\ answer' = NoAnswer
  /\ Looked(b)
  /\ UNCHANGED <<game, table, FS, BC, BCEntry>>

(* WBFS_Encrypted_Read, for the disc's identification: always slot 0 of    *)
(* the buffer, and BC[0] keeps the number it had.                           *)
KeepsNumber(b) == BC
ReadEncrypted(b) ==
  /\ op = NoOp /\ game # NoFile
  /\ op' = BlockRead("header", table, b, 1)
  /\ bufrb' = [bufrb EXCEPT ![1] = <<>>]
  /\ BC' = KeepsNumber(b)
  /\ cause' = After("slot 0", BC[1] \notin {NoBlock, b})
  /\ answer' = NoAnswer
  /\ UNCHANGED <<game, table, FS, FC, FCEntry, BCEntry, isparsed>>

-----------------------------------------------------------------------------
(* WBFS_Read.  Inside a split file: strictly after its first unit. *)
MatchesBeforeLast(off) == {i \in DOMAIN FS : FS[i].from < off /\ off < FS[i].to - 1}
Matches(off) == {i \in DOMAIN FS : FS[i].from < off /\ off < FS[i].to}

(* Reading len units at off through an open file: what is past its end is  *)
(* not read, but counted as read.                                          *)
Unit(f, off)     == IF off >= f.to THEN NoUnit ELSE <<f.g, off>>
Got(f, off, len) == [k \in 1 .. len |-> Unit(f, off + k - 1)]

(* readsize is cut only when the position in the file would pass the end   *)
(* of the split file counted from the beginning of the image.              *)
ReadSize(f, i, off, len) ==
  LET nOffset == off - f.from
  IN  IF nOffset + len > FS[i].to THEN FS[i].to - FS[i].from - nOffset ELSE len

(* The file is read, the loop goes on after slot `next` of FC. *)
Advance(f, i, next) ==
  LET n == ReadSize(f, i, op.off, op.len)
  IN  /\ bufrb' = [bufrb EXCEPT ![op.slot] = @ \o Got(f, op.off, n)]
      /\ op' = [op EXCEPT !.off = @ + n, !.len = @ - n, !.next = next, !.split = i, !.did = TRUE]
      /\ cause' = IF f.g = "custom" THEN After("custom", TRUE) ELSE After("border", op.off + n > f.to)

CachedAt(off, from) == {j \in from .. FileMax :
                          FC[j] # NoFile /\ FC[j].from <= off /\ off < FC[j].to}

EnterSplit ==
  /\ op.len > 0 /\ op.split = 0
  /\ \E i \in Matches(op.off) : op' = [op EXCEPT !.split = i, !.next = 1, !.did = FALSE]
  /\ UNCHANGED <<game, table, FS, FC, FCEntry, BC, bufrb, BCEntry, isparsed, answer, cause>>

ReadThroughCache ==
  /\ op.len > 0 /\ op.split > 0
  /\ LET js == CachedAt(op.off, op.next)
         j  == CHOOSE x \in js : \A y \in js : x <= y
     IN  js # {} /\ Advance(FC[j], op.split, j + 1)
  /\ UNCHANGED <<game, table, FS, FC, FCEntry, BC, BCEntry, isparsed, answer>>

OpenSplit ==
  /\ op.len > 0 /\ op.split > 0 /\ ~op.did /\ CachedAt(op.off, op.next) = {}
  /\ FC' = [FC EXCEPT ![NextFile] = FS[op.split]]
  /\ FCEntry' = NextFile + 1
  /\ Advance(FS[op.split], op.split, FileMax + 1)
  /\ UNCHANGED <<game, table, FS, BC, BCEntry, isparsed, answer>>

(* The inner loop is over, the outer one goes on. *)
LeaveSplit ==
  /\ op.len > 0 /\ op.split > 0 /\ op.did /\ CachedAt(op.off, op.next) = {}
  /\ op' = [op EXCEPT !.split = 0]
  /\ UNCHANGED <<game, table, FS, FC, FCEntry, BC, bufrb, BCEntry, isparsed, answer, cause>>

(* The end of WBFS_Read_Block and of its caller: the block is entered in   *)
(* the cache and delivered.                                                *)
Finish ==
  /\ op' = NoOp
  /\ IF op.kind = "low"
     THEN /\ answer' = [want |-> Row(game, Stored(game, op.block)), got |-> bufrb'[op.slot]]
          /\ BC' = [BC EXCEPT ![op.slot] = op.block]
          /\ BCEntry' = op.slot + 1
     ELSE UNCHANGED <<answer, BC, BCEntry>>

ReadDone ==
  /\ op # NoOp /\ op.len = 0
  /\ bufrb' = bufrb
  /\ Finish
  /\ UNCHANGED <<game, table, FS, FC, FCEntry, isparsed, cause>>

(* The split file cannot be opened: WBFS_Read gives up, WBFS_Read_Block    *)
(* answers success all the same.                                           *)
OpenFails ==
  /\ op.len > 0 /\ op.split > 0 /\ ~op.did /\ CachedAt(op.off, op.next) = {}
  /\ FC' = [FC EXCEPT ![NextFile] = NoFile]
  /\ FCEntry' = NextFile
  /\ bufrb' = [bufrb EXCEPT ![op.slot] = @ \o [k \in 1 .. op.len |-> NoUnit]]
  /\ cause' = After("failed", TRUE)
  /\ Finish
  /\ UNCHANGED <<game, table, FS, isparsed>>

(* No image was ever opened: WBFS_Read finds no split files and fails, or   *)
(* reads the image as a plain file.                                         *)
ReadWithoutSplits ==
  /\ op.len > 0 /\ FS = <<>>
  /\ bufrb' = [bufrb EXCEPT ![op.slot] = @ \o [k \in 1 .. op.len |-> NoUnit]]
  /\ Finish
  /\ UNCHANGED <<game, table, FS, FC, FCEntry, isparsed, cause>>

ReadStep ==
  \/ EnterSplit \/ ReadThroughCache \/ OpenSplit \/ LeaveSplit
  \/ ReadDone \/ OpenFails \/ ReadWithoutSplits

(* No split file holds op.off: the while loop of WBFS_Read goes round. *)
Spin ==
  /\ op.len > 0 /\ op.split = 0 /\ FS # <<>> /\ Matches(op.off) = {}
  /\ UNCHANGED dataVars

DataNext ==
  \/ \E g \in Games : SelectImage(g)
  \/ game # NoFile /\ \E b \in BlocksOf(game) :
       ReadReplaced(b) \/ ReadCachedBlock(b) \/ ReadBlock(b)
  \/ ReadEncrypted(0)
  \/ ReadStep \/ Spin

DataSpec     == DataInit /\ [][DataNext]_dataVars
FairDataSpec == DataSpec /\ WF_dataVars(ReadStep)

-----------------------------------------------------------------------------
(* What is delivered is what was asked for, of the image selected, unless   *)
(* since the selection one of five things has happened: the image or one of *)
(* its split files could not be opened (the error is dropped, dip.c:1917),  *)
(* the identification was read through slot 0 while that slot was in use    *)
(* (dip.c:1942), a block lay across or at a border of split files, a hole   *)
(* lay between the sector the table was asked about and the block's own, or *)
(* a file under /custom is in FC, where WBFS_Read takes its offset for one  *)
(* of the image.  A replaced file that cannot be opened is asked for, and   *)
(* served, as the image has it (dip.c:2115).                                *)
ReadsRight == answer.got # answer.want => cause # "none"

(* The loop of WBFS_Read ends, unless it is left with an offset at which a  *)
(* split file begins (dip.c:1821 tests offset > start), with one past the   *)
(* image, where a hole the table was not asked about can lead it, or with   *)
(* the emptied list of split files of a selection that failed.              *)
ReadEnds == (op # NoOp) ~>
              \/ op = NoOp \/ Unlisted \/ op.off \in Borders(game)
              \/ op.off >= ImageEnd(game) /\ Physical(game, op.block) # Stored(game, op.block)
=============================================================================
