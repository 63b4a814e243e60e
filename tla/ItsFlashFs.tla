----------------------------- MODULE ItsFlashFs -----------------------------
(***************************************************************************)
(* The power-failure-safe file system of Internal Trusted Storage:         *)
(* its_flash_fs.c, its_flash_fs_mblock.c, its_flash_fs_dblock.c and the    *)
(* set and remove requests of tfm_internal_trusted_storage.c.              *)
(*                                                                         *)
(* A request reads the active metadata block, writes the whole of the new  *)
(* metadata and of one data block into scratch blocks, commits with the    *)
(* header of the scratch metadata block and erases what became scratch.    *)
(* The reads depend on nothing the request writes before its commit, so    *)
(* the flash operations of one block update are known when it starts: they *)
(* are kept in plan and executed one by one.  Power may fail between any   *)
(* two of them; a power failure inside a write or an erase leaves a block  *)
(* without a valid header, as one just after it does.  The writes of one   *)
(* loop (the entries of a metadata table, the pieces of a data block) are  *)
(* one operation.                                                          *)
(***************************************************************************)
EXTENDS Integers, Sequences, FiniteSets, FiniteSetsExt

CONSTANTS
    Fids,         \* client id and uid of a file
    Vals,         \* file contents: every byte of one set has the same value
    NumBlocks,    \* cfg->num_blocks
    BlockSize,    \* cfg->block_size, in program units
    MetaSize,     \* size of the header and of all metadata
    MaxFiles,     \* cfg->max_num_files, the spare file included
    MaxFileSize,  \* cfg->max_file_size
    MaxRequest,   \* bound: the largest size a client asks for
    CreateFlags,  \* values of PSA_STORAGE_FLAG_WRITE_ONCE clients use
    BufSize,      \* sizeof(asset_data)
    SwapMod,      \* active_swap_count wraps at SwapMod (256)
    EraseVal,     \* cfg->erase_val
    Nor,          \* programming flash that is not erased fails; it does
                  \* not where writes go to a buffer or to RAM first
    MaxErrors,    \* bound on flash operations that fail
    None,         \* no index, no call, no file
    Free,         \* zeroed file metadata
    Erased        \* erased flash

ASSUME ConfigAssumption ==
    /\ NumBlocks \in Nat \ {0, 1, 3}
    /\ BlockSize \in Nat /\ MetaSize \in 1 .. BlockSize
    /\ MaxFileSize \in 0 .. BlockSize
    /\ NumBlocks = 2 => MaxFileSize <= BlockSize - MetaSize
    /\ MaxFiles \in Nat \ {0} /\ BufSize \in Nat \ {0}
    /\ SwapMod \in Nat \ (0 .. 3) /\ EraseVal \in {0, SwapMod - 1}
    /\ MaxErrors \in Nat /\ Nor \in BOOLEAN /\ CreateFlags \subseteq BOOLEAN
    /\ None \notin Nat /\ Erased \notin [count : Nat, sdb : Nat]
    /\ Free \notin [id : Fids, lb : Nat, data : Int, max : Int, cur : Int,
                    once : BOOLEAN, del : BOOLEAN]

(* What None stands for is no request and no contents of a file, and what  *)
(* Erased stands for is no value that is written.                          *)
ASSUME NoneAssumption ==
    LET done == {"nothing", "some", "all"}
    IN  /\ Erased \notin Vals
        /\ None \notin [val : Vals \cup {None, Erased}, len : Int, once : BOOLEAN]
        /\ None \notin [op : {"remove"}, fid : Fids, done : done]
        /\ None \notin [op : {"set"}, fid : Fids, val : Vals, size : Int,
                        once : BOOLEAN, done : done]
        /\ None \notin [op : {"set"}, fid : Fids, val : Vals, size : Int,
                        once : BOOLEAN, off : Int, done : done]

VARIABLES
    flash,    \* contents of every block, by address
    active,   \* active_metablock; the other one is scratch_metablock
    count,    \* meta_block_header.active_swap_count
    sdb,      \* meta_block_header.scratch_dblock
    mode,     \* off, boot, wipe, idle or busy
    plan,     \* flash operations left of the current block update
    call,     \* the request being carried out
    replaced, \* index of the file to delete in a second block update
    result,   \* outcome of the last request
    errors    \* flash operations that failed

vars == <<flash, active, count, sdb, mode, plan, call, replaced, result, errors>>

Blocks == 0 .. NumBlocks - 1
LBlocks == IF NumBlocks = 2 THEN {0} ELSE 0 .. NumBlocks - 3
Idx == 0 .. MaxFiles - 1
Other(b) == 1 - b
scratch == Other(active)

DataStart(lb) == IF lb = 0 THEN MetaSize ELSE 0

(* What is written replaces what was there.                                *)
Over(f, g) ==
    [x \in DOMAIN f \cup DOMAIN g |-> IF x \in DOMAIN f THEN f[x] ELSE g[x]]

(* A metadata block holds the header, the metadata of the logical blocks   *)
(* and of the files and the data of logical block 0, the others hold data. *)
ErasedBlock(b) ==
    LET start == IF b \in {0, 1} THEN MetaSize ELSE 0
    IN  [header |-> Erased,
         bmeta |-> [lb \in LBlocks |-> Erased],
         fmeta |-> [i \in Idx |-> Erased],
         data |-> [k \in start .. BlockSize - 1 |-> Erased]]

-----------------------------------------------------------------------------
(* Which metadata block is the active one: mblock.c.                       *)

(* its_mblock_validate_header_meta: the swap count is written last.        *)
ValidHeader(b) == flash[b].header # Erased

(* its_mblock_latest_meta_block.                                           *)
LatestMetaBlock(n0, n1) ==
    LET rollover == IF EraseVal = 0 THEN 1 ELSE 0
    IN  IF n1 = rollover /\ n0 # rollover + 1 THEN 1
        ELSE IF n0 = rollover /\ n1 # rollover + 1 THEN 0
        ELSE IF n1 > n0 THEN 1 ELSE 0

(* its_init_get_active_metablock; None when neither block is valid.        *)
ActiveMetaBlock ==
    IF ValidHeader(0) /\ ValidHeader(1)
    THEN LatestMetaBlock(flash[0].header.count, flash[1].header.count)
    ELSE IF ValidHeader(0) THEN 0
    ELSE IF ValidHeader(1) THEN 1
    ELSE None

(* its_mblock_write_scratch_meta_header: the count skips the erase value.  *)
NextCount(n) ==
    LET m == (n + 1) % SwapMod
    IN  IF m = EraseVal THEN (m + 1) % SwapMod ELSE m

-----------------------------------------------------------------------------
(* Reading the active metadata block.                                      *)

file(i) == flash[active].fmeta[i]
block(lb) == flash[active].bmeta[lb]
Used(i) == file(i) # Free

FirstIdx(S) == IF S = {} THEN None ELSE Min(S)

(* its_flash_fs_mblock_get_file_idx_meta and _get_file_idx_flag.           *)
FileIdx(f) == FirstIdx({i \in Idx : Used(i) /\ file(i).id = f})
DeletedIdx == FirstIdx({i \in Idx : Used(i) /\ file(i).del})

(* Mutant: the spare entry is used for a new file.                         *)
AnyFreeIdx(replacing) == FirstIdx({i \in Idx : ~Used(i)})

(* its_get_free_file_index: the first free entry is kept as a spare unless *)
(* an old file is replaced.                                                *)
FreeIdx(replacing) ==
    LET free == {i \in Idx : ~Used(i)}
    IN  IF replacing \/ free = {} THEN FirstIdx(free)
        ELSE FirstIdx(free \ {Min(free)})

(* its_mblock_reserve_file: the first block with enough room.              *)
RoomFor(n) == FirstIdx({lb \in LBlocks : block(lb).free >= n})

(* its_flash_fs_mblock_cur_data_scratch_id.                                *)
ScratchFor(lb) == IF lb = 0 THEN scratch ELSE sdb

-----------------------------------------------------------------------------
(* Block updates as sequences of flash operations.                         *)

(* undo is what scratch_dblock is set to when the write fails.             *)
Write(b, part, cells, undo) ==
    [do |-> "write", blk |-> b, part |-> part, cells |-> cells, undo |-> undo]
SetScratch(b) == [do |-> "scratch", blk |-> b]
Commit == [do |-> "commit"]
Erase(b) == [do |-> "erase", blk |-> b]

(* Mutant: the last cell is not copied.                                    *)
MovedShort(b, from, to, shift) ==
    [k \in from - shift .. to - 2 - shift |-> flash[b].data[k + shift]]

(* its_flash_fs_block_to_block_move of data cells from..to-1, which land   *)
(* shift cells lower.                                                      *)
Moved(b, from, to, shift) ==
    [k \in from - shift .. to - 1 - shift |-> flash[b].data[k + shift]]

(* Mutant: the scratch data block is not exchanged.                        *)
NeverOnLogical(lb, op) == << >>

(* its_flash_fs_mblock_set_data_scratch only acts for dedicated blocks.    *)
OnLogical(lb, op) == IF lb = 0 THEN << >> ELSE <<op>>

(* its_flash_fs_mblock_update_scratch_block_meta: the entry of lb, and the *)
(* other entries copied; logical block 0 moves to the scratch block.       *)
BlockMetaCells(lb, meta) ==
    [l \in LBlocks |->
        LET m == IF l = lb THEN meta ELSE block(l)
        IN  IF l = 0 THEN [m EXCEPT !.phy = scratch] ELSE m]

(* its_flash_fs_mblock_migrate_lb0_data_to_scratch.                        *)
MigrateBlock0 ==
    <<Write(scratch, "data", Moved(active, MetaSize, BlockSize - block(0).free, 0), None)>>

(* Mutant: the old metadata block is erased before the commit.             *)
FinalizeEraseEarly(newScratch) ==
    <<Erase(active), Commit>>
        \o (IF NumBlocks > 2 THEN <<Erase(newScratch)>> ELSE << >>)

(* its_flash_fs_mblock_meta_update_finalize, its_mblock_erase_scratch_     *)
(* blocks: commit, then erase the metadata block that is now scratch, then *)
(* the data scratch block.                                                 *)
Finalize(newScratch) ==
    <<Commit, Erase(active)>>
        \o (IF NumBlocks > 2 THEN <<Erase(newScratch)>> ELSE << >>)

(* its_flash_fs_dblock_write_file: what is before the new data in the      *)
(* block, the new data, and what follows the file.                         *)
FileCells(m, free, off, n, v) ==
    LET src == block(m.lb).phy
        new == m.data + off
        fresh == [k \in new .. new + n - 1 |-> v]
    IN  Over(fresh, Over(Moved(src, DataStart(m.lb), new, 0),
                         Moved(src, m.data + m.max, BlockSize - free, 0)))

(* The rest of its_flash_fs_file_write once the entry idx, its metadata m  *)
(* and the free size of its block are known: n values v go to offset off.  *)
WriteFile(idx, m, free, old, off, n, v) ==
    LET src == block(m.lb).phy
        dst == IF n = 0 THEN src ELSE ScratchFor(m.lb)
        cur == IF n > 0 /\ off + n > m.cur THEN off + n ELSE m.cur
        entries == Idx \ {IF old = idx THEN None ELSE old}
        files == [i \in entries |-> IF i = idx THEN [m EXCEPT !.cur = cur] ELSE file(i)]
        swapped == IF m.lb = 0 \/ n = 0 THEN sdb ELSE src
    IN  (IF n = 0 THEN << >>
         ELSE <<Write(ScratchFor(m.lb), "data", FileCells(m, free, off, n, v), None)>>
              \o OnLogical(m.lb, SetScratch(src)))
        \o <<Write(scratch, "bmeta",
                   BlockMetaCells(m.lb, [phy |-> dst, free |-> free]), None),
             Write(scratch, "fmeta", files, None)>>
        \o (IF m.lb # 0 \/ n = 0 THEN MigrateBlock0 ELSE << >>)
        \o Finalize(swapped)

(* Mutant: the files behind move down by what the deleted file held.       *)
MovedByCurSize(m, d) == [m EXCEPT !.data = @ - d.cur]

(* The new place of a file m behind the deleted file d.                    *)
MovedDown(m, d) == [m EXCEPT !.data = @ - d.max]

(* The files behind a deleted one in its block, which move down.           *)
Behind(idx) ==
    {i \in Idx : /\ i # idx /\ Used(i)
                 /\ file(i).lb = file(idx).lb /\ file(i).data > file(idx).data}

FilesWithout(idx) ==
    [i \in Idx |-> IF i = idx THEN Free
                   ELSE IF i \in Behind(idx) THEN MovedDown(file(i), file(idx))
                   ELSE file(i)]

(* its_flash_fs_dblock_compact_block.                                      *)
CompactedData(idx) ==
    LET d == file(idx)
        src == block(d.lb).phy
        size == MapThenSumSet(LAMBDA i : file(i).max, Behind(idx))
        from == IF Behind(idx) = {} THEN BlockSize
                ELSE Min({file(i).data : i \in Behind(idx)})
    IN  Over(Moved(src, from, from + size, from - d.data),
             Moved(src, DataStart(d.lb), d.data, 0))

(* its_flash_fs_delete_idx.                                                *)
DeleteFile(idx) ==
    LET d == file(idx)
        src == block(d.lb).phy
        dst == ScratchFor(d.lb)
        meta == [phy |-> dst, free |-> block(d.lb).free + d.max]
    IN  <<Write(scratch, "fmeta", FilesWithout(idx), None)>>
        \o (IF d.max = 0
            THEN <<Write(scratch, "bmeta", BlockMetaCells(0, block(0)), None)>>
            ELSE <<Write(dst, "data", CompactedData(idx), None)>>
                 \o OnLogical(d.lb, SetScratch(src))
                 \o <<Write(scratch, "bmeta", BlockMetaCells(d.lb, meta),
                            IF d.lb = 0 THEN None ELSE dst)>>)
        \o (IF d.max = 0 \/ d.lb # 0 THEN MigrateBlock0 ELSE << >>)
        \o Finalize(IF d.max = 0 \/ d.lb = 0 THEN sdb ELSE src)

(* A request that returns an error before it writes anything more.         *)
Fail == [do |-> "fail"]

(* The write of one chunk of a set, c.off being where it starts: the first *)
(* part of its_flash_fs_file_write.  ops is the block update, old the file *)
(* to delete after it.                                                     *)
ChunkSize(c) == Min({c.size - c.off, BufSize})

WriteChunk(c) ==
    LET old == FileIdx(c.fid)
        reuse == old # None /\ (c.off > 0 \/ file(old).max = c.size)
        replace == old # None /\ ~reuse
        lb == RoomFor(c.size)
        idx == IF reuse THEN old ELSE FreeIdx(replace)
        fits == reuse \/ (c.size <= MaxFileSize /\ lb # None /\ idx # None)
        m == IF ~reuse
             THEN [id |-> c.fid, lb |-> lb, data |-> BlockSize - block(lb).free,
                   max |-> c.size, cur |-> 0, once |-> c.once, del |-> FALSE]
             ELSE IF c.off > 0 THEN file(old)
             ELSE [file(old) EXCEPT !.cur = 0, !.once = c.once, !.del = FALSE]
        free == IF reuse THEN block(m.lb).free ELSE block(lb).free - c.size
        mark == IF replace
                THEN <<Write(scratch, "fmeta", [i \in {old} |-> [file(i) EXCEPT !.del = TRUE]],
                             None)>>
                ELSE << >>
    IN  [ops |-> mark \o (IF fits
                          THEN WriteFile(idx, m, free, old, c.off, ChunkSize(c), c.val)
                          ELSE <<Fail>>),
         old |-> IF replace /\ fits THEN old ELSE None]

(* its_flash_fs_mblock_reset_metablock, when no metadata block is valid:   *)
(* active_metablock is 0 and block 1 is written.                           *)
ResetMetaBlock ==
    LET InitialMeta(lb) ==
            IF lb = 0 THEN [phy |-> 1, free |-> BlockSize - MetaSize]
            ELSE [phy |-> lb + 2, free |-> BlockSize]
        dedicated == LBlocks \ {0}
    IN  <<Erase(0), Erase(1), Write(1, "bmeta", [lb \in {0} |-> InitialMeta(lb)], None)>>
        \o [lb \in 1 .. Cardinality(dedicated) |-> Erase(lb + 2)]
        \o <<Write(1, "bmeta", [lb \in dedicated |-> InitialMeta(lb)], None),
             Write(1, "fmeta", [i \in Idx |-> Free], None),
             Commit>>

-----------------------------------------------------------------------------
(* Start-up: tfm_its_init, its_flash_fs_prepare, its_flash_fs_mblock_init. *)

Init ==
    /\ flash = [b \in Blocks |-> ErasedBlock(b)]
    /\ active = 0 /\ count = 0 /\ sdb = 0
    /\ mode = "off"
    /\ plan = << >>
    /\ call = None /\ replaced = None /\ result = "none"
    /\ errors = 0

EraseScratch(b) ==
    <<Erase(Other(b))>>
        \o (IF NumBlocks > 2 THEN <<Erase(flash[b].header.sdb)>> ELSE << >>)

Prepare ==
    /\ mode = "off"
    /\ LET b == ActiveMetaBlock
       IN  \/ /\ b # None
              /\ active' = b
              /\ count' = flash[b].header.count
              /\ sdb' = flash[b].header.sdb
              /\ plan' = EraseScratch(b)
              /\ mode' = "boot"
           \/ /\ b = None
              /\ active' = 0
              /\ count' = (IF EraseVal = 0 THEN 1 ELSE 0)
              /\ sdb' = (IF NumBlocks = 2 THEN 1 ELSE 2)
              /\ plan' = ResetMetaBlock
              /\ mode' = "wipe"
    /\ UNCHANGED <<flash, call, replaced, result, errors>>

(* A reset is followed by a second its_flash_fs_prepare; a file marked for *)
(* deletion is deleted before the first request is served.                 *)
Prepared ==
    /\ plan = << >>
    /\ \/ mode = "wipe" /\ mode' = "off" /\ UNCHANGED plan
       \/ /\ mode = "boot" /\ DeletedIdx # None
          /\ plan' = DeleteFile(DeletedIdx)
          /\ mode' = "recover"
       \/ /\ mode = "recover" \/ (mode = "boot" /\ DeletedIdx = None)
          /\ mode' = "idle"
          /\ UNCHANGED plan
    /\ UNCHANGED <<flash, active, count, sdb, call, replaced, result, errors>>

-----------------------------------------------------------------------------
(* Requests: tfm_its_set and tfm_its_remove.                               *)

WriteProtected(f) == FileIdx(f) # None /\ file(FileIdx(f)).once

Start(c) ==
    LET w == WriteChunk(c)
    IN  /\ plan' = w.ops
        /\ replaced' = w.old
        /\ call' = [c EXCEPT !.off = @ + ChunkSize(c)]

Set(f, v, n, once) ==
    /\ mode = "idle"
    /\ ~WriteProtected(f)
    /\ Start([op |-> "set", fid |-> f, val |-> v, size |-> n, once |-> once,
              off |-> 0, done |-> "nothing"])
    /\ mode' = "busy"
    /\ result' = "none"
    /\ UNCHANGED <<flash, active, count, sdb, errors>>

Remove(f) ==
    /\ mode = "idle"
    /\ FileIdx(f) # None
    /\ ~WriteProtected(f)
    /\ plan' = DeleteFile(FileIdx(f))
    /\ call' = [op |-> "remove", fid |-> f, done |-> "nothing"]
    /\ mode' = "busy"
    /\ result' = "none"
    /\ UNCHANGED <<flash, active, count, sdb, replaced, errors>>

Finished == call.op = "set" => call.off = call.size

(* The end of a block update: delete the replaced file, write the next     *)
(* chunk, or return.                                                       *)
DeleteReplaced ==
    /\ mode = "busy" /\ plan = << >>
    /\ replaced # None
    /\ plan' = DeleteFile(replaced)
    /\ replaced' = None
    /\ UNCHANGED <<flash, active, count, sdb, mode, call, result, errors>>

NextChunk ==
    /\ mode = "busy" /\ plan = << >>
    /\ replaced = None
    /\ ~Finished
    /\ Start(call)
    /\ UNCHANGED <<flash, active, count, sdb, mode, result, errors>>

EndCall(outcome) ==
    /\ mode' = "idle"
    /\ plan' = << >>
    /\ call' = None
    /\ replaced' = None
    /\ result' = outcome

Succeed ==
    /\ mode = "busy" /\ plan = << >>
    /\ replaced = None
    /\ Finished
    /\ EndCall("success")
    /\ UNCHANGED <<flash, active, count, sdb, errors>>

-----------------------------------------------------------------------------
(* Flash operations: its_flash_nor.c, its_flash_nand.c.                    *)

NextOp(do) == plan # << >> /\ Head(plan).do = do

(* A write to flash that is not erased.                                    *)
Dirty(op) == \E a \in DOMAIN op.cells : flash[op.blk][op.part][a] # Erased

WriteStep ==
    /\ NextOp("write")
    /\ LET op == Head(plan)
       IN  /\ ~(Nor /\ Dirty(op))
           /\ flash' = [flash EXCEPT ![op.blk][op.part] = Over(op.cells, @)]
    /\ plan' = Tail(plan)
    /\ UNCHANGED <<active, count, sdb, mode, call, replaced, result, errors>>

ScratchStep ==
    /\ NextOp("scratch")
    /\ sdb' = Head(plan).blk
    /\ plan' = Tail(plan)
    /\ UNCHANGED <<flash, active, count, mode, call, replaced, result, errors>>

(* What the commit of a block update does for the request.  Deleting the   *)
(* replaced file is not visible.                                           *)
DoneAfterCommit ==
    IF call = None \/ (call.op = "set" /\ call.done = "all") THEN call
    ELSE [call EXCEPT !.done = IF Finished THEN "all" ELSE "some"]

CommitStep ==
    /\ NextOp("commit")
    /\ count' = NextCount(count)
    /\ flash' = [flash EXCEPT ![scratch].header = [count |-> count', sdb |-> sdb]]
    /\ active' = scratch
    /\ call' = DoneAfterCommit
    /\ plan' = Tail(plan)
    /\ UNCHANGED <<sdb, mode, replaced, result, errors>>

EraseStep ==
    /\ NextOp("erase")
    /\ flash' = [flash EXCEPT ![Head(plan).blk] = ErasedBlock(Head(plan).blk)]
    /\ plan' = Tail(plan)
    /\ UNCHANGED <<active, count, sdb, mode, call, replaced, result, errors>>

FailStep ==
    /\ NextOp("fail")
    /\ EndCall("failure")
    /\ UNCHANGED <<flash, active, count, sdb, errors>>

(* A write that fails may have programmed some of its cells, an erase may  *)
(* have erased the block.                                                  *)
Partly ==
    LET op == Head(plan)
        clean == {a \in DOMAIN op.cells : flash[op.blk][op.part][a] = Erased}
    IN  \/ UNCHANGED flash
        \/ /\ NextOp("write")
           /\ \E some \in SUBSET (IF Nor THEN clean ELSE DOMAIN op.cells) :
                /\ some \notin {{}, DOMAIN op.cells}
                /\ flash' = [flash EXCEPT ![op.blk][op.part] =
                                Over([a \in some |-> op.cells[a]], @)]
        \/ NextOp("erase") /\ flash' = [flash EXCEPT ![op.blk] = ErasedBlock(op.blk)]

(* A flash operation of a request fails and the request returns an error:  *)
(* compaction restores scratch_dblock, its_flash_fs_file_write does not.   *)
(* Failures during start-up are not modelled.                              *)
FlashFailure ==
    /\ mode = "busy"
    /\ \/ /\ NextOp("write")
          /\ DOMAIN Head(plan).cells # {}
          /\ sdb' = (IF Head(plan).undo = None THEN sdb ELSE Head(plan).undo)
          /\ UNCHANGED count
       \/ NextOp("commit") /\ count' = NextCount(count) /\ UNCHANGED sdb
       \/ NextOp("erase") /\ UNCHANGED <<count, sdb>>
    /\ EndCall("failure")
    /\ \/ NextOp("write") /\ Nor /\ Dirty(Head(plan)) /\ UNCHANGED <<flash, errors>>
       \/ errors < MaxErrors /\ errors' = errors + 1 /\ Partly
    /\ UNCHANGED active

PowerFailure ==
    /\ mode # "off"
    /\ mode' = "off"
    /\ active' = 0 /\ count' = 0 /\ sdb' = 0
    /\ plan' = << >>
    /\ call' = None /\ replaced' = None /\ result' = "none"
    /\ UNCHANGED <<flash, errors>>

Request ==
    \E f \in Fids :
        \/ \E v \in Vals, n \in 0 .. MaxRequest, once \in CreateFlags : Set(f, v, n, once)
        \/ Remove(f)

Progress ==
    \/ Prepare \/ Prepared
    \/ DeleteReplaced \/ NextChunk \/ Succeed
    \/ WriteStep \/ ScratchStep \/ CommitStep \/ EraseStep \/ FailStep

Next == Request \/ Progress \/ FlashFailure \/ PowerFailure

Spec == Init /\ [][Next]_vars

-----------------------------------------------------------------------------
(* What a restart would find of a file.                                    *)

Contents(b, m) ==
    LET cells == {flash[flash[b].bmeta[m.lb].phy].data[k] :
                     k \in m.data .. m.data + m.cur - 1}
    IN  [val |-> IF m.cur = 0 THEN None
                 ELSE IF Cardinality(cells) = 1 THEN CHOOSE v \in cells : TRUE
                 ELSE Erased,
         len |-> m.cur, once |-> m.once]

StoredFile(f) ==
    LET b == ActiveMetaBlock
        found == {i \in Idx : /\ b # None
                             /\ flash[b].fmeta[i] # Free
                             /\ flash[b].fmeta[i].id = f
                             /\ ~flash[b].fmeta[i].del}
    IN  IF found = {} THEN None ELSE Contents(b, flash[b].fmeta[Min(found)])

StoredFiles == [f \in Fids |-> StoredFile(f)]

CurrentCall ==
    IF call = None THEN None
    ELSE IF call.op = "remove" THEN call
    ELSE [op |-> "set", fid |-> call.fid, val |-> call.val, size |-> call.size,
          once |-> call.once, done |-> call.done]

Abstract == INSTANCE FileStore
    WITH files <- StoredFiles, call <- CurrentCall, result <- result,
         NoFile <- None, NoCall <- None

(* The file system implements the store of FileStore: whatever the moment  *)
(* of a power failure, a restart finds every file as a completed write     *)
(* left it; a request that succeeds has done all it was asked for and one  *)
(* that fails nothing (its_flash_fs_file_write, its_flash_fs_delete_idx).  *)
ImplementsFileStore == Abstract!Spec

(* The cells reserved for a file.                                          *)
Extent(i) == file(i).data .. file(i).data + file(i).max - 1

(* Every free byte is accounted for: in each block of the active metadata  *)
(* the files lie one after the other from data_start, without a gap or an  *)
(* overlap, and free_size is exactly what is left (its_mblock_reserve_file *)
(* appends, its_flash_fs_delete_idx compacts).                             *)
SpaceAccounted ==
    mode = "idle" =>
        \A lb \in LBlocks :
            LET here == {i \in Idx : Used(i) /\ file(i).lb = lb}
                cells == UNION {Extent(i) : i \in here}
            IN  /\ cells = DataStart(lb) .. BlockSize - block(lb).free - 1
                /\ \A i, j \in here : i # j => Extent(i) \cap Extent(j) = {}
                /\ \A i \in here : file(i).cur <= file(i).max

(* The physical blocks are shared out: no two logical blocks have the same *)
(* one, block 0 is in the active metadata block, and the scratch data      *)
(* block, which is written and erased, is none of them                     *)
(* (its_flash_fs_mblock_set_data_scratch).                                 *)
ScratchIsNotLive ==
    mode = "idle" =>
        /\ block(0).phy = active
        /\ \A lb1, lb2 \in LBlocks : block(lb1).phy = block(lb2).phy => lb1 = lb2
        /\ NumBlocks > 2 => \A lb \in LBlocks : block(lb).phy # sdb

(* Between requests a file has one entry, none is marked for deletion, so  *)
(* that a lookup by id reads the file a restart would find, and there is a *)
(* spare entry for the next atomic replacement, as long as the flash       *)
(* operations succeed.                                                     *)
OneEntryPerFile ==
    mode = "idle" /\ errors = 0 =>
        /\ \A i, j \in Idx : Used(i) /\ Used(j) /\ file(i).id = file(j).id => i = j
        /\ DeletedIdx = None
        /\ \E i \in Idx : ~Used(i)
        /\ ActiveMetaBlock = active

(* A request changes no file but its own, and between requests nothing     *)
(* changes, wherever power fails.  In a layout of two blocks that is so    *)
(* even when flash operations fail; with dedicated data blocks only until  *)
(* the first one fails, for its_flash_fs_file_write exchanges the scratch  *)
(* data block and does not take that back.                                 *)
OtherFilesIntact ==
    [][errors' = 0 \/ NumBlocks = 2 =>
        \A f \in Fids :
            StoredFile(f)' # StoredFile(f) => call # None /\ call.fid = f]_vars
=============================================================================
