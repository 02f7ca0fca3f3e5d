---------------------------- MODULE FlashUpdate ----------------------------
(***************************************************************************)
(* The four image operations of libflashprog (flashprog.c): erase, read,   *)
(* write and verify the included regions of a layout on one flash chip.    *)
(*                                                                         *)
(* The program is sequential; what makes it hard is the chip.  Programming *)
(* can only clear bits, erasing works on whole blocks of several nested    *)
(* sizes, a block may stick out of the region that is being updated, every *)
(* chip call may fail half way, and a protected chip ignores erases and    *)
(* writes without reporting it.  The mirror of the chip kept in            *)
(* `curcontents' decides what is erased and what is programmed.            *)
(*                                                                         *)
(* A byte is a set of bits, erased when all of them are set.  Offsets are  *)
(* numbers, so that alignment, overlap and order keep their meaning.       *)
(***************************************************************************)
EXTENDS Integers, Sequences, FiniteSets, FiniteSetsExt

CONSTANTS
  Size,        \* chip size in bytes
  Bits,        \* the bits of a byte
  GranKind,    \* flash->chip.gran: "bit", "bytes" or "implicit" (erase)
  Stride,      \* gran_to_bytes(gran)
  NoErase,     \* FEATURE_NO_ERASE
  NumErasers,  \* number of usable erase functions
  Blocks,      \* Blocks[f]: the erase blocks of the f-th usable eraser
  Restorable,  \* chip.unlock registers a restore function for what it lifts
  Requests,    \* the calls a program that uses the library makes
  Initial,     \* the contents the chip may have when it is found
  NoRef,       \* "no reference file"
  MaxFaults,   \* bound: chip calls and allocations that go wrong in a behaviour
  MaxCalls     \* bound: operations in one behaviour

Addr == 0 .. Size - 1
Byte == SUBSET Bits
ERASED == Bits                                   \* ERASED_VALUE()
Buffer == [Addr -> Byte]
Entry == [start : Nat, end : Nat, included : BOOLEAN]
Block == [f : 1 .. NumErasers, s : Addr, e : Addr]

\* get_default_layout(): one included region that spans the chip
DefaultLayout == <<[start |-> 0, end |-> Size - 1, included |-> TRUE]>>

\* A call.  `fits': the caller's buffer has the size of the chip (for a read, at
\* least that size); `verify' and `verifyAll' are flags of the context, `ref' is
\* the reference file of a write
Ops == {"erase", "read", "write", "verify"}
Request == [op : Ops, layout : Seq(Entry), image : Buffer, fits : BOOLEAN,
            verify : BOOLEAN, verifyAll : BOOLEAN, ref : Buffer \cup {NoRef}]

Cells(b) == b.s .. b.e
Overlap(b, c) == b.s <= c.e /\ c.s <= b.e

ASSUME ChipAssumption ==
  /\ Size \in Nat \ {0}
  /\ Stride \in Nat \ {0}
  /\ GranKind \in {"bit", "bytes", "implicit"}
  /\ GranKind # "bytes" => Stride = 1
  /\ NoErase \in BOOLEAN /\ Restorable \in BOOLEAN
  /\ NumErasers \in Nat \ {0}
  /\ Initial \subseteq Buffer
  /\ Requests \subseteq Request
  /\ NoRef \notin Buffer
  /\ MaxFaults \in Nat
  /\ MaxCalls \in Nat

\* selfcheck_eraseblocks(): every eraser covers the chip; create_erase_layout()
\* lays its blocks out one behind the other
ASSUME EraserAssumption ==
  /\ Blocks \in [1 .. NumErasers -> SUBSET Block]
  /\ \A f \in 1 .. NumErasers : \A b \in Blocks[f] : b.f = f /\ b.s <= b.e
  /\ \A f \in 1 .. NumErasers : \A a \in Addr : \E b \in Blocks[f] : a \in Cells(b)
  /\ \A f \in 1 .. NumErasers : \A b, c \in Blocks[f] : Overlap(b, c) => b = c

\* the blocks of an eraser are unions of blocks of the previous one
ASSUME NestingAssumption ==
  \A f \in 2 .. NumErasers : \A b \in Blocks[f - 1] :
    \E c \in Blocks[f] : c.s <= b.s /\ b.e <= c.e

AllBlocks == UNION {Blocks[f] : f \in 1 .. NumErasers}
SizeOf(b) == b.e - b.s + 1

VARIABLES
  flash,     \* the chip's contents
  prot,      \* protection that chip.unlock knows how to lift is in effect
  saved,     \* a chip restore function is registered (chip_restore_fn_count > 0)
  pc,        \* where the running operation is
  req,       \* the call: operation, layout, image, flags
  region,    \* index of the current entry of the layout, 0 before the first
  layer,     \* erasers whose blocks select_erase_functions() has decided on
  selected,  \* eraseblock_data.selected
  blk,       \* the block erase_block() works on
  backup,    \* backup_contents
  pos,       \* next offset write_range() looks at
  cur,       \* curcontents
  old,       \* oldcontents
  new,       \* newcontents
  skipped,   \* all_skipped
  ret,       \* return value
  faults,    \* chip calls that have misbehaved so far
  calls,     \* operations started so far
  before     \* history: contents and protection when the operation began

vars == <<flash, prot, saved, pc, req, region, layer, selected, blk, backup,
          pos, cur, old, new, skipped, ret, faults, calls, before>>

PCs == {"idle", "prepare", "read", "walk", "select", "erase", "erasefn", "check",
        "restore", "write", "combine", "verify", "diagnose", "finalize", "done"}

-----------------------------------------------------------------------------
(* Layouts (layout.c)                                                      *)

\* layout_next_included(): the next included entry, in list order; 0 at the end
NextIncluded(layout, i) ==
  LET later == {j \in DOMAIN layout : j > i /\ layout[j].included}
  IN  IF later = {} THEN 0 ELSE Min(later)

RangeOf(entry) == entry.start .. entry.end
IncludedCells(layout) ==
  Addr \cap UNION {RangeOf(layout[j]) : j \in {i \in DOMAIN layout : layout[i].included}}

\* layout_sanity_checks()
SaneEntry(entry, writeIt) ==
  /\ entry.included => entry.start < Size /\ entry.end < Size
  /\ entry.start <= entry.end
  /\ writeIt /\ entry.included =>
        entry.start % Stride = 0 /\ (entry.end + 1) % Stride = 0

SaneLayout(layout, writeIt) == \A j \in DOMAIN layout : SaneEntry(layout[j], writeIt)

Region == req.layout[region]
RegionBlock == [s |-> Region.start, e |-> Region.end]

-----------------------------------------------------------------------------
(* Write granularity (need_erase, get_next_write)                          *)

\* Mutant: the length is one byte short
GranulesShort(lo, hi) == 0 .. (((hi - lo) \div Stride) - 1)

\* The whole granules of lo..hi, by number; a partial one at the end is not looked at
Granules(lo, hi) == 0 .. (((hi + 1 - lo) \div Stride) - 1)
Granule(lo, i) == lo + i * Stride .. lo + i * Stride + Stride - 1

Differs(have, want, lo, i) == \E a \in Granule(lo, i) : have[a] # want[a]

NeedErase(have, want, lo, hi) ==
  CASE GranKind = "bit"      -> \E a \in lo .. hi : ~(want[a] \subseteq have[a])
    [] GranKind = "bytes"    -> \E i \in Granules(lo, hi) :
                                  /\ Differs(have, want, lo, i)
                                  /\ \E a \in Granule(lo, i) : have[a] # ERASED
    [] GranKind = "implicit" -> FALSE

\* The first run of granules that differ, as a set of offsets
NextWrite(have, want, lo, hi) ==
  LET differing == {i \in Granules(lo, hi) : Differs(have, want, lo, i)}
      run == {i \in differing : Min(differing) .. i \subseteq differing}
  IN  UNION {Granule(lo, i) : i \in run}

-----------------------------------------------------------------------------
(* The chip: what its erase and program functions do to the cells          *)

Blank == [a \in Addr |-> ERASED]
Copied(buf, cells, src) == [a \in Addr |-> IF a \in cells THEN src[a] ELSE buf[a]]

\* Programming only clears bits, unless the chip needs no erase; a protected
\* chip ignores both erasing and programming, and does not tell
EraseCells(cells) ==
  flash' = IF prot THEN flash ELSE Copied(flash, cells, Blank)
ProgramCells(cells, data) ==
  LET result == [a \in Addr |-> IF GranKind = "implicit" \/ NoErase THEN data[a]
                                ELSE flash[a] \cap data[a]]
  IN  flash' = IF prot THEN flash ELSE Copied(flash, cells, result)

\* One more chip call or allocation goes wrong
Fault == faults < MaxFaults /\ faults' = faults + 1
NoFault == UNCHANGED faults

\* A chip call does the whole job, or it goes wrong: then it has done any part of
\* the job, none and all included, and may or may not report that
Erase(b) == EraseCells(Cells(b)) /\ NoFault
EraseTorn(b) == Fault /\ \E part \in SUBSET Cells(b) : EraseCells(part)
Program(cells, data) == ProgramCells(cells, data) /\ NoFault
ProgramTorn(cells, data) == Fault /\ \E part \in SUBSET cells : ProgramCells(part, data)

-----------------------------------------------------------------------------
(* Start and end of an operation                                           *)

Return(r) == ret' = r /\ pc' = "finalize"

Init ==
  /\ flash \in Initial /\ prot \in BOOLEAN
  /\ saved = FALSE /\ pc = "idle" /\ region = 0 /\ layer = 0 /\ selected = {}
  /\ blk = (CHOOSE b \in AllBlocks : TRUE)
  /\ backup = Blank /\ pos = 0 /\ cur = Blank /\ old = Blank /\ new = Blank
  /\ skipped = TRUE /\ ret = 0 /\ faults = 0 /\ calls = 0
  /\ req = [op |-> "read", layout |-> DefaultLayout, image |-> flash, fits |-> TRUE,
            verify |-> FALSE, verifyAll |-> FALSE, ref |-> NoRef]
  /\ before = [flash |-> flash, prot |-> prot]

\* flashprog_flash_erase(), flashprog_image_read(), _write() and _verify(); the
\* buffers come uninitialized from malloc()
Call(r) ==
  /\ pc \in {"idle", "done"} /\ calls < MaxCalls
  /\ calls' = calls + 1
  /\ req' = r /\ new' = r.image /\ region' = 0
  /\ \E junk \in Byte : cur' = [a \in Addr |-> junk] /\ old' = cur'
  /\ before' = [flash |-> flash, prot |-> prot]
  /\ IF r.fits \/ r.op = "erase"
       THEN pc' = "prepare" /\ UNCHANGED ret
       ELSE pc' = "done" /\ ret' = (IF r.op = "write" THEN 4 ELSE 2)
  /\ UNCHANGED <<flash, prot, saved, layer, selected, blk, backup, pos, skipped,
                 faults>>

\* Out of memory, cb_check_image(), chip_safety_check() or
\* layout_sanity_checks() turn the operation down
Refuse ==
  /\ pc = "prepare"
  /\ pc' = "done" /\ ret' = 1
  /\ UNCHANGED <<flash, prot, saved, req, region, layer, selected, blk, backup, pos,
                 cur, old, new, skipped, faults, calls, before>>

\* chip.unlock().  spi_disable_blockprotect_generic() registers a restore function before
\* it writes; no other unlock function registers any (unlock_regspace2_block_generic(),
\* unlock_28f004s5(), unprotect_28sf040(), spi_disable_blockprotect_sst26_global_unprotect(),
\* ...).  Either may leave the chip locked
Unlock ==
  \/ prot' = FALSE /\ saved' = (prot /\ Restorable) /\ NoFault
  \/ prot /\ prot' = TRUE /\ saved' \in BOOLEAN /\ (saved' => Restorable) /\ Fault

\* prepare_flash_access() forgets old restore functions and unlocks the chip,
\* whether that works or not; the operation itself follows
Prepare ==
  /\ pc = "prepare" /\ SaneLayout(req.layout, req.op = "write") /\ Unlock
  /\ pc' = (CASE req.op = "erase"  -> "walk"
              [] req.op = "verify" -> "verify"
              [] OTHER             -> "read")
  /\ UNCHANGED <<flash, req, region, layer, selected, blk, backup, pos, cur, old, new,
                 skipped, ret, calls, before>>

\* finalize_flash_access() runs the restore functions and ignores their result
Finalize ==
  /\ pc = "finalize" /\ pc' = "done" /\ saved' = FALSE
  /\ \/ prot' = (saved \/ prot) /\ NoFault
     \/ saved /\ UNCHANGED prot /\ Fault
  /\ UNCHANGED <<flash, req, region, layer, selected, blk, backup, pos, cur, old, new,
                 skipped, ret, calls, before>>

-----------------------------------------------------------------------------
(* Reading                                                                 *)

\* "Assuming old flash chip contents as ref-file"
AssumeReference ==
  /\ pc = "read" /\ req.op = "write" /\ req.ref # NoRef
  /\ cur' = req.ref /\ old' = (IF req.verifyAll THEN req.ref ELSE old)
  /\ pc' = "walk"
  /\ UNCHANGED <<flash, prot, saved, req, region, layer, selected, blk, backup, pos,
                 new, skipped, ret, faults, calls, before>>

\* flashprog_read_range() over the chip, for verify_whole_chip
ReadWhole ==
  /\ pc = "read" /\ req.op = "write" /\ req.ref = NoRef /\ req.verifyAll
  /\ \/ NoFault /\ old' = flash /\ cur' = flash /\ pc' = "walk" /\ UNCHANGED ret
     \/ Fault /\ Return(1) /\ UNCHANGED <<old, cur>>
  /\ UNCHANGED <<flash, prot, saved, req, region, layer, selected, blk, backup, pos,
                 new, skipped, calls, before>>

\* read_by_layout(): one included region, or the end of the list
ReadRegion ==
  LET n == NextIncluded(req.layout, region) IN
  /\ pc = "read" /\ (req.op = "write" => req.ref = NoRef /\ ~req.verifyAll)
  /\ \/ /\ n = 0 /\ NoFault /\ UNCHANGED cur
        /\ region' = 0
        /\ IF req.op = "read" THEN Return(0) ELSE pc' = "walk" /\ UNCHANGED ret
     \/ /\ n # 0 /\ NoFault /\ UNCHANGED <<pc, ret>>
        /\ cur' = Copied(cur, RangeOf(req.layout[n]), flash)
        /\ region' = n
     \/ n # 0 /\ Fault /\ Return(1) /\ UNCHANGED <<cur, region>>
  /\ UNCHANGED <<flash, prot, saved, req, layer, selected, blk, backup, pos, old,
                 new, skipped, calls, before>>

-----------------------------------------------------------------------------
(* walk_by_layout(): erase what needs it, then program, region by region   *)

Explicit == req.op = "erase"                              \* explicit_erase()
DoErase == Explicit \/ ~NoErase

\* Mutants: the return value of the erase function is passed on; the failure
\* path leaves past finalize_flash_access()
WalkFailsRaw ==
  /\ selected' = {} /\ ret' = -1
  /\ pc' = (IF ~Explicit /\ req.verifyAll THEN "diagnose" ELSE "finalize")
WalkFailsLocked ==
  /\ selected' = {} /\ ret' = (IF Explicit THEN 1 ELSE 2)
  /\ pc' = (IF ~Explicit /\ req.verifyAll THEN "diagnose" ELSE "done")

\* walk_by_layout() gives up; a failed write with verify_whole_chip goes on to
\* look at what has changed
WalkFails ==
  /\ selected' = {}
  /\ ret' = (IF Explicit THEN 1 ELSE 2)
  /\ pc' = (IF ~Explicit /\ req.verifyAll THEN "diagnose" ELSE "finalize")

\* The next included region; at the end of the list the walk has succeeded.
\* Before the first one create_erase_layout() may run out of memory.
NextRegion ==
  LET n == NextIncluded(req.layout, region) IN
  /\ pc = "walk"
  /\ skipped' = (region = 0 \/ skipped)
  /\ \/ /\ n = 0 /\ NoFault
        /\ IF Explicit THEN Return(0) ELSE pc' = "combine" /\ UNCHANGED ret
        /\ UNCHANGED <<region, layer, pos, selected>>
     \/ /\ n # 0 /\ NoFault
        /\ region' = n /\ layer' = 0 /\ pos' = req.layout[n].start
        /\ pc' = (IF DoErase THEN "select" ELSE "write")
        /\ UNCHANGED <<selected, ret>>
     \/ /\ region = 0 /\ DoErase /\ Fault /\ WalkFails
        /\ UNCHANGED <<region, layer, pos>>
  /\ UNCHANGED <<flash, prot, saved, req, blk, backup, cur, old, new, calls, before>>

\* select_erase_functions_rec() for the blocks of the first eraser
SelectLeaves ==
  LET touched == {b \in Blocks[1] : Overlap(b, RegionBlock)}
      needed == {b \in touched :
                   Explicit \/ NeedErase(cur, new, Max({b.s, Region.start}),
                                         Min({b.e, Region.end}))}
  IN  /\ pc = "select" /\ layer = 0
      /\ selected' = (selected \ touched) \cup needed
      /\ layer' = 1
      /\ pc' = (IF NumErasers = 1 THEN "erase" ELSE "select")
      /\ UNCHANGED <<flash, prot, saved, req, region, blk, backup, pos, cur, old, new,
                     skipped, ret, faults, calls, before>>

\* The blocks below b: first_sub_block_index .. last_sub_block_index, recursively
Inside(c, b) == c.f < b.f /\ b.s <= c.s /\ c.e <= b.e
\* What the recursion returns for b: the bytes already selected below it
SelectedBytes(b) == MapThenSumSet(SizeOf, {c \in selected : Inside(c, b)})

\* Mutants: a block may stick out of the region; the blocks below stay selected
WorthwhileAnywhere(b) == SelectedBytes(b) > SizeOf(b) \div 2
DeselectedNone(chosen) == selected

\* A block of the next eraser replaces the blocks selected below it when they
\* make up more than half of it and it does not stick out of the region
\* (select_erase_functions_rec)
Worthwhile(b) ==
  /\ SelectedBytes(b) > SizeOf(b) \div 2
  /\ Region.start <= b.s /\ b.e <= Region.end

\* deselect_erase_block_rec()
Deselected(chosen) == {c \in selected : \A b \in chosen : ~Inside(c, b)}

Promote ==
  LET chosen == {b \in Blocks[layer + 1] : Worthwhile(b)}
  IN  /\ pc = "select" /\ layer \in 1 .. NumErasers - 1
      /\ selected' = Deselected(chosen) \cup chosen
      /\ layer' = layer + 1
      /\ pc' = (IF layer + 1 = NumErasers THEN "erase" ELSE "select")
      /\ UNCHANGED <<flash, prot, saved, req, region, blk, backup, pos, cur, old, new,
                     skipped, ret, faults, calls, before>>

\* walk_eraseblocks() goes through the erasers in order, and through their
\* blocks by address
Before(b, c) == b.f < c.f \/ (b.f = c.f /\ b.s <= c.s)
\* Mutant: what follows the region in its last block is forgotten
UnalignedStart(b) == Region.start > b.s
Unaligned(b) == Region.start > b.s \/ b.e > Region.end

\* The next block, and the start of erase_block(): keep what lies in the block
\* but not in the region
NextBlock ==
  LET todo == {b \in selected : Overlap(b, RegionBlock)}
  IN  /\ pc = "erase"
      /\ \/ /\ todo = {} /\ NoFault
            /\ pc' = (IF Explicit THEN "walk" ELSE "write") /\ pos' = Region.start
            /\ UNCHANGED <<blk, backup, selected, ret>>
         \/ \E b \in todo :
              /\ \A c \in todo : Before(b, c)
              /\ \/ /\ NoFault
                    /\ blk' = b
                    /\ backup' = Copied(Blank, Cells(b) \ RangeOf(Region), flash)
                    /\ pc' = "erasefn"
                    /\ UNCHANGED <<selected, ret>>
                 \/ /\ Unaligned(b) /\ Fault /\ WalkFails
                    /\ UNCHANGED <<blk, backup>>
              /\ UNCHANGED pos
      /\ UNCHANGED <<flash, prot, saved, req, region, layer, cur, old, new, skipped,
                     calls, before>>

EraseBlock ==
  /\ pc = "erasefn" /\ skipped' = FALSE
  /\ \/ (Erase(blk) \/ EraseTorn(blk)) /\ pc' = "check" /\ UNCHANGED <<selected, ret>>
     \/ EraseTorn(blk) /\ WalkFails
  /\ UNCHANGED <<prot, saved, req, region, layer, blk, backup, pos, cur, old, new,
                 calls, before>>

\* Mutants: the block stays selected; only the start of a block is looked at
BlockKept == UNCHANGED selected /\ pc' = "erase"
ErasedStart(b) == flash[b.s] = ERASED

\* The block is done: clean up the erase layout for other regions
BlockDone == selected' = selected \ {blk} /\ pc' = "erase"
\* Mutant: the mirror does not get what was restored
UpdateCurErased(src) ==
  cur' = IF Explicit \/ pc = "restore" THEN cur ELSE Copied(cur, Cells(blk), src)
\* info->curcontents is NULL for an explicit erase
UpdateCur(src) == cur' = IF Explicit THEN cur ELSE Copied(cur, Cells(blk), src)

\* check_erased_range()
ErasedRange(b) == \A a \in Cells(b) : flash[a] = ERASED

CheckErased ==
  /\ pc = "check"
  /\ \/ /\ ErasedRange(blk) /\ NoFault /\ UpdateCur(Blank) /\ UNCHANGED ret
        /\ IF Unaligned(blk)
             THEN pc' = "restore" /\ pos' = blk.s /\ UNCHANGED selected
             ELSE BlockDone /\ UNCHANGED pos
     \/ ~ErasedRange(blk) /\ NoFault /\ WalkFails /\ UNCHANGED <<cur, pos>>
     \/ Fault /\ WalkFails /\ UNCHANGED <<cur, pos>>
  /\ UNCHANGED <<flash, prot, saved, req, region, layer, blk, backup, old, new,
                 skipped, calls, before>>

\* One round of write_range(): program the next run of granules that differ
WriteRun(have, want, hi) ==
  LET run == NextWrite(have, want, pos, hi) IN
  /\ run # {}
  /\ \/ /\ Program(run, want) \/ ProgramTorn(run, want)
        /\ pos' = Max(run) + 1
        /\ UNCHANGED <<pc, ret, selected>>
     \/ ProgramTorn(run, want) /\ WalkFails /\ UNCHANGED pos

\* End of erase_block(): put back what the block held outside of the region
RestoreBlock ==
  /\ pc = "restore"
  /\ \/ WriteRun(Blank, backup, blk.e) /\ UNCHANGED cur
     \/ /\ NextWrite(Blank, backup, pos, blk.e) = {} /\ NoFault
        /\ UpdateCur(backup) /\ BlockDone
        /\ UNCHANGED <<flash, pos, ret>>
  /\ UNCHANGED <<prot, saved, req, region, layer, blk, backup, old, new, skipped,
                 calls, before>>

\* The new contents of the region; all_skipped is cleared once something was
\* written (the code does so at the end of the region and not when a write
\* fails, but nothing reads it before the end of a walk that succeeds)
WriteRegion ==
  /\ pc = "write"
  /\ \/ WriteRun(cur, new, Region.end) /\ skipped' = FALSE
     \/ /\ NextWrite(cur, new, pos, Region.end) = {} /\ NoFault
        /\ pc' = "walk" /\ UNCHANGED <<flash, pos, ret, selected, skipped>>
  /\ UNCHANGED <<prot, saved, req, region, layer, blk, backup, cur, old, new,
                 calls, before>>

-----------------------------------------------------------------------------
(* After the walk                                                          *)

\* "Checking if anything has changed": only the messages depend on it
Diagnose ==
  /\ pc = "diagnose" /\ pc' = "finalize"
  /\ \/ cur' = flash /\ NoFault
     \/ UNCHANGED cur /\ Fault
  /\ UNCHANGED <<flash, prot, saved, req, region, layer, selected, blk, backup, pos,
                 old, new, skipped, ret, calls, before>>

\* combine_image_by_layout(): outside of the included regions the old contents
Combined == Copied(old, IncludedCells(req.layout), new)

\* Verify only if asked to and if we actually changed something
StartVerify ==
  /\ pc = "combine"
  /\ IF req.verify /\ ~skipped
       THEN /\ new' = (IF req.verifyAll THEN Combined ELSE new)
            /\ region' = 0 /\ pc' = "verify" /\ UNCHANGED ret
       ELSE Return(0) /\ UNCHANGED <<new, region>>
  /\ UNCHANGED <<flash, prot, saved, req, layer, selected, blk, backup, pos, cur, old,
                 skipped, faults, calls, before>>

VerifyLayout ==
  IF req.op = "write" /\ req.verifyAll THEN DefaultLayout ELSE req.layout

\* verify_by_layout(): one region, or the end of the list
VerifyRegion ==
  LET n == NextIncluded(VerifyLayout, region)
      range == RangeOf(VerifyLayout[n])
  IN  /\ pc = "verify"
      /\ \/ n = 0 /\ Return(0) /\ NoFault /\ UNCHANGED <<cur, region>>
         \/ /\ n # 0 /\ NoFault /\ cur' = Copied(cur, range, flash)
            /\ IF \A a \in range : flash[a] = new[a]
                 THEN region' = n /\ UNCHANGED <<pc, ret>>
                 ELSE Return(3) /\ UNCHANGED region
         \/ n # 0 /\ Fault /\ Return(1) /\ UNCHANGED <<cur, region>>
      /\ UNCHANGED <<flash, prot, saved, req, layer, selected, blk, backup, pos, old, new,
                     skipped, calls, before>>

-----------------------------------------------------------------------------

Step ==
  \/ Refuse \/ Prepare \/ Finalize
  \/ AssumeReference \/ ReadWhole \/ ReadRegion
  \/ NextRegion \/ SelectLeaves \/ Promote
  \/ NextBlock \/ EraseBlock \/ CheckErased \/ RestoreBlock \/ WriteRegion
  \/ Diagnose \/ StartVerify \/ VerifyRegion

Next == Step \/ \E r \in Requests : Call(r)

Spec == Init /\ [][Next]_vars
\* Every call of the program returns: nothing it waits for is left open here
FairSpec == Spec /\ WF_vars(Step)

-----------------------------------------------------------------------------
(* What the operations promise                                             *)

TrueRef == req.ref \in {NoRef, before.flash}
Expected == Copied(before.flash, IncludedCells(req.layout), req.image)
Succeeded(op) == pc = "done" /\ req.op = op /\ ret = 0

TypeOK ==
  /\ flash \in Buffer /\ prot \in BOOLEAN /\ saved \in BOOLEAN
  /\ pc \in PCs /\ req \in Request
  /\ region \in Nat /\ layer \in 0 .. NumErasers
  /\ selected \subseteq AllBlocks /\ blk \in AllBlocks
  /\ backup \in Buffer /\ pos \in Nat
  /\ cur \in Buffer /\ old \in Buffer /\ new \in Buffer
  /\ skipped \in BOOLEAN /\ ret \in 0 .. 4
  /\ faults \in 0 .. MaxFaults /\ calls \in 0 .. MaxCalls
  /\ before \in [flash : Buffer, prot : BOOLEAN]

\* "Only erase blocks containing included regions will be touched"
\* (flashprog_image_write, flashprog.c), for every operation and whatever fails:
\* a cell that has changed lies in a smallest erase block that overlaps one.
Touchable(layout) ==
  UNION {Cells(b) : b \in {c \in Blocks[1] : \E j \in DOMAIN layout :
           layout[j].included /\ Overlap(c, [s |-> layout[j].start, e |-> layout[j].end])}}
TouchedOnly == \A a \in Addr : flash[a] # before.flash[a] => a \in Touchable(req.layout)

\* The blocks select_erase_functions() chooses never overlap: otherwise
\* walk_eraseblocks() would erase cells twice, and the second erase would take
\* with it what the first one restored outside of the region.
SelectionDisjoint == \A b, c \in selected : Overlap(b, c) => b = c

\* A region is programmed only after everything in it that needs an erase got
\* one: the chip itself, not only its mirror, can take the rest of the data.
\* "This is only possible if all chunks of size @gran are either kept as-is or
\* changed from an all-ones state to any other state" (need_erase, flashprog.c).
EraseBeforeProgram ==
  pc = "write" /\ DoErase /\ faults = 0 /\ TrueRef => ~NeedErase(flash, new, pos, Region.end)

\* When nothing goes wrong a successful write leaves the image in the included
\* regions and everything else as it was, also without any verification
WriteCorrect == Succeeded("write") /\ faults = 0 /\ TrueRef => flash = Expected

\* What no included region asked for survives an operation in which no chip call
\* went wrong, whatever it returned and even if the reference file was wrong
OutsidePreserved ==
  pc = "done" /\ faults = 0 =>
    \A a \in Addr \ IncludedCells(req.layout) : flash[a] = before.flash[a]

\* Every way out of an operation runs the restore function that unlocking has registered,
\* and leaves the protection as it was found unless a chip call went wrong: for a chip
\* whose unlock function registers one, which are those unlocked by the status register
\* (finalize_flash_access(), spi_disable_blockprotect_generic()).  The other chips stay
\* unlocked.  No chip ends up protected that was not, whatever went wrong in this
\* operation or the one before
LocksRestored ==
  pc = "done" => /\ ~saved /\ (prot => before.prot)
                 /\ Restorable /\ faults = 0 => prot = before.prot

\* Every operation returns
Terminates == pc = "prepare" ~> pc = "done"

-----------------------------------------------------------------------------
(* The operations implement FlashImage                                     *)

ImageRequest(r) ==
  [op |-> r.op, cells |-> IncludedCells(r.layout), near |-> Addr \cap Touchable(r.layout),
   image |-> r.image, fits |-> r.fits, verify |-> r.verify, verifyAll |-> r.verifyAll,
   ref |-> r.ref]

Image == INSTANCE FlashImage WITH
  Erased   <- ERASED,
  Requests <- {ImageRequest(r) : r \in Requests},
  chip     <- flash,
  phase    <- IF pc \in {"idle", "done"} THEN pc ELSE "running",
  call     <- ImageRequest(req),
  result   <- ret,
  data     <- cur,
  before   <- before.flash

\* Whatever goes wrong on the way, torn, lost and misreported chip calls and a chip that
\* stays locked included: an operation changes nothing but cells in the smallest erase
\* blocks around the included regions, reading and verifying change nothing, and what it
\* returns is true of the chip (FlashImage).
ImplementsImage == Image!Spec

=============================================================================
