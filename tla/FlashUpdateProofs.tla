------------------------- MODULE FlashUpdateProofs -------------------------
(***************************************************************************)
(* Theorems about FlashUpdate, for every chip, eraser table, layout, image *)
(* and number of faults.                                                   *)
(***************************************************************************)
EXTENDS FlashUpdate, WellFoundedInduction, TLAPS

-----------------------------------------------------------------------------
(* Least and greatest elements                                             *)

Less == OpToRel(<, Nat)

LEMMA LessContains == \A x, y \in Nat : x < y => <<x, y>> \in Less
<1>1. Less = {p \in Nat \X Nat : p[1] < p[2]}
  BY DEF Less, OpToRel
<1> QED BY <1>1

LEMMA LessWellFounded == IsWellFoundedOn(Less, Nat)
  BY NatLessThanWellFounded DEF Less

\* A set of naturals that is not empty has a least element
LEMMA LeastExists ==
  ASSUME NEW S \in SUBSET Nat, S # {}
  PROVE  \E x \in S : \A y \in S : x <= y
<1>1. PICK x \in S : \A y \in S : ~ (<<y, x>> \in Less)
  BY LessWellFounded, WFMin
<1>2. ASSUME NEW y \in S PROVE x <= y
  <2>1. x \in Nat /\ y \in Nat  OBVIOUS
  <2>2. ~ (<<y, x>> \in Less)  BY <1>1
  <2>3. ~ (y < x)  BY <2>1, <2>2, LessContains, Zenon
  <2> QED BY <2>1, <2>3
<1> QED BY <1>2

\* Min of such a set is in it and bounds it
LEMMA MinInSet ==
  ASSUME NEW S \in SUBSET Nat, S # {}
  PROVE  Min(S) \in S /\ \A y \in S : Min(S) <= y
  BY LeastExists DEF Min

\* and so does Max when the set has a bound
LEMMA MaxInSet ==
  ASSUME NEW S \in SUBSET Nat, S # {}, NEW hi \in Nat, \A x \in S : x <= hi
  PROVE  Max(S) \in S /\ \A y \in S : y <= Max(S)
<1> DEFINE T == {hi - x : x \in S}
<1>1. T \in SUBSET Nat /\ T # {}
  <2>1. ASSUME NEW x \in S PROVE hi - x \in Nat
    OBVIOUS
  <2> QED BY <2>1
<1>2. PICK t \in T : \A u \in T : t <= u
  BY <1>1, LeastExists
<1>3. PICK x \in S : t = hi - x
  OBVIOUS
<1>4. ASSUME NEW y \in S PROVE x >= y
  <2>1. hi - x <= hi - y
    BY <1>2, <1>3
  <2> QED BY <2>1
<1> QED BY <1>4 DEF Max

-----------------------------------------------------------------------------
(* Helpers of the model                                                    *)

LEMMA DivBound ==
  ASSUME NEW n \in Int, NEW d \in Nat \ {0}
  PROVE  (n \div d) \in Int /\ (n \div d) * d <= n
  OBVIOUS

LEMMA TimesMonotone ==
  ASSUME NEW i \in Int, NEW j \in Int, NEW d \in Nat \ {0}, i <= j
  PROVE  i * d \in Int /\ i * d <= j * d
  OBVIOUS

\* The whole granules of a range lie in it
LEMMA GranuleInRange ==
  ASSUME NEW lo \in Nat, NEW hi \in Int, NEW i \in Granules(lo, hi)
  PROVE  Granule(lo, i) \subseteq lo .. hi
<1>1. Stride \in Nat \ {0}
  BY ChipAssumption
<1>2. i \in 0 .. (((hi + 1 - lo) \div Stride) - 1)
  BY DEF Granules
<1>3. (hi + 1 - lo) \div Stride \in Int
  BY <1>1, DivBound
<1>4. (i + 1) * Stride <= ((hi + 1 - lo) \div Stride) * Stride
  BY <1>1, <1>2, <1>3, TimesMonotone
<1>5. ((hi + 1 - lo) \div Stride) * Stride <= hi + 1 - lo
  BY <1>1, DivBound
<1>6. (i + 1) * Stride = i * Stride + Stride /\ 0 <= i * Stride /\ i * Stride \in Int
  BY <1>1, <1>2
<1>7. lo + i * Stride + Stride - 1 <= hi /\ lo <= lo + i * Stride
  BY <1>1, <1>3, <1>4, <1>5, <1>6
<1> QED BY <1>1, <1>6, <1>7 DEF Granule

\* get_next_write() stays within the range it is given
LEMMA NextWriteInRange ==
  ASSUME NEW have, NEW want, NEW lo \in Nat, NEW hi \in Int
  PROVE  NextWrite(have, want, lo, hi) \subseteq lo .. hi
  BY GranuleInRange DEF NextWrite

\* and leaves a next offset behind it
LEMMA NextWriteMax ==
  ASSUME NEW have, NEW want, NEW lo \in Nat, NEW hi \in Nat,
         NextWrite(have, want, lo, hi) # {}
  PROVE  LET run == NextWrite(have, want, lo, hi)
         IN  Max(run) \in lo .. hi /\ \A a \in run : a <= Max(run)
<1> DEFINE run == NextWrite(have, want, lo, hi)
<1>1. run \subseteq lo .. hi
  BY NextWriteInRange
<1>2. run \in SUBSET Nat /\ \A x \in run : x <= hi
  BY <1>1
<1>3. Max(run) \in run /\ \A a \in run : a <= Max(run)
  <2> HIDE DEF run
  <2> QED BY <1>2, MaxInSet DEF run
<1> QED BY <1>1, <1>3

\* layout_next_included() returns an included region further down, or 0
LEMMA NextIncludedIsIncluded ==
  ASSUME NEW layout \in Seq(Entry), NEW i \in Nat, NextIncluded(layout, i) # 0
  PROVE  /\ NextIncluded(layout, i) \in DOMAIN layout
         /\ NextIncluded(layout, i) > i
         /\ layout[NextIncluded(layout, i)].included
<1> DEFINE later == {j \in DOMAIN layout : j > i /\ layout[j].included}
<1>1. later \in SUBSET Nat
  OBVIOUS
<1>2. later # {} /\ NextIncluded(layout, i) = Min(later)
  BY DEF NextIncluded
<1>3. Min(later) \in later
  BY <1>1, <1>2, MinInSet
<1> QED BY <1>2, <1>3

LEMMA CopiedType ==
  ASSUME NEW buf \in Buffer, NEW cells, NEW src \in Buffer
  PROVE  Copied(buf, cells, src) \in Buffer
  BY DEF Copied, Buffer

LEMMA BlankType == Blank \in Buffer
  BY DEF Blank, Buffer, ERASED, Byte

-----------------------------------------------------------------------------
(* Type correctness                                                        *)

\* While a region is being worked on, `region' is an included entry
Working == {"select", "erase", "erasefn", "check", "restore", "write"}
RegionOK == pc \in Working => region \in DOMAIN req.layout /\ Region.included

TypeInv == TypeOK /\ RegionOK

LEMMA RegionType ==
  ASSUME TypeInv, pc \in Working
  PROVE  /\ Region \in Entry /\ Region.included
         /\ Region.start \in Nat /\ Region.end \in Nat
<1>1. req.layout \in Seq(Entry)
  BY DEF TypeInv, TypeOK, Request
<1>2. region \in DOMAIN req.layout /\ Region.included
  BY DEF TypeInv, RegionOK
<1>3. Region \in Entry
  BY <1>1, <1>2 DEF Region
<1> QED BY <1>2, <1>3 DEF Entry

LEMMA AllBlocksType ==
  /\ AllBlocks # {}
  /\ \A b \in AllBlocks : /\ b \in Block /\ b.f \in 1 .. NumErasers /\ b \in Blocks[b.f]
                           /\ b.s \in Addr /\ b.e \in Addr /\ b.s \in Nat /\ b.e \in Nat /\ b.s <= b.e
<1>1. 0 \in Addr /\ 1 \in 1 .. NumErasers
  BY ChipAssumption DEF Addr
<1>2. \E b \in Blocks[1] : 0 \in Cells(b)
  BY <1>1, EraserAssumption
<1>3. AllBlocks # {}
  BY <1>1, <1>2 DEF AllBlocks
<1>4. ASSUME NEW b \in AllBlocks
      PROVE  /\ b \in Block /\ b.f \in 1 .. NumErasers /\ b \in Blocks[b.f] /\ b.s <= b.e
  BY EraserAssumption DEF AllBlocks
<1>5. ASSUME NEW b \in AllBlocks
      PROVE  b.s \in Addr /\ b.e \in Addr /\ b.s \in Nat /\ b.e \in Nat
  BY <1>4 DEF Block, Addr
<1> QED BY <1>3, <1>4, <1>5

LEMMA DefaultLayoutType == DefaultLayout \in Seq(Entry) /\ Len(DefaultLayout) = 1
  BY ChipAssumption DEF DefaultLayout, Entry

LEMMA EraseCellsType ==
  ASSUME flash \in Buffer, NEW cells, EraseCells(cells)
  PROVE  flash' \in Buffer
  BY CopiedType, BlankType DEF EraseCells

LEMMA ProgramCellsType ==
  ASSUME flash \in Buffer, NEW data \in Buffer, NEW cells, ProgramCells(cells, data)
  PROVE  flash' \in Buffer
<1> DEFINE result == [a \in Addr |-> IF GranKind = "implicit" \/ NoErase THEN data[a]
                                     ELSE flash[a] \cap data[a]]
<1>1. result \in Buffer
  BY DEF Buffer, Byte
<1>2. Copied(flash, cells, result) \in Buffer
  BY <1>1, CopiedType
<1> QED BY <1>2 DEF ProgramCells

LEMMA InitType == Init => TypeInv
<1> SUFFICES ASSUME Init PROVE TypeInv
  OBVIOUS
<1>1. flash \in Buffer /\ req \in Request
  BY ChipAssumption, DefaultLayoutType DEF Init, Request, Ops
<1>2. blk \in AllBlocks
  BY AllBlocksType DEF Init
<1>3. before \in [flash : Buffer, prot : BOOLEAN]
  BY <1>1 DEF Init
<1>4. /\ region \in Nat /\ layer \in 0 .. NumErasers
      /\ faults \in 0 .. MaxFaults /\ calls \in 0 .. MaxCalls
  BY ChipAssumption DEF Init
<1>5. backup \in Buffer /\ cur \in Buffer /\ old \in Buffer /\ new \in Buffer
  BY BlankType DEF Init
<1>6. TypeOK
  <2>1. pc \in PCs /\ ret \in 0 .. 4 /\ pos \in Nat
    BY DEF Init, PCs
  <2>2. /\ prot \in BOOLEAN /\ saved \in BOOLEAN /\ skipped \in BOOLEAN
        /\ selected \subseteq AllBlocks
    BY DEF Init
  <2> QED BY <1>1, <1>2, <1>3, <1>4, <1>5, <2>1, <2>2 DEF TypeOK
<1>7. RegionOK
  BY DEF Init, RegionOK, Working
<1> QED BY <1>6, <1>7 DEF TypeInv

LEMMA FaultType ==
  ASSUME TypeInv, Fault \/ NoFault
  PROVE  faults' \in 0 .. MaxFaults
  BY ChipAssumption DEF TypeInv, TypeOK, Fault, NoFault

\* walk_by_layout() giving up leaves everything typed
LEMMA WalkFailsType ==
  ASSUME WalkFails
  PROVE  /\ selected' = {} /\ ret' \in 0 .. 4 /\ pc' \in PCs /\ pc' \notin Working
  BY DEF WalkFails, PCs, Working

\* One round of write_range() keeps the types
LEMMA WriteRunType ==
  ASSUME TypeInv, NEW have, NEW want \in Buffer, NEW hi \in Nat, WriteRun(have, want, hi)
  PROVE  /\ flash' \in Buffer /\ pos' \in Nat /\ selected' \subseteq AllBlocks
         /\ ret' \in 0 .. 4 /\ faults' \in 0 .. MaxFaults
         /\ pc' = pc \/ (pc' \in PCs /\ pc' \notin Working)
<1> DEFINE run == NextWrite(have, want, pos, hi)
<1>1. run # {} /\ pos \in Nat /\ flash \in Buffer /\ selected \subseteq AllBlocks /\ ret \in 0 .. 4
  BY DEF WriteRun, TypeInv, TypeOK
<1>2. Max(run) \in pos .. hi
  BY <1>1, NextWriteMax
<1>3. Fault \/ NoFault
  BY DEF WriteRun, Program, ProgramTorn
<1>4. \E cells : ProgramCells(cells, want)
  BY DEF WriteRun, Program, ProgramTorn
<1>5. flash' \in Buffer
  BY <1>1, <1>4, ProgramCellsType
<1>6. CASE pos' = Max(run) + 1 /\ UNCHANGED <<pc, ret, selected>>
  BY <1>1, <1>2, <1>3, <1>5, <1>6, FaultType
<1>7. CASE WalkFails /\ UNCHANGED pos
  BY <1>1, <1>3, <1>5, <1>7, FaultType, WalkFailsType
<1> QED
  BY <1>6, <1>7 DEF WriteRun

LEMMA StepType == TypeInv /\ [Next]_vars => TypeInv'
<1> SUFFICES ASSUME TypeInv, [Next]_vars PROVE TypeInv'
  OBVIOUS
<1>0. /\ req.layout \in Seq(Entry) /\ req.image \in Buffer /\ req.ref \in Buffer \cup {NoRef}
      /\ req.verifyAll \in BOOLEAN
  BY DEF TypeInv, TypeOK, Request
<1>1. CASE UNCHANGED vars
  BY <1>1 DEF vars, Region, TypeInv, TypeOK, RegionOK, Working
<1>2. ASSUME NEW r \in Requests, Call(r) PROVE TypeInv'
  <2>1. r \in Request /\ r.image \in Buffer
    BY ChipAssumption DEF Request
  <2>2. cur' \in Buffer /\ old' \in Buffer
    BY <1>2 DEF Call, Buffer
  <2>3. calls' \in 0 .. MaxCalls
    BY <1>2, ChipAssumption DEF Call, TypeInv, TypeOK
  <2>4. pc' \in PCs /\ pc' \notin Working /\ ret' \in 0 .. 4
    BY <1>2 DEF Call, TypeInv, TypeOK, PCs, Working
  <2>5. before' \in [flash : Buffer, prot : BOOLEAN]
    BY <1>2 DEF Call, TypeInv, TypeOK
  <2>6. region' \in Nat
    BY <1>2 DEF Call
  <2> QED
    BY <1>2, <2>1, <2>2, <2>3, <2>4, <2>5, <2>6 DEF Call, TypeInv, TypeOK, RegionOK
<1>3. CASE Refuse
  BY <1>3 DEF Refuse, TypeInv, TypeOK, RegionOK, Working, PCs
<1>4. CASE Prepare
  <2>1. Fault \/ NoFault
    BY <1>4 DEF Prepare, Unlock
  <2>2. pc' \in PCs /\ pc' \notin Working
    BY <1>4 DEF Prepare, Unlock, PCs, Working
  <2>3. prot' \in BOOLEAN /\ saved' \in BOOLEAN
    BY <1>4 DEF Prepare, Unlock, TypeInv, TypeOK
  <2> QED
    BY <1>4, <2>1, <2>2, <2>3, FaultType DEF Prepare, Unlock, TypeInv, TypeOK, RegionOK
<1>5. CASE Finalize
  <2>1. Fault \/ NoFault
    BY <1>5 DEF Finalize
  <2>2. pc' \in PCs /\ pc' \notin Working
    BY <1>5 DEF Finalize, PCs, Working
  <2>3. prot' \in BOOLEAN /\ saved' \in BOOLEAN
    BY <1>5 DEF Finalize, TypeInv, TypeOK
  <2> QED
    BY <1>5, <2>1, <2>2, <2>3, FaultType DEF Finalize, TypeInv, TypeOK, RegionOK
<1>6. CASE AssumeReference
  BY <1>0, <1>6 DEF AssumeReference, TypeInv, TypeOK, RegionOK, Working, PCs
<1>7. CASE ReadWhole
  <2>1. Fault \/ NoFault
    BY <1>7 DEF ReadWhole
  <2>2. pc' \in PCs /\ pc' \notin Working /\ ret' \in 0 .. 4
    BY <1>7 DEF ReadWhole, PCs, Working, Return, TypeInv, TypeOK
  <2>3. cur' \in Buffer /\ old' \in Buffer
    BY <1>7 DEF ReadWhole, TypeInv, TypeOK
  <2> QED
    BY <1>7, <2>1, <2>2, <2>3, FaultType DEF ReadWhole, TypeInv, TypeOK, RegionOK
<1>8. CASE ReadRegion
  <2>1. Fault \/ NoFault
    BY <1>8 DEF ReadRegion
  <2>2. pc' \in PCs /\ pc' \notin Working /\ ret' \in 0 .. 4
    BY <1>8 DEF ReadRegion, PCs, Working, Return, TypeInv, TypeOK
  <2>3. cur' \in Buffer
    BY <1>8, CopiedType DEF ReadRegion, TypeInv, TypeOK
  <2>4. region' \in Nat
    BY <1>0, <1>8, NextIncludedIsIncluded DEF ReadRegion, TypeInv, TypeOK
  <2> QED
    BY <1>8, <2>1, <2>2, <2>3, <2>4, FaultType DEF ReadRegion, TypeInv, TypeOK, RegionOK
<1>9. CASE NextRegion
  <2> DEFINE n == NextIncluded(req.layout, region)
  <2>0. region \in Nat /\ pc = "walk" /\ (Fault \/ NoFault) /\ skipped' \in BOOLEAN
    BY <1>9 DEF NextRegion, TypeInv, TypeOK
  <2>1. CASE n = 0 /\ NoFault /\ UNCHANGED <<region, layer, pos, selected>>
             /\ IF Explicit THEN Return(0) ELSE pc' = "combine" /\ UNCHANGED ret
    <3>1. pc' \in PCs /\ pc' \notin Working /\ ret' \in 0 .. 4
      BY <2>1 DEF PCs, Working, Return, TypeInv, TypeOK
    <3> QED
      BY <1>9, <2>0, <2>1, <3>1, FaultType DEF NextRegion, TypeInv, TypeOK, RegionOK
  <2>2. CASE n # 0 /\ region' = n /\ layer' = 0 /\ pos' = req.layout[n].start
             /\ pc' = (IF DoErase THEN "select" ELSE "write") /\ UNCHANGED <<selected, ret>>
    <3>1. n \in DOMAIN req.layout /\ req.layout[n].included
      BY <1>0, <2>0, <2>2, NextIncludedIsIncluded
    <3>2. region' \in Nat
      BY <1>0, <2>2, <3>1
    <3>3. pos' \in Nat
      <4>1. req.layout[n] \in Entry  BY <1>0, <3>1
      <4> QED BY <2>2, <4>1 DEF Entry
    <3>4. pc' \in PCs
      BY <2>2 DEF PCs
    <3>5. layer' \in 0 .. NumErasers
      BY <2>2, ChipAssumption
    <3> QED
      BY <1>9, <2>0, <2>2, <3>1, <3>2, <3>3, <3>4, <3>5, FaultType
         DEF NextRegion, TypeInv, TypeOK, RegionOK, Region
  <2>3. CASE WalkFails /\ UNCHANGED <<region, layer, pos>>
    BY <1>9, <2>0, <2>3, FaultType, WalkFailsType DEF NextRegion, TypeInv, TypeOK, RegionOK
  <2> QED
    BY <1>9, <2>1, <2>2, <2>3 DEF NextRegion
<1>10. CASE SelectLeaves
  <2>1. Blocks[1] \subseteq AllBlocks /\ layer' \in 0 .. NumErasers
    BY <1>10, ChipAssumption DEF SelectLeaves, AllBlocks
  <2>2. selected' \subseteq AllBlocks
    BY <1>10, <2>1 DEF SelectLeaves, TypeInv, TypeOK
  <2>3. pc' \in PCs /\ pc \in Working
    BY <1>10 DEF SelectLeaves, PCs, Working
  <2>9. UNCHANGED <<flash, prot, saved, req, region, blk, backup, pos, cur, old, new,
                    skipped, ret, faults, calls, before>>
    BY <1>10 DEF SelectLeaves
  <2>10. TypeOK'
    BY <2>1, <2>2, <2>3, <2>9 DEF TypeInv, TypeOK
  <2>11. RegionOK'
    BY <2>3, <2>9 DEF TypeInv, RegionOK, Region
  <2> QED
    BY <2>10, <2>11 DEF TypeInv
<1>11. CASE Promote
  <2>1. layer + 1 \in 1 .. NumErasers /\ layer' \in 0 .. NumErasers
    BY <1>11, ChipAssumption DEF Promote
  <2>2. Blocks[layer + 1] \subseteq AllBlocks
    BY <2>1 DEF AllBlocks
  <2>3. selected' \subseteq AllBlocks
    BY <1>11, <2>2 DEF Promote, Deselected, TypeInv, TypeOK
  <2>4. pc' \in PCs /\ pc \in Working
    BY <1>11 DEF Promote, PCs, Working
  <2>9. UNCHANGED <<flash, prot, saved, req, region, blk, backup, pos, cur, old, new,
                    skipped, ret, faults, calls, before>>
    BY <1>11 DEF Promote
  <2>10. TypeOK'
    BY <2>1, <2>3, <2>4, <2>9 DEF TypeInv, TypeOK
  <2>11. RegionOK'
    BY <2>4, <2>9 DEF TypeInv, RegionOK, Region
  <2> QED
    BY <2>10, <2>11 DEF TypeInv
<1>12. CASE NextBlock
  <2>0. /\ pc \in Working /\ (Fault \/ NoFault)
        /\ UNCHANGED <<flash, prot, saved, req, region, layer, cur, old, new, skipped,
                       calls, before>>
    BY <1>12 DEF NextBlock, Working
  <2>1. CASE /\ pc' = (IF Explicit THEN "walk" ELSE "write") /\ pos' = Region.start
             /\ UNCHANGED <<blk, backup, selected, ret>>
    BY <2>0, <2>1, RegionType, FaultType DEF TypeInv, TypeOK, RegionOK, Region, PCs
  <2>2. ASSUME NEW b \in selected,
               blk' = b, backup' = Copied(Blank, Cells(b) \ RangeOf(Region), flash),
               pc' = "erasefn", UNCHANGED <<selected, ret, pos>>
        PROVE  TypeInv'
    <3>1. backup' \in Buffer
      BY <2>2, CopiedType, BlankType DEF TypeInv, TypeOK
    <3>2. blk' \in AllBlocks
      BY <2>2 DEF TypeInv, TypeOK
    <3> QED
      BY <2>0, <2>2, <3>1, <3>2, FaultType DEF TypeInv, TypeOK, RegionOK, Region, PCs
  <2>3. CASE WalkFails /\ UNCHANGED <<blk, backup, pos>>
    BY <2>0, <2>3, FaultType, WalkFailsType DEF TypeInv, TypeOK, RegionOK
  <2> QED
    BY <1>12, <2>1, <2>2, <2>3 DEF NextBlock
<1>13. CASE EraseBlock
  <2>0. /\ pc \in Working /\ (Fault \/ NoFault) /\ skipped' \in BOOLEAN
        /\ \E cells : EraseCells(cells)
    BY <1>13 DEF EraseBlock, Erase, EraseTorn, Working
  <2>1. flash' \in Buffer
    BY <2>0, EraseCellsType DEF TypeInv, TypeOK
  <2>2. CASE pc' = "check" /\ UNCHANGED <<selected, ret>>
    BY <1>13, <2>0, <2>1, <2>2, FaultType DEF EraseBlock, TypeInv, TypeOK, RegionOK, Region, PCs
  <2>3. CASE WalkFails
    BY <1>13, <2>0, <2>1, <2>3, FaultType, WalkFailsType DEF EraseBlock, TypeInv, TypeOK, RegionOK
  <2> QED
    BY <1>13, <2>2, <2>3 DEF EraseBlock
<1>14. CASE CheckErased
  <2>0. /\ pc \in Working /\ (Fault \/ NoFault)
        /\ UNCHANGED <<flash, prot, saved, req, region, layer, blk, backup, old, new,
                       skipped, calls, before>>
    BY <1>14 DEF CheckErased, Working
  <2>1. CASE WalkFails /\ UNCHANGED <<cur, pos>>
    BY <2>0, <2>1, FaultType, WalkFailsType DEF TypeInv, TypeOK, RegionOK
  <2>2. CASE /\ UpdateCur(Blank) /\ UNCHANGED ret
             /\ IF Unaligned(blk)
                  THEN pc' = "restore" /\ pos' = blk.s /\ UNCHANGED selected
                  ELSE BlockDone /\ UNCHANGED pos
    <3>1. cur' \in Buffer
      BY <2>2, CopiedType, BlankType DEF UpdateCur, TypeInv, TypeOK
    <3>2. pos' \in Nat /\ selected' \subseteq AllBlocks /\ pc' \in {"restore", "erase"}
      BY <2>2, AllBlocksType DEF BlockDone, TypeInv, TypeOK
    <3> QED
      BY <2>0, <2>2, <3>1, <3>2, FaultType DEF TypeInv, TypeOK, RegionOK, Region, PCs
  <2> QED
    BY <1>14, <2>1, <2>2 DEF CheckErased
<1>15. CASE RestoreBlock
  <2>0. /\ pc = "restore" /\ pc \in Working /\ backup \in Buffer /\ blk.e \in Nat
        /\ UNCHANGED <<prot, saved, req, region, layer, blk, backup, old, new, skipped,
                       calls, before>>
    BY <1>15, AllBlocksType DEF RestoreBlock, Working, TypeInv, TypeOK
  <2>1. CASE WriteRun(Blank, backup, blk.e) /\ UNCHANGED cur
    BY <2>0, <2>1, WriteRunType DEF TypeInv, TypeOK, RegionOK, Region
  <2>2. CASE NoFault /\ UpdateCur(backup) /\ BlockDone /\ UNCHANGED <<flash, pos, ret>>
    <3>1. cur' \in Buffer
      BY <2>0, <2>2, CopiedType DEF UpdateCur, TypeInv, TypeOK
    <3>2. selected' \subseteq AllBlocks /\ pc' \in PCs
      BY <2>2 DEF BlockDone, TypeInv, TypeOK, PCs
    <3> QED
      BY <2>0, <2>2, <3>1, <3>2, FaultType DEF TypeInv, TypeOK, RegionOK, Region
  <2> QED
    BY <1>15, <2>1, <2>2 DEF RestoreBlock
<1>16. CASE WriteRegion
  <2>0. /\ pc = "write" /\ pc \in Working /\ new \in Buffer /\ Region.end \in Nat
        /\ UNCHANGED <<prot, saved, req, region, layer, blk, backup, cur, old, new,
                       calls, before>>
    BY <1>16, RegionType DEF WriteRegion, Working, TypeInv, TypeOK
  <2>1. CASE WriteRun(cur, new, Region.end) /\ skipped' = FALSE
    BY <2>0, <2>1, WriteRunType DEF TypeInv, TypeOK, RegionOK, Region
  <2>2. CASE NoFault /\ pc' = "walk" /\ UNCHANGED <<flash, pos, ret, selected, skipped>>
    BY <2>0, <2>2, FaultType DEF TypeInv, TypeOK, RegionOK, PCs, Working
  <2> QED
    BY <1>16, <2>1, <2>2 DEF WriteRegion
<1>17. CASE Diagnose
  <2>1. Fault \/ NoFault
    BY <1>17 DEF Diagnose
  <2>2. cur' \in Buffer /\ pc' \in PCs /\ pc' \notin Working
    BY <1>17 DEF Diagnose, PCs, Working, TypeInv, TypeOK
  <2> QED
    BY <1>17, <2>1, <2>2, FaultType DEF Diagnose, TypeInv, TypeOK, RegionOK
<1>18. CASE StartVerify
  <2>1. new' \in Buffer
    BY <1>18, CopiedType DEF StartVerify, Combined, TypeInv, TypeOK
  <2>2. pc' \in PCs /\ pc' \notin Working /\ ret' \in 0 .. 4
    BY <1>18 DEF StartVerify, Return, PCs, Working, TypeInv, TypeOK
  <2>3. region' \in Nat
    BY <1>18 DEF StartVerify, TypeInv, TypeOK
  <2> QED
    BY <1>18, <2>1, <2>2, <2>3 DEF StartVerify, TypeInv, TypeOK, RegionOK
<1>19. CASE VerifyRegion
  <2> DEFINE n == NextIncluded(VerifyLayout, region)
  <2>1. Fault \/ NoFault
    BY <1>19 DEF VerifyRegion
  <2>2. pc' \in PCs /\ pc' \notin Working /\ ret' \in 0 .. 4
    BY <1>19 DEF VerifyRegion, Return, PCs, Working, TypeInv, TypeOK
  <2>3. cur' \in Buffer
    BY <1>19, CopiedType DEF VerifyRegion, TypeInv, TypeOK
  <2>4. VerifyLayout \in Seq(Entry) /\ region \in Nat
    BY <1>0, DefaultLayoutType DEF VerifyLayout, TypeInv, TypeOK
  <2>5. region' \in Nat
    BY <1>19, <2>4, NextIncludedIsIncluded DEF VerifyRegion
  <2> QED
    BY <1>19, <2>1, <2>2, <2>3, <2>5, FaultType DEF VerifyRegion, TypeInv, TypeOK, RegionOK
<1> QED
  BY <1>1, <1>2, <1>3, <1>4, <1>5, <1>6, <1>7, <1>8, <1>9, <1>10, <1>11, <1>12, <1>13,
     <1>14, <1>15, <1>16, <1>17, <1>18, <1>19 DEF Next, Step

\* Every variable keeps its type, for every chip and every program that calls it
THEOREM TypeCorrect == Spec => []TypeOK
<1>1. TypeInv => TypeOK
  BY DEF TypeInv
<1> QED
  BY <1>1, InitType, StepType, PTL DEF Spec

-----------------------------------------------------------------------------
(* The selected erase blocks are disjoint                                  *)

\* Every block lies in a block of every later eraser
LEMMA NestedInLater ==
  ASSUME NEW f \in 1 .. NumErasers, NEW g \in 1 .. NumErasers, f < g, NEW b \in Blocks[f]
  PROVE  \E c \in Blocks[g] : c.s <= b.s /\ b.e <= c.e
<1> DEFINE Holds(h) == \E c \in Blocks[h] : c.s <= b.s /\ b.e <= c.e
           S == {h \in f + 1 .. NumErasers : ~Holds(h)}
<1> SUFFICES S = {}
  BY DEF S
<1> SUFFICES ASSUME S # {} PROVE FALSE
  OBVIOUS
<1>1. S \in SUBSET Nat
  OBVIOUS
<1>2. PICK h \in S : \A k \in S : h <= k
  <2> HIDE DEF S
  <2> QED BY <1>1, LeastExists
<1>3. h \in 2 .. NumErasers /\ h - 1 \in f .. NumErasers /\ ~Holds(h)
  BY ChipAssumption
<1>4. PICK d \in Blocks[h - 1] : d.s <= b.s /\ b.e <= d.e
  <2>1. CASE h - 1 = f
    <3>1. b \in Block
      BY EraserAssumption
    <3>2. b.s \in Nat /\ b.e \in Nat
      BY <3>1 DEF Block, Addr
    <3> QED BY <2>1, <3>2
  <2>2. CASE h - 1 # f
    <3>1. h - 1 \in f + 1 .. NumErasers /\ h - 1 \notin S
      BY <1>2, <1>3, <2>2
    <3> QED BY <3>1
  <2> QED BY <2>1, <2>2
<1>5. PICK c \in Blocks[h] : c.s <= d.s /\ d.e <= c.e
  BY <1>3, NestingAssumption
<1>6. b \in Block /\ c \in Block /\ d \in Block
  BY <1>3, EraserAssumption
<1>7. c.s <= b.s /\ b.e <= c.e
  BY <1>4, <1>5, <1>6 DEF Block, Addr
<1> QED BY <1>3, <1>7

\* so a block that overlaps one of a later eraser lies in it
LEMMA OverlapIsInside ==
  ASSUME NEW b \in AllBlocks, NEW c \in AllBlocks, b.f < c.f, Overlap(b, c)
  PROVE  Inside(b, c)
<1>1. /\ b.f \in 1 .. NumErasers /\ b \in Blocks[b.f] /\ b.s \in Nat /\ b.e \in Nat /\ b.s <= b.e
      /\ c.f \in 1 .. NumErasers /\ c \in Blocks[c.f] /\ c.s \in Nat /\ c.e \in Nat
  BY AllBlocksType
<1>2. PICK d \in Blocks[c.f] : d.s <= b.s /\ b.e <= d.e
  BY <1>1, NestedInLater
<1>3. d \in AllBlocks
  BY <1>1 DEF AllBlocks
<1>4. d.s \in Nat /\ d.e \in Nat
  BY <1>3, AllBlocksType
<1>5. Overlap(c, d)
  BY <1>1, <1>2, <1>4 DEF Overlap
<1>6. c = d
  BY <1>1, <1>5, EraserAssumption
<1> QED BY <1>1, <1>2, <1>6 DEF Inside

Erasing == {"select", "erase", "erasefn", "check", "restore"}

\* Outside of an erase nothing is selected; within it, only blocks that overlap
\* the region, and while blocks are selected only those of the erasers decided on
SelInv ==
  /\ SelectionDisjoint
  /\ pc \notin Erasing => selected = {}
  /\ pc \in Erasing => \A b \in selected : Overlap(b, RegionBlock)
  /\ pc = "select" => \A b \in selected : b.f <= layer
  /\ pc \in {"erasefn", "check", "restore"} => blk \in selected

LEMMA SelInit == Init => SelInv
  BY DEF Init, SelInv, SelectionDisjoint, Erasing

LEMMA SelectLeavesSel == TypeInv /\ SelInv /\ SelectLeaves => SelInv'
<1> SUFFICES ASSUME TypeInv, SelInv, SelectLeaves PROVE SelInv'
  OBVIOUS
<1>1. pc = "select" /\ layer = 0 /\ layer' = 1 /\ pc' \in {"select", "erase"}
  BY DEF SelectLeaves
<1>2. selected = {}
  <2>1. \A b \in selected : b.f \in 1 .. NumErasers /\ b.f <= 0
    BY <1>1, AllBlocksType DEF SelInv, TypeInv, TypeOK
  <2> QED BY <2>1
<1>3. \A b \in selected' : b \in Blocks[1] /\ Overlap(b, RegionBlock)
  BY <1>2 DEF SelectLeaves
<1>4. 1 \in 1 .. NumErasers
  BY ChipAssumption
<1>5. \A b \in selected' : b.f = 1
  BY <1>3, <1>4, EraserAssumption
<1>6. SelectionDisjoint'
  BY <1>3, <1>4, EraserAssumption DEF SelectionDisjoint
<1>7. RegionBlock' = RegionBlock
  BY DEF SelectLeaves, RegionBlock, Region
<1> QED
  BY <1>1, <1>3, <1>5, <1>6, <1>7 DEF SelInv, Erasing

LEMMA PromoteSel == TypeInv /\ SelInv /\ Promote => SelInv'
<1> SUFFICES ASSUME TypeInv, SelInv, Promote PROVE SelInv'
  OBVIOUS
<1> DEFINE chosen == {b \in Blocks[layer + 1] : Worthwhile(b)}
<1>1. /\ pc = "select" /\ layer \in 1 .. NumErasers - 1 /\ layer' = layer + 1
      /\ layer + 1 \in 1 .. NumErasers /\ pc' \in {"select", "erase"}
      /\ selected' = Deselected(chosen) \cup chosen
  BY ChipAssumption DEF Promote
<1>2. chosen \subseteq AllBlocks /\ selected \subseteq AllBlocks
  BY <1>1 DEF AllBlocks, TypeInv, TypeOK
<1>3. ASSUME NEW b \in chosen PROVE b.f = layer + 1 /\ Overlap(b, RegionBlock)
  <2>1. b.f = layer + 1
    BY <1>1, EraserAssumption
  <2>2. Region.start <= b.s /\ b.e <= Region.end
    BY DEF Worthwhile
  <2>3. b.s \in Nat /\ b.e \in Nat /\ b.s <= b.e
    BY <1>2, AllBlocksType
  <2>4. Region.start \in Nat /\ Region.end \in Nat
    BY <1>1, RegionType DEF Working
  <2> QED BY <2>1, <2>2, <2>3, <2>4 DEF Overlap, RegionBlock
<1>4. ASSUME NEW d \in Deselected(chosen)
      PROVE  d \in selected /\ d.f <= layer /\ Overlap(d, RegionBlock) /\ \A b \in chosen : ~Inside(d, b)
  BY <1>1 DEF Deselected, SelInv, Erasing
<1>5. ASSUME NEW d \in Deselected(chosen), NEW b \in chosen PROVE ~Overlap(d, b)
  <2>1. d \in AllBlocks /\ b \in AllBlocks /\ d.f \in 1 .. NumErasers
    BY <1>2, <1>4, AllBlocksType
  <2>2. d.f < b.f
    BY <1>1, <1>3, <1>4, <2>1
  <2> QED BY <1>4, <2>1, <2>2, OverlapIsInside
<1>6. ASSUME NEW b \in selected', NEW c \in selected', Overlap(b, c) PROVE b = c
  <2>1. CASE b \in chosen /\ c \in chosen
    BY <1>1, <1>6, <2>1, EraserAssumption
  <2>2. CASE b \in Deselected(chosen) /\ c \in Deselected(chosen)
    BY <1>4, <1>6, <2>2 DEF SelInv, SelectionDisjoint
  <2>3. CASE b \in Deselected(chosen) /\ c \in chosen
    BY <1>5, <1>6, <2>3
  <2>4. CASE b \in chosen /\ c \in Deselected(chosen)
    <3>1. Overlap(c, b)
      BY <1>6 DEF Overlap
    <3> QED BY <1>5, <2>4, <3>1
  <2> QED BY <1>1, <2>1, <2>2, <2>3, <2>4
<1>7. \A b \in selected' : b.f <= layer'
  <2>1. ASSUME NEW d \in Deselected(chosen) PROVE d.f <= layer + 1
    BY <1>1, <1>2, <1>4, AllBlocksType
  <2> QED BY <1>1, <1>3, <2>1
<1>8. RegionBlock' = RegionBlock
  BY DEF Promote, RegionBlock, Region
<1>9. \A b \in selected' : Overlap(b, RegionBlock')
  BY <1>1, <1>3, <1>4, <1>8
<1> QED
  BY <1>1, <1>6, <1>7, <1>9 DEF SelInv, Erasing, SelectionDisjoint

LEMMA SelStep == TypeInv /\ SelInv /\ [Next]_vars => SelInv'
<1> SUFFICES ASSUME TypeInv, SelInv, [Next]_vars PROVE SelInv'
  OBVIOUS
<1> USE DEF SelInv, SelectionDisjoint, Erasing
<1>1. CASE UNCHANGED vars
  BY <1>1 DEF vars, RegionBlock, Region
<1>2. ASSUME NEW r \in Requests, Call(r) PROVE SelInv'
  BY <1>2 DEF Call
<1>3. CASE Refuse \/ Prepare \/ Finalize \/ AssumeReference \/ ReadWhole \/ ReadRegion
           \/ Diagnose \/ StartVerify \/ VerifyRegion
  <2>1. selected' = {} /\ pc' \notin Erasing
    BY <1>3 DEF Refuse, Prepare, Finalize, AssumeReference, ReadWhole, ReadRegion,
                Diagnose, StartVerify, VerifyRegion, Return
  <2> QED BY <2>1
<1>4. CASE NextRegion
  <2>1. selected' = {} /\ pc' \notin {"erasefn", "check", "restore"}
    BY <1>4 DEF NextRegion, Return, WalkFails
  <2> QED BY <2>1
<1>5. CASE SelectLeaves
  BY <1>5, SelectLeavesSel
<1>6. CASE Promote
  BY <1>6, PromoteSel
<1>7. CASE NextBlock
  <2>0. pc = "erase" /\ RegionBlock' = RegionBlock
    BY <1>7 DEF NextBlock, RegionBlock, Region
  <2>1. CASE {b \in selected : Overlap(b, RegionBlock)} = {} /\ UNCHANGED selected
             /\ pc' = (IF Explicit THEN "walk" ELSE "write")
    BY <2>0, <2>1
  <2>2. CASE \E b \in selected : blk' = b /\ pc' = "erasefn" /\ UNCHANGED selected
    BY <2>0, <2>2
  <2>3. CASE WalkFails
    BY <2>3 DEF WalkFails
  <2> QED BY <1>7, <2>1, <2>2, <2>3 DEF NextBlock
<1>8. CASE EraseBlock
  <2>0. pc = "erasefn" /\ RegionBlock' = RegionBlock /\ UNCHANGED blk
    BY <1>8 DEF EraseBlock, RegionBlock, Region
  <2>1. CASE pc' = "check" /\ UNCHANGED selected
    BY <2>0, <2>1
  <2>2. CASE WalkFails
    BY <2>2 DEF WalkFails
  <2> QED BY <1>8, <2>1, <2>2 DEF EraseBlock
<1>9. CASE CheckErased
  <2>0. pc = "check" /\ RegionBlock' = RegionBlock /\ UNCHANGED blk
    BY <1>9 DEF CheckErased, RegionBlock, Region
  <2>1. CASE pc' = "restore" /\ UNCHANGED selected
    BY <2>0, <2>1
  <2>2. CASE BlockDone
    BY <2>0, <2>2 DEF BlockDone
  <2>3. CASE WalkFails
    BY <2>3 DEF WalkFails
  <2> QED BY <1>9, <2>1, <2>2, <2>3 DEF CheckErased
<1>10. CASE RestoreBlock
  <2>0. pc = "restore" /\ RegionBlock' = RegionBlock /\ UNCHANGED blk
    BY <1>10 DEF RestoreBlock, RegionBlock, Region
  <2>1. CASE UNCHANGED <<pc, selected>>
    BY <2>0, <2>1
  <2>2. CASE BlockDone
    BY <2>0, <2>2 DEF BlockDone
  <2>3. CASE WalkFails
    BY <2>3 DEF WalkFails
  <2> QED BY <1>10, <2>1, <2>2, <2>3 DEF RestoreBlock, WriteRun
<1>11. CASE WriteRegion
  <2>0. pc = "write" /\ selected = {}
    BY <1>11 DEF WriteRegion
  <2>1. CASE pc' \in {"write", "walk"} /\ UNCHANGED selected
    BY <2>0, <2>1
  <2>2. CASE WalkFails
    BY <2>2 DEF WalkFails
  <2> QED BY <1>11, <2>0, <2>1, <2>2 DEF WriteRegion, WriteRun
<1> QED
  BY <1>1, <1>2, <1>3, <1>4, <1>5, <1>6, <1>7, <1>8, <1>9, <1>10, <1>11 DEF Next, Step

\* No cell is in two of the blocks that are erased for a region, whatever the
\* eraser tables of the chip, as long as they nest
THEOREM SelectionIsDisjoint == Spec => []SelectionDisjoint
<1>1. SelInv => SelectionDisjoint
  BY DEF SelInv
<1> QED
  BY <1>1, InitType, StepType, SelInit, SelStep, PTL DEF Spec

-----------------------------------------------------------------------------
(* Only erase blocks that contain included regions are touched             *)

\* Cells in which the chip's contents may change
Reach == Touchable(req.layout)

\* The regions at work are sane; every selected block lies within reach, so does
\* what is left to program; and nothing out of reach has changed
RightPos ==
  /\ pc = "restore" => blk.s <= pos
  /\ pc = "write" => Region.start <= pos
TouchInv ==
  /\ pc \notin {"idle", "prepare", "done"} => \E w \in BOOLEAN : SaneLayout(req.layout, w)
  /\ \A b \in selected : Cells(b) \subseteq Reach
  /\ RightPos
  /\ TouchedOnly

LEMMA RegionSane ==
  ASSUME TypeInv, TouchInv, pc \in Working
  PROVE  Region.start <= Region.end /\ Region.end < Size
<1>1. PICK w \in BOOLEAN : SaneLayout(req.layout, w)
  BY DEF TouchInv, Working
<1>2. region \in DOMAIN req.layout /\ Region.included
  BY DEF TypeInv, RegionOK
<1>3. SaneEntry(Region, w)
  BY <1>1, <1>2 DEF SaneLayout, Region
<1> QED BY <1>2, <1>3 DEF SaneEntry

LEMMA WithinReach ==
  ASSUME TypeInv, TouchInv, pc \in Working, NEW b \in Blocks[1], Overlap(b, RegionBlock)
  PROVE  Cells(b) \subseteq Reach
<1>1. region \in DOMAIN req.layout /\ Region.included
  BY DEF TypeInv, RegionOK
<1>2. Overlap(b, [s |-> req.layout[region].start, e |-> req.layout[region].end])
  BY DEF RegionBlock, Region
<1> QED BY <1>1, <1>2 DEF Reach, Touchable, Region

\* The whole region is within reach, as the smallest blocks cover the chip
LEMMA RegionWithinReach ==
  ASSUME TypeInv, TouchInv, pc \in Working
  PROVE  RangeOf(Region) \subseteq Reach
<1> SUFFICES ASSUME NEW a \in RangeOf(Region) PROVE a \in Reach
  OBVIOUS
<1>1. Region.start \in Nat /\ Region.end \in Nat /\ Region.end < Size
  BY RegionType, RegionSane
<1>2. a \in Addr /\ 1 \in 1 .. NumErasers /\ Region.start <= a /\ a <= Region.end
  BY <1>1, ChipAssumption DEF Addr, RangeOf
<1>3. PICK b \in Blocks[1] : a \in Cells(b)
  BY <1>2, EraserAssumption
<1>4. b \in AllBlocks
  BY <1>2 DEF AllBlocks
<1>5. Overlap(b, RegionBlock)
  <2>1. b.s \in Nat /\ b.e \in Nat /\ a \in Nat
    BY <1>2, <1>4, AllBlocksType DEF Addr
  <2>2. b.s <= a /\ a <= b.e
    BY <1>3, <2>1 DEF Cells
  <2> QED BY <1>1, <1>2, <2>1, <2>2 DEF Overlap, RegionBlock
<1> QED BY <1>3, <1>5, WithinReach

LEMMA EraseReach ==
  ASSUME TypeInv, TouchedOnly, NEW cells \in SUBSET Reach, EraseCells(cells),
         UNCHANGED <<req, before>>
  PROVE  TouchedOnly'
<1>1. flash \in Buffer
  BY DEF TypeInv, TypeOK
<1>2. \A a \in Addr \ cells : flash'[a] = flash[a]
  BY <1>1 DEF EraseCells, Copied
<1> QED BY <1>2 DEF TouchedOnly, Reach

LEMMA ProgramReach ==
  ASSUME TypeInv, TouchedOnly, NEW cells \in SUBSET Reach, NEW data, ProgramCells(cells, data),
         UNCHANGED <<req, before>>
  PROVE  TouchedOnly'
<1>1. flash \in Buffer
  BY DEF TypeInv, TypeOK
<1>2. \A a \in Addr \ cells : flash'[a] = flash[a]
  BY <1>1 DEF ProgramCells, Copied
<1> QED BY <1>2 DEF TouchedOnly, Reach

\* A round of write_range() that starts at or after lo stays in lo..hi
LEMMA WriteRunReach ==
  ASSUME TypeInv, TouchedOnly, NEW have, NEW want, NEW lo \in Nat, NEW hi \in Nat, lo <= pos,
         lo .. hi \subseteq Reach, WriteRun(have, want, hi), UNCHANGED <<req, before>>
  PROVE  /\ TouchedOnly'
         /\ pc' # pc \/ lo <= pos'
         /\ selected' = selected \/ selected' = {}
<1> DEFINE run == NextWrite(have, want, pos, hi)
<1>1. pos \in Nat
  BY DEF TypeInv, TypeOK
<1>2. run \subseteq lo .. hi
  BY <1>1, NextWriteInRange
<1>3. PICK cells \in SUBSET run : ProgramCells(cells, want)
  BY DEF WriteRun, Program, ProgramTorn
<1>4. TouchedOnly'
  BY <1>2, <1>3, ProgramReach
<1>5. CASE pos' = Max(run) + 1 /\ UNCHANGED <<pc, ret, selected>> /\ run # {}
  <2>1. Max(run) \in pos .. hi
    BY <1>1, <1>5, NextWriteMax
  <2> QED BY <1>1, <1>4, <1>5, <2>1
<1>6. CASE WalkFails /\ UNCHANGED pos
  BY <1>4, <1>6 DEF WalkFails
<1> QED BY <1>5, <1>6 DEF WriteRun

LEMMA TouchInit == Init => TouchInv
  BY DEF Init, TouchInv, TouchedOnly, RightPos

LEMMA TouchStep == TypeInv /\ SelInv /\ TouchInv /\ [Next]_vars => TouchInv'
<1> SUFFICES ASSUME TypeInv, SelInv, TouchInv, [Next]_vars PROVE TouchInv'
  OBVIOUS
<1>a. /\ pc \notin {"idle", "prepare", "done"} => \E w \in BOOLEAN : SaneLayout(req.layout, w)
      /\ TouchedOnly /\ RightPos
      /\ \A b \in selected : Cells(b) \subseteq Reach
  BY DEF TouchInv
<1>1. CASE UNCHANGED vars
  BY <1>1 DEF vars, TouchInv, RightPos, Region, Reach, TouchedOnly
<1>2. ASSUME NEW r \in Requests, Call(r) PROVE TouchInv'
  <2>1. selected' = {} /\ pc' \in {"prepare", "done"}
    BY <1>2 DEF Call, SelInv, Erasing
  <2>2. TouchedOnly'
    BY <1>2 DEF Call, TouchedOnly
  <2> QED BY <2>1, <2>2 DEF TouchInv, RightPos
<1>3. CASE Refuse \/ Finalize \/ AssumeReference \/ ReadWhole \/ ReadRegion
           \/ Diagnose \/ StartVerify \/ VerifyRegion
  <2>1. /\ UNCHANGED <<flash, req, selected, before>> /\ pc' \notin Erasing /\ pc' \notin {"write"}
        /\ pc \in {"idle", "prepare", "done"} => pc' \in {"idle", "prepare", "done"}
    BY <1>3 DEF Refuse, Finalize, AssumeReference, ReadWhole, ReadRegion,
                Diagnose, StartVerify, VerifyRegion, Return, Erasing
  <2> QED BY <1>a, <2>1 DEF TouchInv, RightPos, Reach, TouchedOnly, Erasing
<1>4. CASE Prepare
  <2>1. /\ UNCHANGED <<flash, req, selected, before>> /\ pc' \notin Erasing /\ pc' \notin {"write"}
        /\ \E w \in BOOLEAN : SaneLayout(req.layout, w)
    BY <1>4 DEF Prepare, Erasing
  <2> QED BY <1>a, <2>1 DEF TouchInv, RightPos, Reach, TouchedOnly, Erasing
<1>5. CASE NextRegion
  <2>1. /\ UNCHANGED <<flash, req, before>> /\ selected' = {} /\ pc = "walk"
        /\ pc' # "restore"
    BY <1>5 DEF NextRegion, Return, WalkFails, SelInv, Erasing
  <2>2. pc' = "write" => Region'.start <= pos'
    <3>1. ASSUME pc' = "write" PROVE pos' = Region'.start
      BY <1>5, <3>1 DEF NextRegion, Return, WalkFails, Region
    <3>2. ASSUME pc' = "write" PROVE pos' \in Nat
      BY <1>5, <3>2, StepType DEF TypeInv, TypeOK
    <3> QED BY <3>1, <3>2
  <2> QED BY <1>a, <2>1, <2>2 DEF TouchInv, RightPos, Reach, TouchedOnly
<1>6. CASE SelectLeaves
  <2>1. /\ UNCHANGED <<flash, req, region, before>> /\ pc = "select" /\ pc' \in {"select", "erase"}
        /\ \A b \in selected' : b \in selected \/ (b \in Blocks[1] /\ Overlap(b, RegionBlock))
    BY <1>6 DEF SelectLeaves
  <2>2. \A b \in selected' : Cells(b) \subseteq Reach
    BY <1>a, <2>1, WithinReach DEF Working
  <2> QED BY <1>a, <2>1, <2>2 DEF TouchInv, RightPos, Reach, TouchedOnly
<1>7. CASE Promote
  <2>1. /\ UNCHANGED <<flash, req, region, before>> /\ pc = "select" /\ pc' \in {"select", "erase"}
        /\ layer + 1 \in 1 .. NumErasers
        /\ \A b \in selected' : b \in selected \/ (b \in Blocks[layer + 1] /\ Worthwhile(b))
    BY <1>7, ChipAssumption DEF Promote, Deselected
  <2>2. ASSUME NEW b \in Blocks[layer + 1], Worthwhile(b) PROVE Cells(b) \subseteq Reach
    <3>1. b \in AllBlocks
      BY <2>1 DEF AllBlocks
    <3>2. b.s \in Nat /\ b.e \in Nat /\ Region.start \in Nat /\ Region.end \in Nat
      BY <2>1, <3>1, AllBlocksType, RegionType DEF Working
    <3>3. Cells(b) \subseteq RangeOf(Region)
      BY <2>2, <3>2 DEF Worthwhile, Cells, RangeOf
    <3> QED BY <2>1, <3>3, RegionWithinReach DEF Working
  <2>3. \A b \in selected' : Cells(b) \subseteq Reach
    BY <1>a, <2>1, <2>2
  <2> QED BY <1>a, <2>1, <2>3 DEF TouchInv, RightPos, Reach, TouchedOnly
<1>8. CASE NextBlock
  <2>1. /\ UNCHANGED <<flash, req, before>> /\ UNCHANGED region /\ pc = "erase" /\ pc' # "restore"
        /\ selected' = selected \/ selected' = {}
        /\ pc' = "write" => pos' = Region.start
        /\ pc' \notin {"idle", "prepare", "done"}
    BY <1>8 DEF NextBlock, WalkFails
  <2>2. Region.start \in Nat
    BY <2>1, RegionType DEF Working
  <2> QED BY <1>a, <2>1, <2>2 DEF TouchInv, RightPos, Reach, TouchedOnly, Region
<1>9. CASE EraseBlock
  <2>1. /\ UNCHANGED <<req, before>> /\ pc = "erasefn" /\ pc' \notin {"restore", "write"}
        /\ selected' = selected \/ selected' = {}
        /\ \E cells \in SUBSET Cells(blk) : EraseCells(cells)
        /\ pc' \notin {"idle", "prepare", "done"}
    BY <1>9 DEF EraseBlock, Erase, EraseTorn, WalkFails
  <2>2. Cells(blk) \subseteq Reach
    BY <1>a, <2>1 DEF SelInv
  <2>3. TouchedOnly'
    BY <1>a, <2>1, <2>2, EraseReach
  <2> QED BY <1>a, <2>1, <2>3 DEF TouchInv, RightPos, Reach
<1>10. CASE CheckErased
  <2>1. /\ UNCHANGED <<flash, req, before, blk>> /\ pc = "check" /\ pc' # "write"
        /\ selected' \subseteq selected
        /\ pc' = "restore" => pos' = blk.s
        /\ pc' \notin {"idle", "prepare", "done"}
    BY <1>10 DEF CheckErased, WalkFails, BlockDone
  <2>2. blk.s \in Nat
    BY AllBlocksType DEF TypeInv, TypeOK
  <2> QED BY <1>a, <2>1, <2>2 DEF TouchInv, RightPos, Reach, TouchedOnly
<1>11. CASE RestoreBlock
  <2>1. /\ UNCHANGED <<req, before, blk>> /\ pc = "restore" /\ blk \in selected
        /\ blk.s \in Nat /\ blk.e \in Nat /\ blk.s .. blk.e \subseteq Reach /\ blk.s <= pos
    BY <1>a, <1>11, AllBlocksType DEF RestoreBlock, SelInv, TypeInv, TypeOK, Cells, RightPos
  <2>2. CASE WriteRun(Blank, backup, blk.e)
    <3>1. /\ TouchedOnly' /\ (pc' # pc \/ blk.s <= pos') /\ (selected' = selected \/ selected' = {})
      BY <1>a, <2>1, <2>2, WriteRunReach
    <3>2. pc' # "write" /\ pc' \notin {"idle", "prepare", "done"}
      BY <2>1, <2>2 DEF WriteRun, WalkFails
    <3> QED BY <1>a, <2>1, <3>1, <3>2 DEF TouchInv, RightPos, Reach
  <2>3. CASE BlockDone /\ UNCHANGED <<flash, pos, ret>>
    BY <1>a, <2>1, <2>3 DEF BlockDone, TouchInv, RightPos, Reach, TouchedOnly
  <2> QED BY <1>11, <2>2, <2>3 DEF RestoreBlock
<1>12. CASE WriteRegion
  <2>1. /\ UNCHANGED <<req, before, region>> /\ pc = "write"
        /\ Region.start \in Nat /\ Region.end \in Nat /\ Region.start <= pos
        /\ Region.start .. Region.end \subseteq Reach
    BY <1>a, <1>12, RegionType, RegionWithinReach DEF WriteRegion, Working, RightPos, RangeOf
  <2>2. CASE WriteRun(cur, new, Region.end)
    <3>1. /\ TouchedOnly' /\ (pc' # pc \/ Region.start <= pos')
          /\ (selected' = selected \/ selected' = {})
      BY <1>a, <2>1, <2>2, WriteRunReach
    <3>2. pc' # "restore" /\ pc' \notin {"idle", "prepare", "done"}
      BY <2>1, <2>2 DEF WriteRun, WalkFails
    <3> QED BY <1>a, <2>1, <3>1, <3>2 DEF TouchInv, RightPos, Reach, Region
  <2>3. CASE pc' = "walk" /\ UNCHANGED <<flash, selected>>
    BY <1>a, <2>1, <2>3 DEF TouchInv, RightPos, Reach, TouchedOnly
  <2> QED BY <1>12, <2>2, <2>3 DEF WriteRegion
<1> QED
  BY <1>1, <1>2, <1>3, <1>4, <1>5, <1>6, <1>7, <1>8, <1>9, <1>10, <1>11, <1>12 DEF Next, Step

\* Whatever is called, whatever fails and however it fails, no cell outside of
\* the smallest erase blocks that overlap an included region ever changes
THEOREM OnlyTouched == Spec => []TouchedOnly
<1>1. TouchInv => TouchedOnly
  BY DEF TouchInv
<1> QED
  BY <1>1, InitType, StepType, SelInit, SelStep, TouchInit, TouchStep, PTL DEF Spec

-----------------------------------------------------------------------------
(* The block protection comes back                                         *)

\* Between prepare_flash_access() and finalize_flash_access() what was lifted is
\* registered for restoring, if the chip's unlock function does that and nothing went wrong;
\* nothing else is
LockInv ==
  /\ pc \in {"idle", "prepare", "done"} => ~saved
  /\ saved \/ prot => before.prot
  /\ pc = "prepare" => prot = before.prot
  /\ pc \notin {"idle", "prepare", "done"} /\ faults = 0 =>
       ~prot /\ (Restorable => saved = before.prot)
  /\ pc = "done" /\ faults = 0 /\ Restorable => prot = before.prot

LEMMA LockInit == Init => LockInv
  BY DEF Init, LockInv

LEMMA FaultsGrow ==
  ASSUME TypeInv, Fault
  PROVE  faults' # 0
  BY DEF Fault, TypeInv, TypeOK

LEMMA LockStep == TypeInv /\ LockInv /\ [Next]_vars => LockInv'
<1> SUFFICES ASSUME TypeInv, LockInv, [Next]_vars PROVE LockInv'
  OBVIOUS
<1> USE DEF LockInv
<1>0. prot \in BOOLEAN /\ saved \in BOOLEAN
  BY DEF TypeInv, TypeOK
<1>1. CASE UNCHANGED vars
  BY <1>1 DEF vars
<1>2. ASSUME NEW r \in Requests, Call(r) PROVE LockInv'
  BY <1>2 DEF Call
<1>3. CASE Refuse
  BY <1>3 DEF Refuse
<1>4. CASE Prepare
  BY <1>0, <1>4, FaultsGrow DEF Prepare, Unlock, NoFault
<1>5. CASE Finalize
  BY <1>0, <1>5, FaultsGrow DEF Finalize, NoFault
<1>6. CASE AssumeReference \/ ReadWhole \/ ReadRegion \/ NextRegion \/ SelectLeaves \/ Promote
           \/ NextBlock \/ EraseBlock \/ CheckErased \/ RestoreBlock \/ WriteRegion
           \/ Diagnose \/ StartVerify \/ VerifyRegion
  <2>1. /\ UNCHANGED <<prot, saved, before>>
        /\ pc \notin {"idle", "prepare", "done"} /\ pc' \notin {"idle", "prepare", "done"}
    BY <1>6 DEF AssumeReference, ReadWhole, ReadRegion, NextRegion, SelectLeaves, Promote,
                NextBlock, EraseBlock, CheckErased, RestoreBlock, WriteRegion, Diagnose,
                StartVerify, VerifyRegion, Return, WalkFails, BlockDone, WriteRun
  <2>2. Fault \/ NoFault
    BY <1>6 DEF AssumeReference, ReadWhole, ReadRegion, NextRegion, SelectLeaves, Promote,
                NextBlock, EraseBlock, CheckErased, RestoreBlock, WriteRegion, Diagnose,
                StartVerify, VerifyRegion, WriteRun, Erase, EraseTorn, Program, ProgramTorn,
                NoFault
  <2> QED BY <2>1, <2>2, FaultsGrow DEF NoFault
<1> QED
  BY <1>1, <1>2, <1>3, <1>4, <1>5, <1>6 DEF Next, Step

\* Every way out of an operation leaves a chip that is unlocked by its status register as
\* protected as it was, unless a chip call went wrong, and none leaves any chip protected
\* that was not (finalize_flash_access(), spi_disable_blockprotect_generic())
THEOREM LocksAreRestored == Spec => []LocksRestored
<1>1. LockInv /\ TypeInv => LocksRestored
  BY DEF LockInv, LocksRestored, TypeInv, TypeOK
<1> QED
  BY <1>1, InitType, StepType, LockInit, LockStep, PTL DEF Spec

-----------------------------------------------------------------------------
(* What a write does when no chip call goes wrong, for every chip, layout  *)
(* and image: regions are ready for programming, the image gets written,   *)
(* and nothing else is lost, however erase blocks and regions overlap.     *)

-----------------------------------------------------------------------------
(* Pages: the chip cut into granules                                       *)

Aligned(x) == x % Stride = 0
Pages == {Granule(0, k) : k \in Nat}

\* Erase blocks are made of whole granules.  Nothing in the code checks that, and
\* EraseBeforeProgram fails without it (run update_small_blocks).
BlocksAligned == \A b \in AllBlocks : Aligned(b.s) /\ Aligned(b.e + 1)

\* The page can be programmed to what is wanted without erasing it
PageReady(have, want, p) ==
  /\ GranKind = "bit" => \A a \in p : want[a] \subseteq have[a]
  /\ GranKind = "bytes" => (\A a \in p : have[a] = want[a]) \/ (\A a \in p : have[a] = ERASED)

LEMMA StrideType == Stride \in Nat \ {0}
  BY ChipAssumption

\* An offset is aligned when it is a multiple of Stride
LEMMA AlignedMultiple ==
  ASSUME NEW x \in Nat, Aligned(x)
  PROVE  x \div Stride \in Nat /\ x = (x \div Stride) * Stride
  BY StrideType DEF Aligned

LEMMA MultipleAligned ==
  ASSUME NEW k \in Nat
  PROVE  k * Stride \in Nat /\ Aligned(k * Stride)
  BY StrideType DEF Aligned

LEMMA TimesPlus ==
  ASSUME NEW i \in Int, NEW j \in Int
  PROVE  (i + j) * Stride = i * Stride + j * Stride /\ i * Stride \in Int /\ j * Stride \in Int
  BY StrideType

LEMMA TimesStrict ==
  ASSUME NEW i \in Int, NEW j \in Int, i * Stride < j * Stride
  PROVE  i < j
<1>1. j <= i => j * Stride <= i * Stride
  BY StrideType, TimesMonotone
<1> QED BY <1>1, StrideType

\* The page with number k
LEMMA PageIs ==
  ASSUME NEW k \in Int
  PROVE  Granule(0, k) = k * Stride .. (k + 1) * Stride - 1
  BY StrideType, TimesPlus DEF Granule

LEMMA InPage ==
  ASSUME NEW k \in Int, NEW a \in Granule(0, k)
  PROVE  /\ a \in Int /\ k * Stride <= a /\ a < (k + 1) * Stride
         /\ k * Stride \in Int /\ (k + 1) * Stride \in Int
<1>1. k * Stride \in Int /\ (k + 1) * Stride \in Int
  BY StrideType
<1>2. a \in k * Stride .. (k + 1) * Stride - 1
  BY PageIs, Zenon
<1> QED BY <1>1, <1>2

\* Pages do not overlap
LEMMA PagesDisjoint ==
  ASSUME NEW p \in Pages, NEW q \in Pages, NEW a \in p, a \in q
  PROVE  p = q
<1>1. PICK k \in Nat : p = Granule(0, k)
  BY DEF Pages
<1>2. PICK l \in Nat : q = Granule(0, l)
  BY DEF Pages
<1>3. /\ k * Stride <= a /\ a < (k + 1) * Stride /\ l * Stride <= a /\ a < (l + 1) * Stride
      /\ a \in Int /\ k * Stride \in Int /\ l * Stride \in Int
      /\ (k + 1) * Stride \in Int /\ (l + 1) * Stride \in Int
  BY <1>1, <1>2, InPage
<1>4. k < l + 1 /\ l < k + 1
  BY <1>3, TimesStrict
<1> QED BY <1>1, <1>2, <1>4

\* and they cover the chip
LEMMA PageOf ==
  ASSUME NEW a \in Nat
  PROVE  \E p \in Pages : a \in p
<1> DEFINE k == a \div Stride
<1>1. k \in Nat /\ k * Stride <= a /\ a < k * Stride + Stride
  BY StrideType
<1>2. a \in Granule(0, k)
  BY <1>1, StrideType DEF Granule
<1> QED BY <1>1, <1>2 DEF Pages

LEMMA PageType ==
  ASSUME NEW p \in Pages
  PROVE  p \subseteq Nat /\ p # {}
<1>1. PICK k \in Nat : p = Granule(0, k)
  BY DEF Pages
<1>2. k * Stride \in Nat
  BY MultipleAligned
<1> QED BY <1>1, <1>2, StrideType DEF Granule

\* A page that has a cell in an aligned range lies in it
LEMMA PageInside ==
  ASSUME NEW p \in Pages, NEW lo \in Nat, NEW hi \in Int, lo <= hi + 1, Aligned(lo), Aligned(hi + 1),
         NEW a \in p, lo <= a, a <= hi
  PROVE  p \subseteq lo .. hi
<1>1. PICK k \in Nat : p = Granule(0, k)
  BY DEF Pages
<1> DEFINE l == lo \div Stride
           h == (hi + 1) \div Stride
<1>2. l \in Nat /\ lo = l * Stride /\ h \in Nat /\ hi + 1 = h * Stride
  BY AlignedMultiple
<1> HIDE DEF l, h
<1>3. /\ k * Stride <= a /\ a < (k + 1) * Stride /\ a \in Int
      /\ k * Stride \in Int /\ (k + 1) * Stride \in Int
  BY <1>1, InPage
<1>4. l < k + 1 /\ k < h
  <2>1. l * Stride < (k + 1) * Stride /\ k * Stride < h * Stride
    BY <1>2, <1>3
  <2> QED BY <1>2, <2>1, TimesStrict
<1>5. l * Stride <= k * Stride /\ (k + 1) * Stride <= h * Stride
  BY <1>2, <1>4, TimesMonotone, StrideType
<1>6. p = k * Stride .. (k + 1) * Stride - 1
  BY <1>1, PageIs
<1> QED BY <1>2, <1>3, <1>5, <1>6

\* The granules of an aligned range are pages, and make up all of it
LEMMA GranulesArePages ==
  ASSUME NEW lo \in Nat, NEW hi \in Int, lo <= hi + 1, Aligned(lo), Aligned(hi + 1)
  PROVE  /\ \A i \in Granules(lo, hi) : Granule(lo, i) \in Pages
         /\ \A p \in Pages : p \subseteq lo .. hi => \E i \in Granules(lo, hi) : p = Granule(lo, i)
         /\ \A a \in lo .. hi : \E i \in Granules(lo, hi) : a \in Granule(lo, i)
<1> DEFINE l == lo \div Stride
           h == (hi + 1) \div Stride
<1>1. l \in Nat /\ lo = l * Stride /\ h \in Nat /\ hi + 1 = h * Stride
  BY AlignedMultiple
<1> HIDE DEF l, h
<1>2. h >= l
  <2>1. CASE h < l
    <3>1. h + 1 <= l
      BY <1>1, <2>1
    <3>2. (h + 1) * Stride <= l * Stride
      BY <1>1, <3>1, TimesMonotone, StrideType
    <3> QED BY <1>1, <3>2, TimesPlus, StrideType
  <2> QED BY <1>1, <2>1
<1>3. Granules(lo, hi) = 0 .. h - l - 1
  <2>1. hi + 1 - lo = (h - l) * Stride
    <3>1. h - l \in Int /\ l \in Int /\ (h - l) + l = h
      BY <1>1
    <3>2. /\ ((h - l) + l) * Stride = (h - l) * Stride + l * Stride
          /\ (h - l) * Stride \in Int /\ l * Stride \in Int
      BY <3>1, TimesPlus
    <3> QED BY <1>1, <3>1, <3>2
  <2>2. ((h - l) * Stride) \div Stride = h - l
    BY <1>1, <1>2, StrideType
  <2> QED BY <2>1, <2>2 DEF Granules
<1>4. ASSUME NEW i \in Int PROVE Granule(lo, i) = Granule(0, l + i)
  <2>1. lo + i * Stride = (l + i) * Stride
    <3>1. l \in Int
      BY <1>1
    <3>2. (l + i) * Stride = l * Stride + i * Stride
      BY <3>1, TimesPlus
    <3> QED BY <1>1, <3>2
  <2> QED BY <2>1, <1>1, TimesPlus, StrideType DEF Granule
<1>5. \A i \in Granules(lo, hi) : Granule(lo, i) \in Pages
  BY SMTT(30), <1>1, <1>3, <1>4 DEF Pages
<1>6. ASSUME NEW p \in Pages, NEW a \in p, a \in lo .. hi
      PROVE  \E i \in Granules(lo, hi) : p = Granule(lo, i)
  <2>1. PICK k \in Nat : p = Granule(0, k)
    BY DEF Pages
  <2>2. /\ k * Stride <= a /\ a < (k + 1) * Stride /\ a \in Int
        /\ k * Stride \in Int /\ (k + 1) * Stride \in Int
    BY <2>1, <1>6, InPage
  <2>3. l * Stride < (k + 1) * Stride /\ k * Stride < h * Stride
    BY <1>1, <1>6, <2>2
  <2>4. l < k + 1 /\ k < h
    BY <1>1, <2>3, TimesStrict
  <2>5. k - l \in 0 .. h - l - 1
    BY <1>1, <2>4
  <2>6. Granule(lo, k - l) = Granule(0, l + (k - l)) /\ l + (k - l) = k
    BY <1>1, <1>4
  <2> QED BY <2>1, <1>3, <2>5, <2>6
<1>7. \A p \in Pages : p \subseteq lo .. hi => \E i \in Granules(lo, hi) : p = Granule(lo, i)
  BY <1>6, PageType
<1>8. \A a \in lo .. hi : \E i \in Granules(lo, hi) : a \in Granule(lo, i)
  BY <1>6, PageOf
<1> QED BY <1>5, <1>7, <1>8

\* The offset behind a page is aligned
LEMMA PageEnd ==
  ASSUME NEW p \in Pages, NEW top \in p, \A a \in p : a <= top
  PROVE  Aligned(top + 1)
<1>1. PICK k \in Nat : p = Granule(0, k)
  BY DEF Pages
<1>2. k * Stride \in Nat /\ (k + 1) * Stride \in Nat /\ (k + 1) * Stride = k * Stride + Stride
      /\ Stride \in Nat \ {0} /\ Aligned((k + 1) * Stride)
  <2>1. k \in Nat /\ k + 1 \in Nat /\ k \in Int /\ 1 \in Int
    OBVIOUS
  <2>2. (k + 1) * Stride = k * Stride + 1 * Stride
    BY <2>1, TimesPlus
  <2>3. k * Stride \in Nat /\ (k + 1) * Stride \in Nat /\ Aligned((k + 1) * Stride)
    BY <2>1, MultipleAligned
  <2>4. Stride \in Nat \ {0} /\ 1 * Stride = Stride
    BY StrideType
  <2> QED BY <2>2, <2>3, <2>4
<1>3. (k + 1) * Stride - 1 \in p
  <2>1. p = k * Stride .. (k + 1) * Stride - 1
    BY <1>1, PageIs
  <2> QED BY <1>2, <2>1
<1>4. top \in Int /\ top < (k + 1) * Stride
  BY <1>1, InPage
<1>5. top + 1 = (k + 1) * Stride
  BY <1>2, <1>3, <1>4
<1> QED BY <1>2, <1>5

-----------------------------------------------------------------------------
(* need_erase() and get_next_write() in terms of pages                     *)

LEMMA NeedErasePages ==
  ASSUME NEW have, NEW want, NEW lo \in Nat, NEW hi \in Int, lo <= hi + 1,
         Aligned(lo), Aligned(hi + 1)
  PROVE  ~NeedErase(have, want, lo, hi) <=>
           \A p \in Pages : p \subseteq lo .. hi => PageReady(have, want, p)
<1>1. CASE GranKind = "bit"
  <2>1. ASSUME NEW p \in Pages, p \subseteq lo .. hi, ~NeedErase(have, want, lo, hi)
        PROVE  PageReady(have, want, p)
    BY <1>1, <2>1 DEF NeedErase, PageReady
  <2>2. ASSUME NEW a \in lo .. hi, \A p \in Pages : p \subseteq lo .. hi => PageReady(have, want, p)
        PROVE  want[a] \subseteq have[a]
    <3>1. PICK p \in Pages : a \in p
      BY PageOf
    <3>2. p \subseteq lo .. hi
      BY <3>1, PageInside
    <3> QED BY <1>1, <2>2, <3>1, <3>2 DEF PageReady
  <2>3. NeedErase(have, want, lo, hi) <=> \E a \in lo .. hi : ~(want[a] \subseteq have[a])
    BY <1>1 DEF NeedErase
  <2> QED BY <2>1, <2>2, <2>3
<1>2. CASE GranKind = "bytes"
  <2>0. NeedErase(have, want, lo, hi) <=>
          \E i \in Granules(lo, hi) : /\ \E a \in Granule(lo, i) : have[a] # want[a]
                                      /\ \E a \in Granule(lo, i) : have[a] # ERASED
    BY <1>2 DEF NeedErase, Differs
  <2>1. PageReady(have, want, {}) /\ \A p : PageReady(have, want, p) <=>
          (\A a \in p : have[a] = want[a]) \/ (\A a \in p : have[a] = ERASED)
    BY <1>2 DEF PageReady
  <2>2. ASSUME NEW p \in Pages, p \subseteq lo .. hi, ~NeedErase(have, want, lo, hi)
        PROVE  PageReady(have, want, p)
    <3>1. PICK i \in Granules(lo, hi) : p = Granule(lo, i)
      BY <2>2, GranulesArePages
    <3> QED BY <2>0, <2>1, <2>2, <3>1
  <2>3. ASSUME NEW i \in Granules(lo, hi), \A p \in Pages : p \subseteq lo .. hi => PageReady(have, want, p)
        PROVE  (\A a \in Granule(lo, i) : have[a] = want[a]) \/ (\A a \in Granule(lo, i) : have[a] = ERASED)
    <3>1. Granule(lo, i) \in Pages /\ Granule(lo, i) \subseteq lo .. hi
      BY GranulesArePages, GranuleInRange
    <3> QED BY <2>1, <2>3, <3>1
  <2> QED BY <2>0, <2>2, <2>3
<1>3. CASE GranKind = "implicit"
  BY <1>3 DEF NeedErase, PageReady
<1> QED BY <1>1, <1>2, <1>3, ChipAssumption

\* Where there is nothing to write, nothing differs
LEMMA NothingToWrite ==
  ASSUME NEW have, NEW want, NEW lo \in Nat, NEW hi \in Int, lo <= hi + 1,
         Aligned(lo), Aligned(hi + 1), NextWrite(have, want, lo, hi) = {}
  PROVE  \A a \in lo .. hi : have[a] = want[a]
<1> DEFINE differing == {i \in Granules(lo, hi) : Differs(have, want, lo, i)}
           run == {i \in differing : Min(differing) .. i \subseteq differing}
<1>1. NextWrite(have, want, lo, hi) = UNION {Granule(lo, i) : i \in run}
  BY DEF NextWrite
<1> SUFFICES ASSUME NEW a \in lo .. hi, have[a] # want[a] PROVE FALSE
  OBVIOUS
<1>2. PICK i \in Granules(lo, hi) : a \in Granule(lo, i)
  BY GranulesArePages
<1>3. i \in differing
  BY <1>2 DEF Differs
<1>4. differing \in SUBSET Nat
  BY DEF Granules
<1> HIDE DEF differing
<1>5. Min(differing) \in differing
  BY <1>3, <1>4, MinInSet
<1>6. Min(differing) .. Min(differing) = {Min(differing)}
  BY <1>4, <1>5
<1>7. Min(differing) \in run
  BY <1>5, <1>6
<1>8. Min(differing) \in Granules(lo, hi)
  BY <1>5 DEF differing
<1>9. Granule(lo, Min(differing)) # {}
  BY <1>8, GranulesArePages, PageType
<1> QED BY <1>1, <1>7, <1>9

\* A run of get_next_write() is made of whole pages; what it passes over does not differ
LEMMA NextRun ==
  ASSUME NEW have, NEW want, NEW lo \in Nat, NEW hi \in Nat, lo <= hi + 1,
         Aligned(lo), Aligned(hi + 1), NextWrite(have, want, lo, hi) # {}
  PROVE  LET run == NextWrite(have, want, lo, hi)
         IN  /\ run \subseteq lo .. Max(run) /\ Max(run) \in lo .. hi
             /\ Aligned(Max(run) + 1)
             /\ \A p \in Pages : p \cap run # {} => p \subseteq run
             /\ \A a \in lo .. Max(run) : a \notin run => have[a] = want[a]
<1> DEFINE differing == {i \in Granules(lo, hi) : Differs(have, want, lo, i)}
           round == {i \in differing : Min(differing) .. i \subseteq differing}
           run == NextWrite(have, want, lo, hi)
           top == Max(run)
<1>1. run = UNION {Granule(lo, i) : i \in round}
  BY DEF NextWrite
<1>2. run \subseteq lo .. hi /\ top \in lo .. hi /\ \A a \in run : a <= top
  BY NextWriteInRange, NextWriteMax
<1>3. top \in run
  <2>1. run \in SUBSET Nat /\ \A x \in run : x <= hi
    BY <1>2
  <2> HIDE DEF run
  <2> QED BY <2>1, MaxInSet DEF run
<1>4. differing \in SUBSET Nat /\ differing \subseteq Granules(lo, hi)
  BY DEF Granules
<1>5. \A i \in round : i \in Granules(lo, hi) /\ i \in Nat /\ Granule(lo, i) \in Pages
  BY <1>4, GranulesArePages
<1>6. PICK i \in round : top \in Granule(lo, i)
  BY <1>1, <1>3
<1>7. Granule(lo, i) \subseteq run
  BY <1>1
<1> HIDE DEF run, top, round, differing
<1>8. Aligned(top + 1)
  <2>1. \A a \in Granule(lo, i) : a <= top
    BY <1>2, <1>7
  <2> QED BY <1>5, <1>6, <2>1, PageEnd
<1>9. ASSUME NEW p \in Pages, NEW a \in p, a \in run PROVE p \subseteq run
  <2>1. PICK j \in round : a \in Granule(lo, j)
    BY <1>1, <1>9
  <2>2. p = Granule(lo, j)
    BY <1>5, <1>9, <2>1, PagesDisjoint
  <2> QED BY <1>1, <2>1, <2>2
<1>10. ASSUME NEW a \in lo .. top, a \notin run, have[a] # want[a] PROVE FALSE
  <2>0. a \in lo .. hi
    BY <1>2
  <2>1. PICK j \in Granules(lo, hi) : a \in Granule(lo, j)
    BY <2>0, GranulesArePages
  <2>2. j \in differing
    BY <1>10, <2>1 DEF differing, Differs
  <2>3. j \notin round
    BY <1>1, <1>10, <2>1
  <2>4. i \in differing /\ Min(differing) .. i \subseteq differing
    BY <1>6 DEF round
  <2>5. Min(differing) \in Nat /\ i \in Nat /\ j \in Nat
    BY <1>4, <2>2, <2>4, MinInSet
  <2>6. j > i
    <3>1. CASE j <= i
      <4>1. Min(differing) .. j \subseteq Min(differing) .. i
        BY <2>5, <3>1
      <4>2. j \in round
        BY <2>2, <2>4, <4>1 DEF round
      <4> QED BY <2>3, <4>2
    <3> QED BY <2>5, <3>1
  <2>7. (i + 1) * Stride <= j * Stride /\ (i + 1) * Stride = i * Stride + Stride
        /\ i * Stride \in Int /\ j * Stride \in Int
    <3>1. i + 1 \in Int /\ j \in Int /\ i \in Int /\ 1 \in Int /\ i + 1 <= j
      BY <2>5, <2>6
    <3>2. (i + 1) * Stride = i * Stride + 1 * Stride /\ i * Stride \in Int /\ j * Stride \in Int
      BY <3>1, TimesPlus
    <3> QED BY <3>1, <3>2, TimesMonotone, StrideType
  <2>8. top <= lo + i * Stride + Stride - 1 /\ lo + j * Stride <= a
    BY <1>6, <2>1, <2>7, StrideType DEF Granule
  <2>9. a \in Int /\ top \in Int /\ a <= top
    BY <1>2
  <2> QED BY <2>7, <2>8, <2>9, StrideType
<1>11. run \subseteq lo .. top
  BY <1>2
<1> QED BY <1>2, <1>8, <1>9, <1>10, <1>11 DEF run, top

-----------------------------------------------------------------------------
(* Where an operation is, and what it works on then                        *)

Walking == Working \cup {"walk"}
InBlock == {"erasefn", "check", "restore"}

PhaseInv ==
  /\ pc \notin {"idle", "prepare", "done"} => SaneLayout(req.layout, req.op = "write")
  /\ pc \in Walking => req.op \in {"erase", "write"}
  /\ pc \in {"write", "combine", "diagnose"} => req.op = "write"
  /\ pc = "read" => req.op \in {"read", "write"}
  /\ pc = "verify" => req.op \in {"verify", "write"}
  /\ pc \in {"prepare", "read", "combine", "diagnose"} \cup Walking => new = req.image
  /\ pc = "verify" /\ req.op = "verify" => new = req.image
  /\ pc = "prepare" => region = 0
  /\ pc = "read" /\ req.op = "write" /\ (req.verifyAll \/ req.ref # NoRef) => region = 0
  /\ pc = "combine" => \A j \in DOMAIN req.layout : req.layout[j].included => j <= region

\* layout_next_included() leaves out no included region
LEMMA NextIncludedSkipsNone ==
  ASSUME NEW layout \in Seq(Entry), NEW i \in Nat,
         NEW j \in DOMAIN layout, layout[j].included, j > i
  PROVE  NextIncluded(layout, i) # 0 /\ NextIncluded(layout, i) <= j
<1> DEFINE later == {k \in DOMAIN layout : k > i /\ layout[k].included}
<1>1. later \in SUBSET Nat /\ j \in later
  OBVIOUS
<1>2. NextIncluded(layout, i) = Min(later)
  BY <1>1 DEF NextIncluded
<1>3. Min(later) \in later /\ \A k \in later : Min(later) <= k
  <2> HIDE DEF later
  <2> QED BY <1>1, MinInSet
<1> QED BY <1>1, <1>2, <1>3

LEMMA PhaseInit == Init => PhaseInv
  BY DEF Init, PhaseInv, Walking, Working

LEMMA PhaseStep == TypeInv /\ PhaseInv /\ [Next]_vars => PhaseInv'
<1> SUFFICES ASSUME TypeInv, PhaseInv, [Next]_vars PROVE PhaseInv'
  OBVIOUS
<1> USE DEF PhaseInv, Walking, Working
<1>0. req.layout \in Seq(Entry) /\ region \in Nat /\ req.op \in Ops /\ req.verifyAll \in BOOLEAN
  BY DEF TypeInv, TypeOK, Request
<1>1. CASE UNCHANGED vars
  BY <1>1 DEF vars
<1>2. ASSUME NEW r \in Requests, Call(r) PROVE PhaseInv'
  BY <1>2 DEF Call
<1>3. CASE Refuse
  BY <1>3 DEF Refuse
<1>4. CASE Prepare
  BY <1>0, <1>4 DEF Prepare, Ops
<1>5. CASE Finalize
  BY <1>5 DEF Finalize
<1>6. CASE AssumeReference \/ ReadWhole
  BY <1>6 DEF AssumeReference, ReadWhole, Return
<1>7. CASE ReadRegion
  BY <1>7 DEF ReadRegion, Return
<1>8. CASE NextRegion
  <2>1. /\ UNCHANGED <<req, new>> /\ pc = "walk"
        /\ pc' \in {"finalize", "combine", "select", "write", "diagnose"}
        /\ pc' \in {"combine", "diagnose", "write"} => ~Explicit
        /\ pc' = "combine" => UNCHANGED region /\ NextIncluded(req.layout, region) = 0
    BY <1>8 DEF NextRegion, Return, WalkFails, DoErase
  <2>2. pc' \in {"combine", "diagnose", "write"} => req.op = "write"
    BY <2>1 DEF Explicit
  <2>3. ASSUME pc' = "combine", NEW j \in DOMAIN req.layout, req.layout[j].included
        PROVE  j <= region
    BY <1>0, <2>1, <2>3, NextIncludedSkipsNone
  <2> QED BY <2>1, <2>2, <2>3
<1>9. CASE SelectLeaves \/ Promote
  BY <1>9 DEF SelectLeaves, Promote
<1>10. CASE NextBlock
  BY <1>10 DEF NextBlock, WalkFails, Explicit
<1>11. CASE EraseBlock
  BY <1>11 DEF EraseBlock, WalkFails, Explicit
<1>12. CASE CheckErased
  BY <1>12 DEF CheckErased, WalkFails, BlockDone, Explicit
<1>13. CASE RestoreBlock
  BY <1>13 DEF RestoreBlock, WriteRun, WalkFails, BlockDone, Explicit
<1>14. CASE WriteRegion
  BY <1>14 DEF WriteRegion, WriteRun, WalkFails, Explicit
<1>15. CASE Diagnose
  BY <1>15 DEF Diagnose
<1>16. CASE StartVerify
  BY <1>16 DEF StartVerify, Return
<1>17. CASE VerifyRegion
  BY <1>17 DEF VerifyRegion, Return
<1> QED
  BY <1>1, <1>2, <1>3, <1>4, <1>5, <1>6, <1>7, <1>8, <1>9, <1>10, <1>11, <1>12, <1>13,
     <1>14, <1>15, <1>16, <1>17 DEF Next, Step

-----------------------------------------------------------------------------
(* What lies outside of the included regions survives                      *)

\* What a cell holds, or is going to hold again once its erase block is restored
Kept(a) ==
  IF pc \in InBlock /\ a \in Cells(blk) \ RangeOf(Region) THEN backup[a] ELSE flash[a]

\* Progress in an erase block: erased after the erase function, and restored up to pos
BlockInv ==
  /\ pc \in InBlock => \A a \in Cells(blk) : a \in RangeOf(Region) => backup[a] = ERASED
  /\ pc = "check" => \A a \in Cells(blk) : flash[a] = ERASED
  /\ pc = "restore" =>
       /\ Aligned(pos) /\ pos \in blk.s .. blk.e + 1
       /\ \A a \in Cells(blk) : flash[a] = IF a < pos THEN backup[a] ELSE ERASED

KeptInv ==
  faults = 0 =>
    /\ BlockInv
    /\ \A a \in Addr \ IncludedCells(req.layout) : Kept(a) = before.flash[a]

LEMMA BlkType ==
  ASSUME TypeInv
  PROVE  /\ blk.s \in Nat /\ blk.e \in Nat /\ blk.s <= blk.e /\ blk.e < Size
         /\ Cells(blk) \subseteq Addr /\ blk \in AllBlocks
<1>1. blk \in AllBlocks
  BY DEF TypeInv, TypeOK
<1>2. blk.s \in Addr /\ blk.e \in Addr /\ blk.s \in Nat /\ blk.e \in Nat /\ blk.s <= blk.e
  BY <1>1, AllBlocksType
<1> QED BY <1>1, <1>2, ChipAssumption DEF Addr, Cells

LEMMA RegionIncluded ==
  ASSUME TypeInv, pc \in Working
  PROVE  \A a \in Addr : a \in RangeOf(Region) => a \in IncludedCells(req.layout)
<1>1. region \in DOMAIN req.layout /\ req.layout[region].included
  BY DEF TypeInv, RegionOK, Region
<1> QED BY <1>1 DEF IncludedCells, Region

\* A step without a fault comes from a state without one
LEMMA NoFaultBefore ==
  ASSUME TypeInv, [Next]_vars, faults' = 0
  PROVE  faults = 0
<1>0. ~Fault
  BY FaultsGrow
<1>1. CASE UNCHANGED faults
  BY <1>1
<1>2. CASE Fault \/ NoFault
  BY <1>0, <1>2 DEF NoFault
<1>3. ASSUME NEW r \in Requests, Call(r) PROVE UNCHANGED faults
  BY <1>3 DEF Call
<1>4. CASE Refuse \/ AssumeReference \/ SelectLeaves \/ Promote \/ StartVerify
  BY <1>1, <1>4 DEF Refuse, AssumeReference, SelectLeaves, Promote, StartVerify
<1>5. CASE Prepare \/ Finalize \/ ReadWhole \/ ReadRegion \/ NextRegion \/ NextBlock
           \/ EraseBlock \/ CheckErased \/ RestoreBlock \/ WriteRegion \/ Diagnose \/ VerifyRegion
  BY <1>2, <1>5 DEF Prepare, Unlock, Finalize, ReadWhole, ReadRegion, NextRegion, NextBlock, EraseBlock,
                    CheckErased, RestoreBlock, WriteRegion, Diagnose, VerifyRegion, WriteRun,
                    Erase, EraseTorn, Program, ProgramTorn
<1> QED BY <1>1, <1>3, <1>4, <1>5 DEF Next, Step, vars

\* Restoring a block: a round of write_range() moves pos on and keeps BlockInv
LEMMA RestoreRun ==
  ASSUME TypeInv, LockInv, BlocksAligned, faults = 0, BlockInv, pc = "restore",
         UNCHANGED <<blk, backup, req, region>>,
         WriteRun(Blank, backup, blk.e), ~Fault
  PROVE  /\ pc' = "restore" /\ UNCHANGED selected
         /\ pos' \in blk.s .. blk.e + 1 /\ Aligned(pos')
         /\ \A a \in Cells(blk) : flash'[a] = IF a < pos' THEN backup[a] ELSE ERASED
         /\ \A a \in Addr \ Cells(blk) : flash'[a] = flash[a]
<1> DEFINE run == NextWrite(Blank, backup, pos, blk.e)
<1>1. /\ flash \in Buffer /\ backup \in Buffer /\ pos \in Nat /\ Aligned(pos)
      /\ pos \in blk.s .. blk.e + 1 /\ ~prot
      /\ \A a \in Cells(blk) : flash[a] = IF a < pos THEN backup[a] ELSE ERASED
  BY DEF BlockInv, TypeInv, TypeOK, LockInv
<1>2. blk.s \in Nat /\ blk.e \in Nat /\ Cells(blk) \subseteq Addr /\ Aligned(blk.e + 1)
  BY BlkType DEF BlocksAligned
<1>3. run # {} /\ Program(run, backup) /\ pos' = Max(run) + 1 /\ UNCHANGED <<pc, ret, selected>>
  BY DEF WriteRun, ProgramTorn
<1>4. /\ run \subseteq pos .. Max(run) /\ Max(run) \in pos .. blk.e /\ Aligned(Max(run) + 1)
      /\ \A a \in pos .. Max(run) : a \notin run => Blank[a] = backup[a]
  <2>1. pos \in Nat /\ blk.e \in Nat /\ pos <= blk.e + 1 /\ Aligned(pos) /\ Aligned(blk.e + 1)
        /\ NextWrite(Blank, backup, pos, blk.e) # {}
    BY <1>1, <1>2, <1>3
  <2> QED BY <2>1, NextRun
<1> HIDE DEF run
<1>5. ASSUME NEW a \in Addr
      PROVE  /\ a \notin run => flash'[a] = flash[a]
             /\ a \in run => flash'[a] = backup[a] \/ flash'[a] = flash[a] \cap backup[a]
  BY <1>1, <1>3 DEF Program, ProgramCells, Copied
<1>6. pos' \in blk.s .. blk.e + 1 /\ Aligned(pos')
  BY <1>1, <1>2, <1>3, <1>4
<1>7. ASSUME NEW a \in Cells(blk)
      PROVE  flash'[a] = IF a < pos' THEN backup[a] ELSE ERASED
  <2>1. a \in Addr /\ a \in Nat /\ blk.s <= a /\ a <= blk.e /\ Blank[a] = ERASED
        /\ backup[a] \subseteq ERASED
    BY <1>1, <1>2 DEF Cells, Addr, Blank, Buffer, Byte, ERASED
  <2>2. CASE a < pos
    <3>1. a \notin run /\ a < pos'
      BY <1>1, <1>2, <1>3, <1>4, <2>1, <2>2
    <3> QED BY <1>1, <1>5, <2>1, <2>2, <3>1
  <2>3. CASE a >= pos /\ a <= Max(run)
    <3>1. flash[a] = ERASED /\ a < pos' /\ a \in pos .. Max(run)
      BY <1>1, <1>2, <1>3, <1>4, <2>1, <2>3
    <3>2. CASE a \in run
      BY <1>5, <2>1, <3>1, <3>2
    <3>3. CASE a \notin run
      BY <1>4, <1>5, <2>1, <3>1, <3>3
    <3> QED BY <3>2, <3>3
  <2>4. CASE a > Max(run)
    <3>1. flash[a] = ERASED /\ ~(a < pos') /\ a \notin run
      BY <1>1, <1>2, <1>3, <1>4, <2>1, <2>4
    <3> QED BY <1>5, <2>1, <3>1
  <2> QED BY <1>1, <1>2, <1>4, <2>1, <2>2, <2>3, <2>4
<1>8. ASSUME NEW a \in Addr \ Cells(blk) PROVE a \notin run
  BY <1>1, <1>2, <1>4 DEF Cells, Addr
<1> QED BY <1>3, <1>5, <1>6, <1>7, <1>8

LEMMA KeptInit == Init => KeptInv
  BY DEF Init, KeptInv, BlockInv, Kept, InBlock

\* Nothing outside of the region is lost
KeepsRest == \A a \in Addr : a \notin RangeOf(Region) => Kept(a)' = Kept(a)

\* The block that walk_eraseblocks() picks is backed up where it leaves the region
LEMMA NextBlockKeeps ==
  ASSUME TypeInv, BlockInv, NextBlock, ~Fault
  PROVE  BlockInv' /\ KeepsRest
<1>0. /\ pc = "erase" /\ UNCHANGED <<flash, req, before, region>> /\ flash \in Buffer
  BY DEF NextBlock, TypeInv, TypeOK
<1>1. CASE pc' \in {"walk", "write"}
  BY <1>0, <1>1 DEF BlockInv, Kept, InBlock, KeepsRest
<1>2. ASSUME NEW b \in selected, blk' = b, pc' = "erasefn",
             backup' = Copied(Blank, Cells(b) \ RangeOf(Region), flash)
      PROVE  BlockInv' /\ KeepsRest
  <2>1. Cells(b) \subseteq Addr
    BY AllBlocksType, ChipAssumption DEF TypeInv, TypeOK, Cells, Addr
  <2>2. \A a \in Addr : backup'[a] = IF a \in Cells(b) \ RangeOf(Region) THEN flash[a] ELSE ERASED
    BY <1>2 DEF Copied, Blank
  <2>3. Region' = Region
    BY <1>0 DEF Region
  <2>4. BlockInv'
    BY <1>2, <2>1, <2>2, <2>3 DEF BlockInv
  <2>5. \A a \in Addr : Kept(a)' = flash[a] /\ Kept(a) = flash[a]
    BY <1>0, <1>2, <2>2, <2>3 DEF Kept, InBlock
  <2> QED BY <2>4, <2>5 DEF KeepsRest
<1> QED BY <1>1, <1>2 DEF NextBlock

\* Erasing the block leaves only what has a backup
LEMMA EraseBlockKeeps ==
  ASSUME TypeInv, LockInv, BlockInv, faults = 0, EraseBlock, ~Fault
  PROVE  /\ BlockInv' /\ KeepsRest
         /\ \A a \in Addr : flash'[a] = IF a \in Cells(blk) THEN ERASED ELSE flash[a]
<1>0. /\ pc = "erasefn" /\ pc' = "check" /\ ~prot /\ Erase(blk) /\ flash \in Buffer
      /\ UNCHANGED <<blk, backup, req, region, before>>
  BY DEF EraseBlock, EraseTorn, LockInv, TypeInv, TypeOK
<1>1. Region' = Region
  BY <1>0 DEF Region
<1>2. \A a \in Addr : flash'[a] = IF a \in Cells(blk) THEN ERASED ELSE flash[a]
  BY <1>0 DEF Erase, EraseCells, Copied, Blank
<1>3. Cells(blk) \subseteq Addr
  BY BlkType
<1>4. BlockInv'
  BY <1>0, <1>1, <1>2, <1>3 DEF BlockInv, InBlock
<1>5. KeepsRest
  BY <1>0, <1>1, <1>2 DEF Kept, InBlock, KeepsRest
<1> QED BY <1>2, <1>4, <1>5

\* A block that was erased is done, or to be restored from its beginning
LEMMA CheckErasedKeeps ==
  ASSUME TypeInv, BlockInv, BlocksAligned, CheckErased, ~Fault
  PROVE  BlockInv' /\ KeepsRest
<1>0. /\ pc = "check" /\ UNCHANGED <<flash, blk, backup, req, region, before>>
      /\ \A a \in Cells(blk) : flash[a] = ERASED
  BY DEF CheckErased, BlockInv
<1>1. /\ UpdateCur(Blank)
      /\ IF Unaligned(blk)
           THEN pc' = "restore" /\ pos' = blk.s
           ELSE BlockDone
  BY <1>0 DEF CheckErased, ErasedRange
<1>2. Region' = Region
  BY <1>0 DEF Region
<1>b. blk.s \in Nat /\ blk.e \in Nat /\ blk.s <= blk.e /\ Aligned(blk.s)
  BY BlkType DEF BlocksAligned
<1>3. CASE Unaligned(blk)
  <2>1. BlockInv'
    BY <1>0, <1>1, <1>2, <1>3, <1>b DEF BlockInv, InBlock, Cells
  <2>2. \A a \in Addr : Kept(a)' = Kept(a)
    BY <1>0, <1>1, <1>2, <1>3 DEF Kept, InBlock
  <2> QED BY <2>1, <2>2 DEF KeepsRest
<1>4. CASE ~Unaligned(blk)
  <2>1. Region.start \in Nat /\ Region.end \in Nat
    BY <1>0, RegionType DEF Working
  <2>2. Cells(blk) \subseteq RangeOf(Region)
    BY <1>4, <1>b, <2>1 DEF Unaligned, Cells, RangeOf
  <2>3. pc' = "erase"
    BY <1>1, <1>4 DEF BlockDone
  <2>4. \A a \in Addr : Kept(a)' = Kept(a)
    BY <1>0, <1>2, <2>2, <2>3 DEF Kept, InBlock
  <2>5. BlockInv'
    BY <2>3 DEF BlockInv, InBlock
  <2> QED BY <2>4, <2>5 DEF KeepsRest
<1> QED BY <1>3, <1>4

\* At the end of a restored block the chip holds the backup
LEMMA RestoreEnd ==
  ASSUME TypeInv, BlocksAligned, faults = 0, BlockInv, pc = "restore",
         NextWrite(Blank, backup, pos, blk.e) = {}
  PROVE  \A a \in Cells(blk) : flash[a] = backup[a]
<1>1. /\ pos \in Nat /\ Aligned(pos) /\ pos \in blk.s .. blk.e + 1
      /\ blk.s \in Nat /\ blk.e \in Nat /\ Aligned(blk.e + 1)
      /\ \A a \in Cells(blk) : flash[a] = IF a < pos THEN backup[a] ELSE ERASED
  BY BlkType DEF BlockInv, TypeInv, TypeOK, BlocksAligned
<1>2. \A a \in pos .. blk.e : Blank[a] = backup[a]
  BY <1>1, NothingToWrite
<1>3. ASSUME NEW a \in Cells(blk), a >= pos PROVE backup[a] = ERASED
  <2>1. a \in pos .. blk.e /\ a \in Addr
    BY <1>1, <1>3, BlkType DEF Cells
  <2> QED BY <1>2, <2>1 DEF Blank
<1> QED BY <1>1, <1>3 DEF Cells

LEMMA RestoreBlockKeeps ==
  ASSUME TypeInv, LockInv, BlockInv, BlocksAligned, faults = 0, RestoreBlock, ~Fault
  PROVE  /\ BlockInv' /\ KeepsRest
         /\ \A a \in Addr : a \notin Cells(blk) => flash'[a] = flash[a]
<1>0. /\ pc = "restore" /\ UNCHANGED <<blk, backup, req, region, before>>
  BY DEF RestoreBlock
<1>1. Region' = Region
  BY <1>0 DEF Region
<1>2. CASE WriteRun(Blank, backup, blk.e)
  <2>1. /\ pc' = "restore" /\ pos' \in blk.s .. blk.e + 1 /\ Aligned(pos')
        /\ \A a \in Cells(blk) : flash'[a] = IF a < pos' THEN backup[a] ELSE ERASED
        /\ \A a \in Addr \ Cells(blk) : flash'[a] = flash[a]
    BY <1>0, <1>2, RestoreRun
  <2>2. BlockInv'
    BY <1>0, <1>1, <2>1 DEF BlockInv, InBlock
  <2>3. KeepsRest
    BY <1>0, <1>1, <2>1 DEF Kept, InBlock, KeepsRest
  <2> QED BY <2>1, <2>2, <2>3
<1>3. CASE NextWrite(Blank, backup, pos, blk.e) = {} /\ BlockDone /\ UNCHANGED flash
  <2>1. \A a \in Cells(blk) : flash[a] = backup[a]
    BY <1>0, <1>3, RestoreEnd
  <2>2. \A a \in Addr : Kept(a)' = Kept(a)
    BY <1>0, <1>3, <2>1 DEF Kept, InBlock, BlockDone
  <2>3. BlockInv'
    BY <1>3 DEF BlockInv, InBlock, BlockDone
  <2> QED BY <1>3, <2>2, <2>3 DEF KeepsRest
<1> QED BY <1>2, <1>3 DEF RestoreBlock

LEMMA WriteRegionKeeps ==
  ASSUME TypeInv, TouchInv, WriteRegion
  PROVE  BlockInv' /\ KeepsRest
<1>0. /\ pc = "write" /\ UNCHANGED <<req, region, before>> /\ pos \in Nat /\ flash \in Buffer
      /\ Region.start \in Nat /\ Region.end \in Nat /\ Region.start <= pos
  BY RegionType DEF WriteRegion, Working, TypeInv, TypeOK, TouchInv, RightPos
<1>1. pc' \notin InBlock
  BY <1>0 DEF WriteRegion, WriteRun, WalkFails, InBlock
<1>2. CASE UNCHANGED flash
  BY <1>0, <1>1, <1>2 DEF InBlock, BlockInv, Kept, KeepsRest
<1>3. CASE WriteRun(cur, new, Region.end)
  <2>1. PICK cells \in SUBSET NextWrite(cur, new, pos, Region.end) : ProgramCells(cells, new)
    BY <1>3 DEF WriteRun, Program, ProgramTorn
  <2>2. cells \subseteq RangeOf(Region)
    BY <1>0, <2>1, NextWriteInRange DEF RangeOf
  <2>3. \A a \in Addr : a \notin RangeOf(Region) => flash'[a] = flash[a]
    BY <1>0, <2>1, <2>2 DEF ProgramCells, Copied
  <2> QED BY <1>0, <1>1, <2>3 DEF BlockInv, Kept, InBlock, KeepsRest
<1> QED BY <1>2, <1>3 DEF WriteRegion

\* The steps that may change the chip
Changing == NextBlock \/ EraseBlock \/ CheckErased \/ RestoreBlock \/ WriteRegion

LEMMA ChangingKeeps ==
  ASSUME TypeInv, TouchInv, LockInv, BlockInv, BlocksAligned, faults = 0, ~Fault, Changing
  PROVE  BlockInv' /\ KeepsRest
  BY NextBlockKeeps, EraseBlockKeeps, CheckErasedKeeps, RestoreBlockKeeps, WriteRegionKeeps
     DEF Changing

\* The other ones look at it at most
LEMMA RestKeeps ==
  ASSUME Refuse \/ Prepare \/ Finalize \/ AssumeReference \/ ReadWhole \/ ReadRegion
         \/ NextRegion \/ SelectLeaves \/ Promote \/ Diagnose \/ StartVerify \/ VerifyRegion
  PROVE  pc \notin InBlock /\ pc' \notin InBlock /\ UNCHANGED <<flash, req, before>>
  BY DEF Refuse, Prepare, Unlock, Finalize, AssumeReference, ReadWhole, ReadRegion, NextRegion,
         SelectLeaves, Promote, Diagnose, StartVerify, VerifyRegion, Return, WalkFails, InBlock

LEMMA KeptStep ==
  TypeInv /\ TouchInv /\ LockInv /\ KeptInv /\ BlocksAligned /\ [Next]_vars => KeptInv'
<1> SUFFICES ASSUME TypeInv, TouchInv, LockInv, KeptInv, BlocksAligned, [Next]_vars, faults' = 0
             PROVE  KeptInv'
  BY DEF KeptInv
<1>0. faults = 0 /\ ~Fault
  BY NoFaultBefore, FaultsGrow
<1>1. CASE UNCHANGED vars
  BY <1>0, <1>1 DEF vars, KeptInv, BlockInv, Kept, Region
<1>2. ASSUME NEW r \in Requests, Call(r) PROVE KeptInv'
  <2>1. pc' \notin InBlock /\ before'.flash = flash' /\ pc' \notin {"check", "restore"}
    BY <1>2 DEF Call, InBlock
  <2> QED BY <2>1 DEF KeptInv, BlockInv, Kept
<1>3. CASE Refuse \/ Prepare \/ Finalize \/ AssumeReference \/ ReadWhole \/ ReadRegion
           \/ NextRegion \/ SelectLeaves \/ Promote \/ Diagnose \/ StartVerify \/ VerifyRegion
  <2>1. pc \notin InBlock /\ pc' \notin InBlock /\ UNCHANGED <<flash, req, before>>
    BY <1>3, RestKeeps
  <2> QED BY <1>0, <2>1 DEF KeptInv, BlockInv, Kept, InBlock
<1>4. CASE Changing
  <2>1. /\ BlockInv /\ pc \in Working /\ UNCHANGED <<req, before>>
        /\ \A a \in Addr \ IncludedCells(req.layout) : Kept(a) = before.flash[a]
    BY <1>0, <1>4 DEF KeptInv, Changing, NextBlock, EraseBlock, CheckErased, RestoreBlock, WriteRegion,
                      Working
  <2>2. BlockInv' /\ KeepsRest
    BY <1>0, <1>4, <2>1, ChangingKeeps
  <2> QED BY <2>1, <2>2, RegionIncluded DEF KeptInv, KeepsRest
<1> QED
  BY <1>1, <1>2, <1>3, <1>4 DEF Next, Step, Changing

\* Whatever lies outside of the included regions is what it was before the operation, for
\* every operation in which no chip call went wrong, whatever it returned: erase_block()
\* has put it back everywhere
THEOREM OutsideIsPreserved == BlocksAligned => (Spec => []OutsidePreserved)
<1> SUFFICES ASSUME BlocksAligned PROVE Spec => []OutsidePreserved
  OBVIOUS
<1>1. KeptInv => OutsidePreserved
  BY DEF KeptInv, OutsidePreserved, Kept, InBlock
<1>2. KeptInv /\ TypeInv /\ TouchInv /\ LockInv /\ [Next]_vars => KeptInv'
  BY KeptStep
<1> QED
  BY <1>1, <1>2, InitType, StepType, SelInit, SelStep, TouchInit, TouchStep, LockInit, LockStep,
     KeptInit, PTL DEF Spec

-----------------------------------------------------------------------------
(* The mirror before the walk                                              *)

IncludedEntry(j) == j \in DOMAIN req.layout /\ req.layout[j].included

\* Nothing has changed before the walk begins; the mirror shows the regions read so far,
\* and all of them, and for verify_whole_chip the whole chip, when the walk begins
ReadInv ==
  /\ pc \in {"prepare", "read"} \/ (pc = "walk" /\ region = 0) => flash = before.flash
  /\ pc = "read" => \A j \in DOMAIN req.layout : \A a \in Addr :
       IncludedEntry(j) /\ j <= region /\ a \in RangeOf(req.layout[j]) => cur[a] = flash[a]
  /\ pc = "walk" /\ region = 0 /\ req.op = "write" /\ TrueRef =>
       \A a \in IncludedCells(req.layout) : cur[a] = flash[a]
  /\ pc \in Walking \cup {"combine"} /\ req.op = "write" /\ req.verifyAll /\ TrueRef =>
       old = before.flash
  /\ pc = "diagnose" => ret = 2

LEMMA ReadInit == Init => ReadInv
  BY DEF Init, ReadInv, Walking, Working

LEMMA ReadRegionRead ==
  ASSUME TypeInv, PhaseInv, ReadInv, ReadRegion
  PROVE  ReadInv'
<1> DEFINE n == NextIncluded(req.layout, region)
<1>0. /\ pc = "read" /\ UNCHANGED <<req, flash, before, old>> /\ flash = before.flash
      /\ req.layout \in Seq(Entry) /\ region \in Nat /\ cur \in Buffer
      /\ req.op = "write" => req.ref = NoRef /\ ~req.verifyAll
      /\ req.op \in {"read", "write"}
      /\ \A j \in DOMAIN req.layout : \A a \in Addr :
           IncludedEntry(j) /\ j <= region /\ a \in RangeOf(req.layout[j]) => cur[a] = flash[a]
  BY DEF ReadRegion, ReadInv, TypeInv, TypeOK, Request, PhaseInv
<1>1. CASE n = 0 /\ UNCHANGED cur /\ region' = 0
           /\ pc' = (IF req.op = "read" THEN "finalize" ELSE "walk")
  <2>1. ASSUME NEW j \in DOMAIN req.layout, IncludedEntry(j) PROVE j <= region
    BY <1>0, <1>1, <2>1, NextIncludedSkipsNone DEF IncludedEntry
  <2>2. \A a \in IncludedCells(req.layout) : cur[a] = flash[a]
    BY <1>0, <2>1 DEF IncludedCells, IncludedEntry
  <2> QED BY <1>0, <1>1, <2>2 DEF ReadInv, Walking, Working
<1>2. CASE n # 0 /\ UNCHANGED pc /\ cur' = Copied(cur, RangeOf(req.layout[n]), flash) /\ region' = n
  <2>1. ASSUME NEW j \in DOMAIN req.layout, NEW a \in Addr,
               IncludedEntry(j), j <= n, a \in RangeOf(req.layout[j])
        PROVE  cur'[a] = flash[a]
    <3>1. cur'[a] = IF a \in RangeOf(req.layout[n]) THEN flash[a] ELSE cur[a]
      BY <1>2 DEF Copied
    <3>2. n \in Nat /\ j \in Nat /\ (j > region => n <= j)
      BY <1>0, <1>2, <2>1, NextIncludedSkipsNone, NextIncludedIsIncluded DEF IncludedEntry
    <3>3. j <= region \/ j = n
      BY <1>0, <2>1, <3>2
    <3> QED BY <1>0, <2>1, <3>1, <3>3
  <2> QED BY <1>0, <1>2, <2>1 DEF ReadInv, IncludedEntry, Walking, Working
<1>3. CASE pc' = "finalize"
  BY <1>3 DEF ReadInv, Walking, Working
<1> QED BY <1>1, <1>2, <1>3 DEF ReadRegion, Return

LEMMA ReadStep == TypeInv /\ PhaseInv /\ ReadInv /\ [Next]_vars => ReadInv'
<1> SUFFICES ASSUME TypeInv, PhaseInv, ReadInv, [Next]_vars PROVE ReadInv'
  OBVIOUS
<1>0. region \in Nat /\ req.ref \in Buffer \cup {NoRef} /\ req.verifyAll \in BOOLEAN /\ req.op \in Ops
  BY DEF TypeInv, TypeOK, Request
<1>1. CASE UNCHANGED vars
  BY <1>1 DEF vars, ReadInv, IncludedEntry, TrueRef
<1>2. ASSUME NEW r \in Requests, Call(r) PROVE ReadInv'
  <2>1. pc' \in {"prepare", "done"} /\ before'.flash = flash'
    BY <1>2 DEF Call
  <2> QED BY <2>1 DEF ReadInv, Walking, Working
<1>3. CASE Refuse \/ Finalize \/ Diagnose \/ StartVerify \/ VerifyRegion
  <2>1. pc' \in {"done", "finalize", "verify"}
    BY <1>3 DEF Refuse, Finalize, Diagnose, StartVerify, VerifyRegion, Return
  <2> QED BY <2>1 DEF ReadInv, Walking, Working
<1>4. CASE Prepare
  <2>1. /\ pc = "prepare" /\ region = 0 /\ pc' \in {"walk", "verify", "read"}
        /\ pc' = "walk" => req.op = "erase"
        /\ UNCHANGED <<flash, req, region, before>>
    BY <1>4 DEF Prepare, PhaseInv
  <2>2. req.layout \in Seq(Entry)
    BY DEF TypeInv, TypeOK, Request
  <2> QED BY <2>1, <2>2 DEF ReadInv, Walking, Working
<1>5. CASE AssumeReference \/ ReadWhole
  <2>1. /\ pc = "read" /\ region = 0 /\ UNCHANGED <<flash, req, region, before>>
        /\ pc' \in {"walk", "finalize"} /\ flash = before.flash
    BY <1>5 DEF AssumeReference, ReadWhole, Return, PhaseInv, ReadInv
  <2>2. pc' = "walk" /\ TrueRef => /\ cur' = flash
                                   /\ req.verifyAll => old' = flash
    BY <1>5, <2>1 DEF AssumeReference, ReadWhole, Return, TrueRef
  <2> QED BY <2>1, <2>2 DEF ReadInv, Walking, Working, TrueRef
<1>6. CASE ReadRegion
  BY <1>6, ReadRegionRead
<1>7. CASE NextRegion
  <2>1. /\ pc = "walk" /\ UNCHANGED <<req, before, old>>
        /\ pc' \in {"finalize", "combine", "select", "write", "diagnose"}
        /\ pc' = "diagnose" => ret' = 2
    BY <1>7 DEF NextRegion, Return, WalkFails
  <2> QED BY <2>1 DEF ReadInv, Walking, Working, TrueRef
<1>8. CASE SelectLeaves \/ Promote \/ Changing
  <2>1. /\ pc \in Working /\ UNCHANGED <<req, before, old, region>>
        /\ pc' \in Walking \cup {"finalize", "diagnose"} /\ (pc' = "diagnose" => ret' = 2)
    BY <1>8 DEF SelectLeaves, Promote, Changing, NextBlock, EraseBlock, CheckErased, RestoreBlock,
                WriteRegion, WriteRun, WalkFails, BlockDone, Walking, Working
  <2>2. region \in DOMAIN req.layout /\ req.layout \in Seq(Entry)
    BY <2>1 DEF TypeInv, RegionOK, TypeOK, Request
  <2>3. region # 0
    BY <2>2
  <2> QED BY <2>1, <2>3 DEF ReadInv, Walking, Working, TrueRef
<1> QED
  BY <1>1, <1>2, <1>3, <1>4, <1>5, <1>6, <1>7, <1>8 DEF Next, Step, Changing

-----------------------------------------------------------------------------
(* What a write makes of the included regions                              *)

\* A write in which no chip call went wrong and whose reference file, if any, was true
Applies == faults = 0 /\ req.op = "write" /\ TrueRef

\* The regions behind us hold the image, or will again once the block is restored
TreatedInv ==
  pc \in Walking \cup {"combine"} =>
    \A j \in DOMAIN req.layout : \A a \in Addr :
      /\ IncludedEntry(j) /\ a \in RangeOf(req.layout[j])
      /\ j < region \/ (j = region /\ pc \notin Working)
      /\ pc \in Working => a \notin RangeOf(Region)
      => Kept(a) = new[a]

\* The mirror may be behind the chip where the image has been written already
Mirrors(p) == (\A a \in p : cur[a] = flash[a]) \/ (\A a \in p : flash[a] = new[a])
MirrorInv ==
  pc \in Walking =>
    \A p \in Pages : /\ p \subseteq IncludedCells(req.layout)
                     /\ pc \in InBlock => p \cap Cells(blk) = {}
                     => Mirrors(p)

\* What cannot be programmed as it is lies in a block that has been selected
Covered(p) == PageReady(flash, new, p) \/ \E b \in selected : p \subseteq Cells(b)
ReadyInv ==
  (pc = "select" /\ layer > 0) \/ pc \in {"erase"} \cup InBlock =>
    \A p \in Pages : DoErase /\ p \subseteq RangeOf(Region) => Covered(p)

\* Programming has come to pos: the image in front of it, pages that are ready behind it
ProgramInv ==
  pc = "write" =>
    /\ \A p \in Pages : DoErase /\ p \subseteq pos .. Region.end => PageReady(flash, new, p)
    /\ Aligned(pos) /\ pos \in Region.start .. Region.end + 1
    /\ \A a \in Region.start .. pos - 1 : flash[a] = new[a]

ResultInv == pc = "verify" \/ (pc \in {"finalize", "done"} /\ ret = 0) => flash = Expected

WriteParts == TreatedInv /\ MirrorInv /\ ReadyInv /\ ProgramInv /\ ResultInv
WriteInv == Applies => WriteParts

\* All that is known so far
Known == TypeInv /\ SelInv /\ TouchInv /\ LockInv /\ PhaseInv /\ ReadInv /\ KeptInv

LEMMA WriteInit == Init => WriteInv
  BY DEF Init, WriteInv, Applies

\* Regions to be written are made of whole pages
LEMMA RegionPages ==
  ASSUME Known, pc \in Working, req.op = "write"
  PROVE  /\ Region.start \in Nat /\ Region.end \in Nat
         /\ Region.start <= Region.end /\ Region.end < Size
         /\ Aligned(Region.start) /\ Aligned(Region.end + 1)
         /\ RangeOf(Region) \subseteq Addr /\ RangeOf(Region) \subseteq IncludedCells(req.layout)
<1>1. /\ Region.start \in Nat /\ Region.end \in Nat
      /\ Region.start <= Region.end /\ Region.end < Size
  BY RegionType, RegionSane DEF Known
<1>2. Aligned(Region.start) /\ Aligned(Region.end + 1)
  <2>1. region \in DOMAIN req.layout /\ Region.included /\ SaneLayout(req.layout, TRUE)
    BY DEF Known, TypeInv, RegionOK, PhaseInv, Working
  <2> QED BY <2>1 DEF SaneLayout, SaneEntry, Region, Aligned
<1>3. RangeOf(Region) \subseteq Addr
  BY <1>1, ChipAssumption DEF RangeOf, Addr
<1>4. \A a \in Addr : a \in RangeOf(Region) => a \in IncludedCells(req.layout)
  BY RegionIncluded DEF Known
<1> QED BY <1>1, <1>2, <1>3, <1>4

LEMMA PageInBlock ==
  ASSUME BlocksAligned, NEW b \in AllBlocks, NEW p \in Pages, NEW a \in p, a \in Cells(b)
  PROVE  p \subseteq Cells(b)
<1>1. b.s \in Nat /\ b.e \in Nat /\ b.s <= b.e /\ Aligned(b.s) /\ Aligned(b.e + 1)
  BY AllBlocksType DEF BlocksAligned
<1>2. b.s <= a /\ a <= b.e /\ b.s <= b.e + 1
  BY <1>1 DEF Cells
<1> QED BY <1>1, <1>2, PageInside DEF Cells

\* An erased page is ready for anything
LEMMA ErasedReady ==
  ASSUME NEW have, NEW want \in Buffer, NEW p \in SUBSET Addr, \A a \in p : have[a] = ERASED
  PROVE  PageReady(have, want, p)
<1>1. \A a \in p : want[a] \subseteq ERASED
  BY DEF Buffer, Byte, ERASED
<1> QED BY <1>1 DEF PageReady

\* Programming a page that is ready gives what is wanted
LEMMA ProgramReady ==
  ASSUME flash \in Buffer, NEW want \in Buffer, NEW cells, ~prot, ProgramCells(cells, want),
         NEW p \in SUBSET Addr, p \subseteq cells, NoErase \/ PageReady(flash, want, p)
  PROVE  \A a \in p : flash'[a] = want[a]
<1> SUFFICES ASSUME NEW a \in p PROVE flash'[a] = want[a]
  OBVIOUS
<1>1. flash'[a] = IF GranKind = "implicit" \/ NoErase THEN want[a] ELSE flash[a] \cap want[a]
  BY DEF ProgramCells, Copied
<1>2. want[a] \subseteq ERASED
  BY DEF Buffer, Byte, ERASED
<1>3. GranKind \in {"bit", "bytes", "implicit"}
  BY ChipAssumption
<1>4. CASE GranKind = "implicit" \/ NoErase
  BY <1>1, <1>4
<1>5. CASE GranKind = "bit" /\ ~NoErase
  <2>1. want[a] \subseteq flash[a]
    BY <1>5 DEF PageReady
  <2>2. flash[a] \cap want[a] = want[a]
    BY <2>1
  <2> QED BY <1>1, <1>5, <2>2
<1>6. CASE GranKind = "bytes" /\ ~NoErase
  <2>1. flash[a] = want[a] \/ flash[a] = ERASED
    BY <1>6 DEF PageReady
  <2>2. flash[a] \cap want[a] = want[a]
    BY <1>2, <2>1
  <2> QED BY <1>1, <1>6, <2>2
<1> QED BY <1>3, <1>4, <1>5, <1>6

\* Within a region the regions behind it are left alone
LEMMA TreatedKept ==
  ASSUME TreatedInv, pc \in Working, pc' \in Working, UNCHANGED <<region, req, new>>, KeepsRest
  PROVE  TreatedInv'
<1>1. Region' = Region
  BY DEF Region
<1> QED BY <1>1 DEF TreatedInv, KeepsRest, IncludedEntry, Walking

\* walk_by_layout() goes on to the next region, or to the end
LEMMA WriteNextRegion ==
  ASSUME Known, Applies, WriteParts, NextRegion, ~Fault
  PROVE  WriteParts'
<1> DEFINE n == NextIncluded(req.layout, region)
<1>0. /\ pc = "walk" /\ UNCHANGED <<flash, req, cur, new, blk, before>> /\ ~Explicit
      /\ req.layout \in Seq(Entry) /\ region \in Nat
      /\ TreatedInv /\ MirrorInv
  BY DEF NextRegion, Known, TypeInv, TypeOK, Request, Explicit, Applies, WriteParts
<1>1. MirrorInv'
  BY <1>0 DEF NextRegion, WalkFails, Return, MirrorInv, Mirrors, InBlock, Walking, Working
<1>2. \/ n = 0 /\ pc' = "combine" /\ region' = region
      \/ n # 0 /\ region' = n /\ layer' = 0 /\ pos' = req.layout[n].start
         /\ pc' = (IF DoErase THEN "select" ELSE "write")
  BY <1>0 DEF NextRegion
<1>3. ASSUME NEW j \in DOMAIN req.layout, IncludedEntry(j), n = 0 \/ j < n
      PROVE  j <= region
  <2>1. j > region => n # 0 /\ n <= j
    BY <1>0, <1>3, NextIncludedSkipsNone DEF IncludedEntry
  <2>2. n # 0 => n \in Nat
    BY <1>0, NextIncludedIsIncluded
  <2> HIDE DEF n
  <2> QED BY <1>0, <1>3, <2>1, <2>2
<1>4. TreatedInv'
  <2>1. \A a \in Addr : Kept(a)' = flash[a] /\ Kept(a) = flash[a]
    BY <1>0, <1>2 DEF Kept, InBlock
  <2>2. ASSUME NEW j \in DOMAIN req.layout, NEW a \in Addr, IncludedEntry(j),
               a \in RangeOf(req.layout[j]), j <= region
        PROVE  flash[a] = new[a]
    <3>1. j < region \/ j = region
      BY <1>0, <2>2
    <3> QED BY <1>0, <2>1, <2>2, <3>1 DEF TreatedInv, Walking, Working
  <2>3. CASE pc' = "combine" /\ region' = region /\ n = 0
    BY <1>0, <1>3, <2>1, <2>2, <2>3 DEF TreatedInv, IncludedEntry
  <2>4. CASE pc' \in Working /\ n # 0 /\ region' = n
    BY <1>0, <1>3, <2>1, <2>2, <2>4 DEF TreatedInv, IncludedEntry
  <2> QED BY <1>2, <2>3, <2>4 DEF Working
<1>5. ReadyInv'
  BY <1>2 DEF ReadyInv, InBlock
<1>6. ProgramInv'
  <2> SUFFICES ASSUME pc' = "write" PROVE ProgramInv'
    BY DEF ProgramInv
  <2>1. ~DoErase /\ n # 0 /\ region' = n /\ pos' = req.layout[n].start
    BY <1>2
  <2>2. ~DoErase'
    BY <1>0, <2>1 DEF DoErase, Explicit
  <2>3. Region' = req.layout[n] /\ n \in DOMAIN req.layout /\ Region'.included
    BY <1>0, <2>1, NextIncludedIsIncluded DEF Region
  <2>4. SaneEntry(req.layout[n], TRUE)
    BY <1>0, <2>3 DEF Known, PhaseInv, SaneLayout, Applies
  <2>5. Region'.start \in Nat /\ Region'.end \in Nat /\ Region'.start <= Region'.end
        /\ Aligned(Region'.start)
    <3>1. req.layout[n] \in Entry
      BY <1>0, <2>3
    <3> HIDE DEF n
    <3> QED BY <2>3, <2>4, <3>1 DEF SaneEntry, Aligned, Entry
  <2> QED BY <2>1, <2>2, <2>3, <2>5 DEF ProgramInv
<1>7. ResultInv'
  BY <1>2 DEF ResultInv
<1> QED BY <1>1, <1>4, <1>5, <1>6, <1>7 DEF WriteParts

\* select_erase_functions() looks at the mirror; the chip itself is as it shows it, or
\* holds the image already
LEMMA WriteSelectLeaves ==
  ASSUME Known, BlocksAligned, Applies, WriteParts, SelectLeaves
  PROVE  WriteParts'
<1> DEFINE touched == {b \in Blocks[1] : Overlap(b, RegionBlock)}
           lo(b) == Max({b.s, Region.start})
           hi(b) == Min({b.e, Region.end})
           needed == {b \in touched : Explicit \/ NeedErase(cur, new, lo(b), hi(b))}
<1>0. /\ pc = "select" /\ pc' \in {"select", "erase"}
      /\ UNCHANGED <<flash, req, region, cur, new, blk, before>>
      /\ selected' = (selected \ touched) \cup needed
      /\ TreatedInv /\ MirrorInv /\ Region' = Region
  BY DEF SelectLeaves, WriteParts, Region
<1>1. /\ Region.start \in Nat /\ Region.end \in Nat
      /\ Region.start <= Region.end /\ Region.end < Size
      /\ Aligned(Region.start) /\ Aligned(Region.end + 1)
      /\ RangeOf(Region) \subseteq Addr /\ RangeOf(Region) \subseteq IncludedCells(req.layout)
  BY <1>0, RegionPages DEF Applies, Working
<1>2. TreatedInv'
  BY <1>0, TreatedKept DEF KeepsRest, Kept, InBlock, Working
<1>3. MirrorInv'
  BY <1>0 DEF MirrorInv, Mirrors, Walking, Working, InBlock
<1>4. ASSUME NEW p \in Pages, p \subseteq RangeOf(Region)
      PROVE  PageReady(flash, new, p) \/ \E b \in needed : p \subseteq Cells(b)
  <2>1. PICK a \in p : a \in Addr
    BY <1>1, <1>4, PageType
  <2>2. PICK b \in Blocks[1] : a \in Cells(b)
    BY <2>1, EraserAssumption, ChipAssumption
  <2>3. b \in AllBlocks
    BY <2>2, ChipAssumption DEF AllBlocks
  <2>4. /\ p \subseteq Cells(b) /\ b.s \in Nat /\ b.e \in Nat /\ Aligned(b.s) /\ Aligned(b.e + 1)
        /\ a \in Nat /\ b.s <= a /\ a <= b.e /\ Region.start <= a /\ a <= Region.end
    BY <1>1, <1>4, <2>1, <2>2, <2>3, PageInBlock, AllBlocksType DEF BlocksAligned, Cells, RangeOf, Addr
  <2>5. b \in touched
    BY <1>1, <2>2, <2>4 DEF Overlap, RegionBlock
  <2>6. lo(b) \in Nat /\ Aligned(lo(b)) /\ lo(b) <= a /\ (lo(b) = b.s \/ lo(b) = Region.start)
    <3>1. {b.s, Region.start} \in SUBSET Nat /\ {b.s, Region.start} # {}
          /\ \A x \in {b.s, Region.start} : x <= a
      BY <1>1, <2>4
    <3>2. lo(b) \in {b.s, Region.start}
      BY <2>4, <3>1, MaxInSet
    <3> QED BY <1>1, <2>4, <3>2
  <2>7. hi(b) \in Nat /\ Aligned(hi(b) + 1) /\ a <= hi(b) /\ (hi(b) = b.e \/ hi(b) = Region.end)
    <3>1. {b.e, Region.end} \in SUBSET Nat /\ {b.e, Region.end} # {}
      BY <1>1, <2>4
    <3>2. hi(b) \in {b.e, Region.end}
      BY <3>1, MinInSet
    <3> QED BY <1>1, <2>4, <3>2
  <2>8. p \subseteq lo(b) .. hi(b)
    BY <1>1, <1>4, <2>4, <2>6, <2>7 DEF Cells, RangeOf
  <2>9. CASE ~NeedErase(cur, new, lo(b), hi(b))
    <3>1. lo(b) <= hi(b) + 1
      BY <2>4, <2>6, <2>7
    <3> HIDE DEF lo, hi
    <3>2. PageReady(cur, new, p)
      BY <2>6, <2>7, <2>8, <2>9, <3>1, NeedErasePages
    <3>3. Mirrors(p)
      BY <1>0, <1>1, <1>4 DEF MirrorInv, Walking, Working, InBlock
    <3> QED BY <3>2, <3>3 DEF PageReady, Mirrors
  <2> QED BY <2>4, <2>5, <2>9
<1>5. ReadyInv'
  BY <1>0, <1>4 DEF ReadyInv, Covered, DoErase, Explicit
<1>6. ProgramInv' /\ ResultInv'
  BY <1>0 DEF ProgramInv, ResultInv
<1> QED BY <1>2, <1>3, <1>5, <1>6 DEF WriteParts

\* A larger block covers what the blocks it replaces have covered
LEMMA PromotedCover ==
  ASSUME TypeInv, Promote, NEW b \in selected
  PROVE  \E c \in selected' : Cells(b) \subseteq Cells(c)
<1> DEFINE chosen == {d \in Blocks[layer + 1] : Worthwhile(d)}
<1>0. selected' = Deselected(chosen) \cup chosen /\ layer + 1 \in 1 .. NumErasers
  BY ChipAssumption DEF Promote
<1>1. CASE b \in Deselected(chosen)
  BY <1>0, <1>1
<1>2. CASE \E c \in chosen : Inside(b, c)
  <2>1. PICK c \in chosen : Inside(b, c)
    BY <1>2
  <2>2. b \in AllBlocks /\ c \in AllBlocks
    BY <1>0 DEF AllBlocks, TypeInv, TypeOK
  <2>3. b.s \in Nat /\ b.e \in Nat /\ c.s \in Nat /\ c.e \in Nat /\ c.s <= b.s /\ b.e <= c.e
    BY <2>1, <2>2, AllBlocksType DEF Inside
  <2>4. Cells(b) \subseteq Cells(c)
    BY <2>3 DEF Cells
  <2> QED BY <1>0, <2>4
<1> QED BY <1>1, <1>2 DEF Deselected

LEMMA WritePromote ==
  ASSUME Known, Applies, WriteParts, Promote
  PROVE  WriteParts'
<1>0. /\ pc = "select" /\ pc' \in {"select", "erase"} /\ layer > 0
      /\ UNCHANGED <<flash, req, region, cur, new, blk, before>>
      /\ TreatedInv /\ MirrorInv /\ ReadyInv /\ Region' = Region
  BY DEF Promote, WriteParts, Region
<1>1. TreatedInv'
  BY <1>0, TreatedKept DEF KeepsRest, Kept, InBlock, Working
<1>2. MirrorInv'
  BY <1>0 DEF MirrorInv, Mirrors, Walking, Working, InBlock
<1>3. \A b \in selected : \E c \in selected' : Cells(b) \subseteq Cells(c)
  BY PromotedCover DEF Known
<1>4. ReadyInv'
  BY <1>0, <1>3 DEF ReadyInv, Covered, DoErase, Explicit
<1>5. ProgramInv' /\ ResultInv'
  BY <1>0 DEF ProgramInv, ResultInv
<1> QED BY <1>1, <1>2, <1>4, <1>5 DEF WriteParts

\* When no selected block is left, the region is ready to be programmed
LEMMA WriteNextBlock ==
  ASSUME Known, BlocksAligned, Applies, WriteParts, NextBlock, ~Fault
  PROVE  WriteParts'
<1>0. /\ pc = "erase" /\ UNCHANGED <<flash, req, region, cur, new, before, selected>> /\ ~Explicit
      /\ TreatedInv /\ MirrorInv /\ ReadyInv /\ Region' = Region /\ Explicit' = Explicit
      /\ \/ {b \in selected : Overlap(b, RegionBlock)} = {} /\ pc' = "write" /\ pos' = Region.start
         \/ pc' = "erasefn"
  BY DEF NextBlock, WriteParts, Region, Explicit, Applies
<1>1. TreatedInv'
  <2>1. KeepsRest
    BY NextBlockKeeps DEF Known, KeptInv, Applies
  <2> QED BY <1>0, <2>1, TreatedKept DEF Working
<1>2. MirrorInv'
  BY <1>0 DEF MirrorInv, Mirrors, Walking, Working, InBlock
<1>3. ReadyInv'
  BY <1>0 DEF ReadyInv, Covered, DoErase, InBlock
<1>4. ProgramInv'
  <2> SUFFICES ASSUME pc' = "write" PROVE ProgramInv'
    BY DEF ProgramInv
  <2>1. selected = {} /\ pos' = Region.start
    BY <1>0 DEF Known, SelInv, Erasing
  <2>2. /\ Region.start \in Nat /\ Region.end \in Nat
        /\ Region.start <= Region.end /\ Aligned(Region.start)
    BY <1>0, RegionPages DEF Applies, Working
  <2>3. \A p \in Pages : DoErase /\ p \subseteq Region.start .. Region.end => PageReady(flash, new, p)
    BY <1>0, <2>1 DEF ReadyInv, Covered, RangeOf, InBlock
  <2> QED BY <1>0, <2>1, <2>2, <2>3 DEF ProgramInv, DoErase
<1>5. ResultInv'
  BY <1>0 DEF ResultInv
<1> QED BY <1>1, <1>2, <1>3, <1>4, <1>5 DEF WriteParts

\* Pages outside of the block at work are not disturbed, pages in it stay covered by it
LEMMA InBlockStays ==
  ASSUME Known, BlocksAligned, MirrorInv, ReadyInv, pc \in InBlock, pc' \in InBlock,
         UNCHANGED <<req, region, new, blk, selected>>,
         \A a \in Addr : a \notin Cells(blk) => flash'[a] = flash[a] /\ cur'[a] = cur[a]
  PROVE  MirrorInv' /\ ReadyInv'
<1>0. Region' = Region /\ Cells(blk)' = Cells(blk) /\ blk \in selected /\ blk \in AllBlocks
  BY BlkType DEF Region, Known, SelInv, InBlock, Cells
<1>1. MirrorInv'
  <2> SUFFICES ASSUME NEW p \in Pages, p \subseteq IncludedCells(req.layout), p \cap Cells(blk) = {}
               PROVE  Mirrors(p)'
    BY <1>0 DEF MirrorInv
  <2>1. p \subseteq Addr
    BY DEF IncludedCells
  <2>2. \A a \in p : flash'[a] = flash[a] /\ cur'[a] = cur[a]
    BY <2>1
  <2>3. Mirrors(p)
    BY DEF MirrorInv, Walking, Working, InBlock
  <2> QED BY <2>2, <2>3 DEF Mirrors
<1>2. ReadyInv'
  <2> SUFFICES ASSUME NEW p \in Pages, DoErase, p \subseteq RangeOf(Region) PROVE Covered(p)'
    BY <1>0 DEF ReadyInv, DoErase, Explicit
  <2>1. CASE p \subseteq Cells(blk)
    BY <1>0, <2>1 DEF Covered
  <2>2. CASE p \cap Cells(blk) = {}
    <3>1. Region.start \in Nat /\ Region.end \in Nat /\ Region.end < Size
      BY RegionType, RegionSane DEF Known, Working, InBlock
    <3>2. p \subseteq Addr
      BY <3>1, ChipAssumption DEF RangeOf, Addr
    <3>3. \A a \in p : flash'[a] = flash[a]
      BY <2>2, <3>2
    <3>4. Covered(p)
      BY DEF ReadyInv, InBlock
    <3> QED BY <1>0, <3>3, <3>4 DEF Covered, PageReady
  <2> QED BY <1>0, <2>1, <2>2, PageInBlock
<1> QED BY <1>1, <1>2

LEMMA WriteEraseBlock ==
  ASSUME Known, BlocksAligned, Applies, WriteParts, EraseBlock, ~Fault
  PROVE  WriteParts'
<1>0. /\ pc = "erasefn" /\ pc' = "check" /\ TreatedInv /\ MirrorInv /\ ReadyInv
      /\ UNCHANGED <<req, region, cur, new, before, blk, selected>>
  BY DEF EraseBlock, EraseTorn, WriteParts
<1>1. KeepsRest /\ \A a \in Addr : flash'[a] = IF a \in Cells(blk) THEN ERASED ELSE flash[a]
  BY EraseBlockKeeps DEF Known, KeptInv, Applies
<1>2. TreatedInv'
  BY <1>0, <1>1, TreatedKept DEF Working
<1>3. MirrorInv' /\ ReadyInv'
  BY <1>0, <1>1, InBlockStays DEF InBlock
<1>4. ProgramInv' /\ ResultInv'
  BY <1>0 DEF ProgramInv, ResultInv
<1> QED BY <1>2, <1>3, <1>4 DEF WriteParts

\* When a block is done its pages are mirrored and, in the region, erased
LEMMA BlockDoneStays ==
  ASSUME Known, BlocksAligned, MirrorInv, ReadyInv, pc \in InBlock, BlockDone,
         UNCHANGED <<flash, req, region, new>>, cur' \in Buffer,
         \A a \in Addr : a \notin Cells(blk) => cur'[a] = cur[a],
         \A a \in Cells(blk) : cur'[a] = flash[a],
         \A a \in Cells(blk) : a \in RangeOf(Region) => flash[a] = ERASED
  PROVE  MirrorInv' /\ ReadyInv'
<1>0. /\ Region' = Region /\ blk \in AllBlocks /\ pc' = "erase" /\ selected' = selected \ {blk}
      /\ new \in Buffer
  BY BlkType DEF Region, BlockDone, Known, TypeInv, TypeOK
<1>1. MirrorInv'
  <2> SUFFICES ASSUME NEW p \in Pages, p \subseteq IncludedCells(req.layout)
               PROVE  Mirrors(p)'
    BY DEF MirrorInv
  <2>1. p \subseteq Addr
    BY DEF IncludedCells
  <2>2. CASE p \subseteq Cells(blk)
    BY <2>2 DEF Mirrors
  <2>3. CASE p \cap Cells(blk) = {}
    <3>1. \A a \in p : cur'[a] = cur[a]
      BY <2>1, <2>3
    <3>2. Mirrors(p)
      BY <2>3 DEF MirrorInv, Walking, Working, InBlock
    <3> QED BY <3>1, <3>2 DEF Mirrors
  <2> QED BY <1>0, <2>2, <2>3, PageInBlock
<1>2. ReadyInv'
  <2> SUFFICES ASSUME NEW p \in Pages, DoErase, p \subseteq RangeOf(Region) PROVE Covered(p)'
    BY <1>0 DEF ReadyInv, DoErase, Explicit
  <2>1. Region.start \in Nat /\ Region.end \in Nat /\ Region.end < Size
    BY RegionType, RegionSane DEF Known, Working, InBlock
  <2>2. p \in SUBSET Addr
    BY <2>1, ChipAssumption DEF RangeOf, Addr
  <2>3. CASE p \subseteq Cells(blk)
    <3>1. \A a \in p : flash[a] = ERASED
      BY <2>3
    <3>2. PageReady(flash, new, p)
      BY <1>0, <2>2, <3>1, ErasedReady
    <3> QED BY <3>2 DEF Covered, PageReady
  <2>4. CASE p \cap Cells(blk) = {}
    <3>1. Covered(p)
      BY DEF ReadyInv, InBlock
    <3>2. p # {}
      BY PageType
    <3>3. \A b \in selected : p \subseteq Cells(b) => b # blk
      BY <2>4, <3>2
    <3> QED BY <1>0, <3>1, <3>3 DEF Covered, PageReady
  <2> QED BY <1>0, <2>3, <2>4, PageInBlock
<1> QED BY <1>1, <1>2

\* update of the mirror behind a block, when it is used at all
LEMMA UpdateCurIs ==
  ASSUME cur \in Buffer, NEW src \in Buffer, UpdateCur(src), ~Explicit
  PROVE  /\ cur' \in Buffer
         /\ \A a \in Addr : cur'[a] = IF a \in Cells(blk) THEN src[a] ELSE cur[a]
  BY CopiedType DEF UpdateCur, Copied

LEMMA WriteCheckErased ==
  ASSUME Known, BlocksAligned, Applies, WriteParts, CheckErased, ~Fault
  PROVE  WriteParts'
<1>0. /\ pc = "check" /\ TreatedInv /\ MirrorInv /\ ReadyInv /\ BlockInv /\ ~Explicit
      /\ UNCHANGED <<flash, req, region, new, before, blk>> /\ cur \in Buffer
      /\ Cells(blk) \subseteq Addr
  BY BlkType DEF CheckErased, WriteParts, Known, KeptInv, Applies, Explicit, TypeInv, TypeOK
<1>1. \A a \in Cells(blk) : flash[a] = ERASED
  BY <1>0 DEF BlockInv
<1>2. /\ UpdateCur(Blank)
      /\ IF Unaligned(blk) THEN pc' = "restore" /\ UNCHANGED selected ELSE BlockDone
  BY <1>0, <1>1 DEF CheckErased, ErasedRange
<1>3. cur' \in Buffer /\ \A a \in Addr : cur'[a] = IF a \in Cells(blk) THEN ERASED ELSE cur[a]
  BY <1>0, <1>2, UpdateCurIs, BlankType DEF Blank
<1>4. KeepsRest
  BY CheckErasedKeeps DEF Known, KeptInv, Applies
<1>5. TreatedInv'
  BY <1>0, <1>2, <1>4, TreatedKept DEF Working, BlockDone
<1>6. MirrorInv' /\ ReadyInv'
  <2>1. CASE Unaligned(blk)
    BY <1>0, <1>2, <1>3, <2>1, InBlockStays DEF InBlock
  <2>2. CASE ~Unaligned(blk)
    <3>1. pc \in InBlock /\ BlockDone /\ \A a \in Cells(blk) : cur'[a] = flash[a]
      BY <1>0, <1>1, <1>2, <1>3, <2>2 DEF InBlock
    <3> QED BY <1>0, <1>1, <1>3, <3>1, BlockDoneStays
  <2> QED BY <2>1, <2>2
<1>7. ProgramInv' /\ ResultInv'
  BY <1>2 DEF ProgramInv, ResultInv, BlockDone
<1> QED BY <1>5, <1>6, <1>7 DEF WriteParts

LEMMA WriteRestoreBlock ==
  ASSUME Known, BlocksAligned, Applies, WriteParts, RestoreBlock, ~Fault
  PROVE  WriteParts'
<1>0. /\ pc = "restore" /\ TreatedInv /\ MirrorInv /\ ReadyInv /\ BlockInv /\ ~Explicit
      /\ UNCHANGED <<req, region, new, before, blk, backup>> /\ cur \in Buffer /\ backup \in Buffer
      /\ Cells(blk) \subseteq Addr
  BY BlkType DEF RestoreBlock, WriteParts, Known, KeptInv, Applies, Explicit, TypeInv, TypeOK
<1>1. KeepsRest /\ \A a \in Addr : a \notin Cells(blk) => flash'[a] = flash[a]
  BY RestoreBlockKeeps DEF Known, KeptInv, Applies
<1>2. \/ pc' = "restore" /\ UNCHANGED <<selected, cur>>
      \/ /\ NextWrite(Blank, backup, pos, blk.e) = {} /\ UpdateCur(backup) /\ BlockDone
         /\ UNCHANGED flash
  BY <1>0 DEF RestoreBlock, WriteRun, ProgramTorn
<1>3. TreatedInv'
  BY <1>0, <1>1, <1>2, TreatedKept DEF Working, BlockDone
<1>4. MirrorInv' /\ ReadyInv'
  <2>1. CASE pc' = "restore" /\ UNCHANGED <<selected, cur>>
    BY <1>0, <1>1, <2>1, InBlockStays DEF InBlock
  <2>2. CASE /\ NextWrite(Blank, backup, pos, blk.e) = {} /\ UpdateCur(backup) /\ BlockDone
             /\ UNCHANGED flash
    <3>1. \A a \in Cells(blk) : flash[a] = backup[a]
      BY <1>0, <2>2, RestoreEnd DEF Known, Applies
    <3>2. \A a \in Cells(blk) : a \in RangeOf(Region) => flash[a] = ERASED
      BY <1>0, <3>1 DEF BlockInv, InBlock
    <3>3. cur' \in Buffer /\ \A a \in Addr : cur'[a] = IF a \in Cells(blk) THEN backup[a] ELSE cur[a]
      BY <1>0, <2>2, UpdateCurIs
    <3>4. pc \in InBlock /\ \A a \in Cells(blk) : cur'[a] = flash[a]
      BY <1>0, <3>1, <3>3 DEF InBlock
    <3> QED BY <1>0, <2>2, <3>2, <3>3, <3>4, BlockDoneStays
  <2> QED BY <1>2, <2>1, <2>2
<1>5. ProgramInv' /\ ResultInv'
  BY <1>2 DEF ProgramInv, ResultInv, BlockDone
<1> QED BY <1>3, <1>4, <1>5 DEF WriteParts

\* A round of write_range(): the image is on the chip up to the end of the run, also where
\* the run has passed over cells that hold it already
LEMMA WriteRunWrites ==
  ASSUME Known, Applies, WriteParts, pc = "write", UNCHANGED <<req, region, cur, new, blk, before>>,
         WriteRun(cur, new, Region.end), ~Fault
  PROVE  MirrorInv' /\ ProgramInv' /\ pc' = "write"
<1> DEFINE run == NextWrite(cur, new, pos, Region.end)
           top == Max(run)
<1>0. /\ flash \in Buffer /\ new \in Buffer /\ ~prot /\ ~Explicit /\ MirrorInv /\ ProgramInv
      /\ Region' = Region /\ DoErase' = DoErase
  BY DEF Known, TypeInv, TypeOK, LockInv, Applies, WriteParts, Region, Explicit, DoErase
<1>1. /\ Region.start \in Nat /\ Region.end \in Nat
      /\ Region.start <= Region.end /\ Region.end < Size
      /\ Aligned(Region.start) /\ Aligned(Region.end + 1)
      /\ RangeOf(Region) \subseteq Addr /\ RangeOf(Region) \subseteq IncludedCells(req.layout)
  BY RegionPages DEF Applies, Working
<1>2. /\ Aligned(pos) /\ pos \in Region.start .. Region.end + 1
      /\ \A a \in Region.start .. pos - 1 : flash[a] = new[a]
      /\ \A p \in Pages : DoErase /\ p \subseteq pos .. Region.end => PageReady(flash, new, p)
  BY <1>0 DEF ProgramInv
<1>3. run # {} /\ Program(run, new) /\ pos' = top + 1 /\ pc' = pc
  BY DEF WriteRun, ProgramTorn
<1>4. /\ run \subseteq pos .. top /\ top \in pos .. Region.end /\ Aligned(top + 1)
      /\ \A p \in Pages : p \cap run # {} => p \subseteq run
      /\ \A a \in pos .. top : a \notin run => cur[a] = new[a]
  <2>1. pos \in Nat /\ pos <= Region.end + 1
    BY <1>1, <1>2
  <2> QED BY <1>1, <1>2, <1>3, <2>1, NextRun
<1> HIDE DEF run, top
<1>5. ProgramCells(run, new) /\ \A a \in Addr : a \notin run => flash'[a] = flash[a]
  BY <1>0, <1>3 DEF Program, ProgramCells, Copied
<1>6. ASSUME NEW p \in Pages, p \cap run # {} PROVE \A a \in p : flash'[a] = new[a]
  <2>0. p \subseteq run /\ pos .. top \subseteq pos .. Region.end
    BY <1>1, <1>2, <1>4, <1>6
  <2>1. p \subseteq run /\ p \subseteq pos .. Region.end
    BY <1>4, <2>0
  <2>2. p \in SUBSET Addr
    BY <1>1, <1>2, <2>1 DEF RangeOf
  <2>3. NoErase \/ PageReady(flash, new, p)
    BY <1>2, <2>1 DEF DoErase
  <2> QED BY <1>0, <1>5, <2>1, <2>2, <2>3, ProgramReady
<1>7. MirrorInv'
  <2> SUFFICES ASSUME NEW p \in Pages, p \subseteq IncludedCells(req.layout) PROVE Mirrors(p)'
    BY DEF MirrorInv
  <2>1. CASE p \cap run # {}
    BY <1>6, <2>1 DEF Mirrors
  <2>2. CASE p \cap run = {}
    <3>1. p \subseteq Addr
      BY DEF IncludedCells
    <3>2. \A a \in p : flash'[a] = flash[a]
      BY <1>5, <2>2, <3>1
    <3>3. Mirrors(p)
      BY <1>0 DEF MirrorInv, Walking, Working, InBlock
    <3> QED BY <3>2, <3>3 DEF Mirrors
  <2> QED BY <2>1, <2>2
<1>8. ASSUME NEW a \in Region.start .. pos' - 1 PROVE flash'[a] = new[a]
  <2>1. a \in Nat /\ a \in Addr /\ a \in RangeOf(Region) /\ Region.start <= a /\ a <= top
    BY <1>1, <1>2, <1>3, <1>4, <1>8 DEF RangeOf
  <2>2. CASE a < pos
    <3>1. a \notin run /\ a \in Region.start .. pos - 1
      BY <1>1, <1>2, <1>4, <2>1, <2>2
    <3> QED BY <1>2, <1>5, <2>1, <3>1
  <2>3. CASE a >= pos
    <3>1. PICK p \in Pages : a \in p
      BY <2>1, PageOf
    <3>2. CASE p \cap run # {}
      BY <1>6, <3>1, <3>2
    <3>3. CASE p \cap run = {}
      <4>1. a \notin run /\ a \in pos .. top
        BY <1>2, <1>4, <2>1, <2>3, <3>1, <3>3
      <4>2. p \subseteq RangeOf(Region)
        BY <1>1, <2>1, <3>1, PageInside DEF RangeOf
      <4>3. Mirrors(p)
        BY <1>0, <1>1, <4>2 DEF MirrorInv, Walking, Working, InBlock
      <4> QED BY <1>4, <1>5, <2>1, <3>1, <4>1, <4>3 DEF Mirrors
    <3> QED BY <3>2, <3>3
  <2> QED BY <1>2, <2>1, <2>2, <2>3
<1>9. ASSUME NEW p \in Pages, DoErase, p \subseteq pos' .. Region.end PROVE PageReady(flash', new, p)
  <2>1. p \cap run = {}
    BY <1>2, <1>3, <1>4, <1>9
  <2>2. p \subseteq pos .. Region.end
    BY <1>1, <1>2, <1>3, <1>4, <1>9
  <2>3. p \subseteq Addr
    BY <1>1, <1>2, <2>2 DEF RangeOf
  <2>4. \A a \in p : flash'[a] = flash[a]
    BY <1>5, <2>1, <2>3
  <2> QED BY <1>2, <1>9, <2>2, <2>4 DEF PageReady
<1>10. Aligned(pos') /\ pos' \in Region.start .. Region.end + 1
  BY <1>1, <1>2, <1>3, <1>4
<1> QED BY <1>0, <1>3, <1>7, <1>8, <1>9, <1>10 DEF ProgramInv

LEMMA WriteWriteRegion ==
  ASSUME Known, BlocksAligned, Applies, WriteParts, WriteRegion, ~Fault
  PROVE  WriteParts'
<1>0. /\ pc = "write" /\ UNCHANGED <<req, region, cur, new, blk, before>>
      /\ TreatedInv /\ MirrorInv /\ ProgramInv
  BY DEF WriteRegion, WriteParts
<1>1. KeepsRest
  BY WriteRegionKeeps DEF Known
<1>2. CASE WriteRun(cur, new, Region.end)
  <2>1. MirrorInv' /\ ProgramInv' /\ pc' = "write"
    BY <1>0, <1>2, WriteRunWrites
  <2>2. TreatedInv'
    BY <1>0, <1>1, <2>1, TreatedKept DEF Working
  <2> QED BY <2>1, <2>2 DEF WriteParts, ReadyInv, ResultInv, InBlock
<1>3. CASE NextWrite(cur, new, pos, Region.end) = {} /\ pc' = "walk" /\ UNCHANGED flash
  <2>0. Region' = Region
    BY <1>0 DEF Region
  <2>1. /\ Region.start \in Nat /\ Region.end \in Nat
        /\ Region.start <= Region.end
        /\ Aligned(Region.start) /\ Aligned(Region.end + 1)
        /\ RangeOf(Region) \subseteq Addr /\ RangeOf(Region) \subseteq IncludedCells(req.layout)
    BY <1>0, RegionPages DEF Applies, Working
  <2>2. /\ Aligned(pos) /\ pos \in Region.start .. Region.end + 1
        /\ \A a \in Region.start .. pos - 1 : flash[a] = new[a]
    BY <1>0 DEF ProgramInv
  <2>3. \A a \in pos .. Region.end : cur[a] = new[a]
    BY <1>3, <2>1, <2>2, NothingToWrite
  <2>4. ASSUME NEW a \in RangeOf(Region) PROVE flash[a] = new[a]
    <3>1. a \in Nat /\ Region.start <= a /\ a <= Region.end
      BY <2>1, <2>4 DEF RangeOf
    <3>2. PICK p \in Pages : a \in p
      BY <3>1, PageOf
    <3>3. p \subseteq RangeOf(Region)
      BY <2>1, <3>1, <3>2, PageInside DEF RangeOf
    <3>4. Mirrors(p)
      BY <1>0, <2>1, <3>3 DEF MirrorInv, Walking, Working, InBlock
    <3>5. flash[a] = new[a] \/ flash[a] = cur[a]
      BY <3>2, <3>4 DEF Mirrors
    <3>6. a \in Region.start .. pos - 1 \/ a \in pos .. Region.end
      BY <2>1, <2>2, <3>1
    <3> QED BY <2>2, <2>3, <3>5, <3>6
  <2>5. TreatedInv'
    <3> SUFFICES ASSUME NEW j \in DOMAIN req.layout, NEW a \in Addr, IncludedEntry(j),
                        a \in RangeOf(req.layout[j]), j < region \/ j = region
                 PROVE  flash[a] = new[a]
      BY <1>0, <1>3 DEF TreatedInv, IncludedEntry, Kept, InBlock
    <3>1. CASE a \in RangeOf(Region)
      BY <2>4, <3>1
    <3>2. CASE a \notin RangeOf(Region)
      <4>1. j < region
        BY <3>2 DEF Region
      <4>2. Kept(a) = new[a]
        BY <1>0, <3>2, <4>1 DEF TreatedInv, Walking, Working
      <4> QED BY <1>0, <4>2 DEF Kept, InBlock
    <3> QED BY <3>1, <3>2
  <2>6. MirrorInv'
    BY <1>0, <1>3 DEF MirrorInv, Mirrors, Walking, Working, InBlock
  <2> QED BY <1>3, <2>5, <2>6 DEF WriteParts, ReadyInv, ProgramInv, ResultInv, InBlock
<1> QED BY <1>2, <1>3 DEF WriteRegion

\* At the end of the walk the image is on the chip, with the rest as it was
LEMMA CombineHasExpected ==
  ASSUME Known, Applies, TreatedInv, pc = "combine"
  PROVE  flash = Expected
<1>0. /\ flash \in Buffer /\ new = req.image /\ req.layout \in Seq(Entry) /\ region \in Nat
      /\ \A j \in DOMAIN req.layout : req.layout[j].included => j <= region
      /\ \A a \in Addr \ IncludedCells(req.layout) : Kept(a) = before.flash[a]
  BY DEF Known, TypeInv, TypeOK, Request, PhaseInv, KeptInv, Applies
<1>1. \A a \in Addr : Kept(a) = flash[a]
  BY DEF Kept, InBlock
<1>2. ASSUME NEW a \in Addr PROVE flash[a] = Expected[a]
  <2>1. CASE a \in IncludedCells(req.layout)
    <3>1. PICK j \in DOMAIN req.layout : req.layout[j].included /\ a \in RangeOf(req.layout[j])
      BY <2>1 DEF IncludedCells
    <3>2. j < region \/ j = region
      BY <1>0, <3>1
    <3>3. Kept(a) = new[a]
      BY <3>1, <3>2 DEF TreatedInv, IncludedEntry, Working
    <3> QED BY <1>0, <1>1, <2>1, <3>3 DEF Expected, Copied
  <2>2. CASE a \notin IncludedCells(req.layout)
    BY <1>0, <1>1, <2>2 DEF Expected, Copied
  <2> QED BY <2>1, <2>2
<1> QED BY <1>0, <1>2 DEF Expected, Copied, Buffer

\* Where the walk begins, the mirror is true
LEMMA WalkBegins ==
  ASSUME Applies, pc' = "walk", region' = 0, ReadInv', TrueRef', req' = req,
         UNCHANGED new, req.layout \in Seq(Entry)
  PROVE  TreatedInv' /\ MirrorInv'
<1>1. \A a \in IncludedCells(req.layout) : cur'[a] = flash'[a]
  BY DEF ReadInv, Applies
<1>2. TreatedInv'
  BY DEF TreatedInv, IncludedEntry
<1>3. MirrorInv'
  BY <1>1 DEF MirrorInv, Mirrors
<1> QED BY <1>2, <1>3

LEMMA WriteStep == Known /\ BlocksAligned /\ WriteInv /\ [Next]_vars => WriteInv'
<1> SUFFICES ASSUME Known, BlocksAligned, WriteInv, [Next]_vars, Applies'
             PROVE  WriteParts'
  BY DEF WriteInv
<1>0. /\ faults = 0 /\ ~Fault /\ req.layout \in Seq(Entry) /\ region \in Nat
      /\ ReadInv'
  BY NoFaultBefore, FaultsGrow, ReadStep DEF Known, Applies, TypeInv, TypeOK, Request
<1>1. ASSUME UNCHANGED <<req, before>> PROVE Applies /\ WriteParts
  BY <1>0, <1>1 DEF Applies, TrueRef, WriteInv
<1>2. CASE UNCHANGED vars
  <2>1. WriteParts
    BY <1>1, <1>2 DEF vars
  <2> QED BY <1>2, <2>1 DEF vars, WriteParts, TreatedInv, MirrorInv, ReadyInv, ProgramInv, ResultInv,
                           IncludedEntry, Kept, Region, Mirrors, Covered, DoErase, Explicit, Expected
<1>3. ASSUME NEW r \in Requests, Call(r) PROVE WriteParts'
  <2>1. req' = r /\ r.op = "write"
    BY <1>3 DEF Call, Applies
  <2>2. pc' = "prepare" \/ (pc' = "done" /\ ret' = 4)
    BY <1>3, <2>1 DEF Call
  <2> QED BY <2>2 DEF WriteParts, TreatedInv, MirrorInv, ReadyInv, ProgramInv, ResultInv,
                      Walking, Working, InBlock
<1>4. CASE Refuse \/ Prepare \/ Finalize \/ Diagnose
  <2>1. /\ UNCHANGED <<req, before, flash, region>>
        /\ \/ pc' \in {"read", "walk"} /\ (pc' = "walk" => req.op = "erase")
           \/ pc' = "verify" /\ req.op # "write"
           \/ pc' \in {"done", "finalize"} /\ (ret' = 0 => pc = "finalize" /\ ret = 0)
    BY <1>4 DEF Refuse, Prepare, Finalize, Diagnose, Known, ReadInv
  <2>2. Applies /\ WriteParts
    BY <1>1, <2>1
  <2> QED BY <2>1, <2>2 DEF WriteParts, TreatedInv, MirrorInv, ReadyInv, ProgramInv, ResultInv,
                      Walking, Working, InBlock, Applies, Expected
<1>5. CASE AssumeReference \/ ReadWhole \/ ReadRegion
  <2>1. /\ UNCHANGED <<req, before, flash, new>>
        /\ \/ pc' = "walk" /\ region' = 0
           \/ pc' = "read"
           \/ pc' = "finalize" /\ req.op = "read"
    BY <1>0, <1>5 DEF AssumeReference, ReadWhole, ReadRegion, Return, Known, PhaseInv
  <2>2. Applies /\ TrueRef'
    BY <1>1, <2>1 DEF Applies
  <2>3. CASE pc' = "walk" /\ region' = 0
    <3>1. TreatedInv' /\ MirrorInv'
      BY <1>0, <2>1, <2>2, <2>3, WalkBegins
    <3> QED BY <2>3, <3>1 DEF WriteParts, ReadyInv, ProgramInv, ResultInv, InBlock
  <2>4. CASE pc' = "read"
    BY <2>4 DEF WriteParts, TreatedInv, MirrorInv, ReadyInv, ProgramInv, ResultInv,
                Walking, Working, InBlock
  <2> QED BY <2>1, <2>2, <2>3, <2>4 DEF Applies
<1>6. CASE StartVerify \/ VerifyRegion
  <2>1. /\ UNCHANGED <<req, before, flash>> /\ pc \in {"combine", "verify"}
        /\ pc' \in {"verify", "finalize"}
    BY <1>6 DEF StartVerify, VerifyRegion, Return
  <2>2. Applies /\ WriteParts
    BY <1>1, <2>1
  <2>3. flash = Expected
    BY <2>1, <2>2, CombineHasExpected DEF WriteParts, ResultInv
  <2> QED BY <2>1, <2>3 DEF WriteParts, TreatedInv, MirrorInv, ReadyInv, ProgramInv, ResultInv,
                            Walking, Working, InBlock, Expected
<1>7. CASE NextRegion \/ SelectLeaves \/ Promote \/ Changing
  <2>1. UNCHANGED <<req, before>>
    BY <1>7 DEF NextRegion, SelectLeaves, Promote, Changing, NextBlock, EraseBlock, CheckErased,
                RestoreBlock, WriteRegion
  <2>2. Applies /\ WriteParts
    BY <1>1, <2>1
  <2> QED
    BY <1>0, <1>7, <2>2, WriteNextRegion, WriteSelectLeaves, WritePromote, WriteNextBlock,
       WriteEraseBlock, WriteCheckErased, WriteRestoreBlock, WriteWriteRegion DEF Changing
<1> QED
  BY <1>2, <1>3, <1>4, <1>5, <1>6, <1>7 DEF Next, Step, Changing

LEMMA KnownAlways == BlocksAligned => (Spec => []Known /\ []WriteInv)
<1> SUFFICES ASSUME BlocksAligned PROVE Spec => []Known /\ []WriteInv
  OBVIOUS
<1>1. Init => Known /\ WriteInv
  BY InitType, SelInit, TouchInit, LockInit, PhaseInit, ReadInit, KeptInit, WriteInit DEF Known
<1>2. Known /\ WriteInv /\ [Next]_vars => Known' /\ WriteInv'
  BY StepType, SelStep, TouchStep, LockStep, PhaseStep, ReadStep, KeptStep, WriteStep DEF Known
<1> QED BY <1>1, <1>2, PTL DEF Spec

\* When write_range() starts on a region, and all the way through it, what is left of the
\* region can be programmed without another erase: the chip itself, not just its mirror
THEOREM ErasedBeforeProgrammed == BlocksAligned => (Spec => []EraseBeforeProgram)
<1> SUFFICES ASSUME BlocksAligned PROVE Spec => []EraseBeforeProgram
  OBVIOUS
<1>1. Known /\ WriteInv => EraseBeforeProgram
  <2> SUFFICES ASSUME Known, WriteInv, pc = "write", DoErase, faults = 0, TrueRef
               PROVE  ~NeedErase(flash, new, pos, Region.end)
    BY DEF EraseBeforeProgram
  <2>1. req.op = "write"
    BY DEF Known, PhaseInv
  <2>2. /\ \A p \in Pages : p \subseteq pos .. Region.end => PageReady(flash, new, p)
        /\ Aligned(pos) /\ pos \in Region.start .. Region.end + 1
    BY <2>1 DEF WriteInv, WriteParts, Applies, ProgramInv
  <2>3. Region.start \in Nat /\ Region.end \in Nat /\ Aligned(Region.end + 1)
    BY <2>1, RegionPages DEF Working
  <2>4. pos \in Nat /\ pos <= Region.end + 1
    BY <2>2, <2>3
  <2> QED BY <2>2, <2>3, <2>4, NeedErasePages
<1> QED BY <1>1, KnownAlways, PTL

\* A write that returns 0 and in which no chip call went wrong has written the image in the
\* included regions and kept all the rest, whether it was verified or not
THEOREM WritesAreCorrect == BlocksAligned => (Spec => []WriteCorrect)
<1> SUFFICES ASSUME BlocksAligned PROVE Spec => []WriteCorrect
  OBVIOUS
<1>1. WriteInv => WriteCorrect
  BY DEF WriteInv, WriteParts, Applies, ResultInv, WriteCorrect, Succeeded
<1> QED BY <1>1, KnownAlways, PTL

-----------------------------------------------------------------------------
(***************************************************************************)
(* FlashUpdate implements FlashImage: whatever goes wrong in an operation, *)
(* it changes the chip only near what it was asked for, and what it        *)
(* returns is true.  For every chip, eraser table, layout, image and       *)
(* number of faults, and without a word on how blocks are aligned.         *)
(***************************************************************************)

(* What is known when an operation has got somewhere                       *)

\* Cells of the regions that walk_by_layout() is done with
Behind(a) ==
  \E j \in DOMAIN req.layout : /\ IncludedEntry(j) /\ a \in RangeOf(req.layout[j])
                               /\ j < region \/ (j = region /\ pc \notin Working)

\* An explicit erase: what it is done with is erased, stays so when a neighbour's block is
\* erased and restored, and its return value says so
BehindErased == pc \in Walking => \A a \in Addr : Behind(a) => flash[a] = ERASED
BackupErased ==
  pc \in InBlock => \A a \in Addr :
    a \in Cells(blk) /\ (Behind(a) \/ a \in RangeOf(Region)) => backup[a] = ERASED
RegionCovered ==
  (pc = "select" /\ layer > 0) \/ pc \in {"erase"} \cup InBlock =>
    \A a \in RangeOf(Region) : flash[a] = ERASED \/ \E b \in selected : a \in Cells(b)
RestoredErased ==
  pc = "restore" => \A a \in RangeOf(Region) : a \in Cells(blk) => flash[a] = ERASED
EraseResult ==
  pc = "finalize" => /\ ret \in {0, 1}
                     /\ ret = 0 => \A a \in IncludedCells(req.layout) : flash[a] = ERASED
EraseInv ==
  req.op = "erase" =>
    BehindErased /\ BackupErased /\ RegionCovered /\ RestoredErased /\ EraseResult

ReadResult ==
  req.op = "read" /\ pc = "finalize" =>
    /\ ret \in {0, 1}
    /\ ret = 0 => \A a \in IncludedCells(req.layout) : cur[a] = flash[a]

\* verify_by_layout(): what it has been through is as wanted; after a write that is what the
\* write was to leave behind
VerifiedSoFar ==
  pc = "verify" => \A j \in DOMAIN VerifyLayout : \A a \in Addr :
    VerifyLayout[j].included /\ j <= region /\ a \in RangeOf(VerifyLayout[j]) => flash[a] = new[a]
WriteVerified ==
  pc = "verify" /\ req.op = "write" =>
    /\ req.verify
    /\ new = IF req.verifyAll THEN Copied(old, IncludedCells(req.layout), req.image) ELSE req.image
    /\ req.verifyAll /\ TrueRef => old = before.flash
VerifyResult ==
  req.op = "verify" /\ pc = "finalize" =>
    /\ ret \in {0, 1, 3}
    /\ ret = 0 => \A a \in IncludedCells(req.layout) : flash[a] = req.image[a]
    /\ ret = 3 => \E a \in IncludedCells(req.layout) : flash[a] # req.image[a]
VerifyInv == VerifiedSoFar /\ WriteVerified /\ VerifyResult

\* While all_skipped holds nothing was changed, and nothing that we are done with had to be
SkippedTrue ==
  pc \in Walking \cup {"combine"} /\ (region # 0 \/ pc = "combine") /\ skipped =>
    /\ flash = before.flash
    /\ TrueRef => /\ \A a \in IncludedCells(req.layout) : cur[a] = flash[a]
                  /\ \A a \in Addr : Behind(a) => cur[a] = new[a]
SkippedPos ==
  /\ pc = "write" /\ skipped => pos = Region.start
  /\ pc \in {"check", "restore"} => ~skipped
WriteResult ==
  pc = "finalize" =>
    /\ ret \in 0 .. 3
    /\ ret = 0 /\ req.verify /\ (TrueRef \/ flash # before.flash) =>
         /\ \A a \in IncludedCells(req.layout) : flash[a] = req.image[a]
         /\ req.verifyAll /\ TrueRef =>
              \A a \in Addr \ IncludedCells(req.layout) : flash[a] = before.flash[a]
SkipInv == req.op = "write" => SkippedTrue /\ SkippedPos /\ WriteResult

\* What holds anyway
Basics == TypeInv /\ SelInv /\ TouchInv /\ PhaseInv /\ ReadInv

LEMMA LayoutType ==
  ASSUME TypeInv
  PROVE  /\ req \in Request /\ req.layout \in Seq(Entry) /\ region \in Nat /\ flash \in Buffer
         /\ req.image \in Buffer /\ cur \in Buffer /\ new \in Buffer /\ backup \in Buffer
         /\ pos \in Nat /\ selected \subseteq AllBlocks /\ req.op \in Ops /\ VerifyLayout \in Seq(Entry)
  BY DefaultLayoutType DEF TypeInv, TypeOK, Request, VerifyLayout

LEMMA RegionInChip ==
  ASSUME Basics, pc \in Working
  PROVE  RangeOf(Region) \subseteq Addr
<1>1. Region.start \in Nat /\ Region.end \in Nat /\ Region.end < Size
  BY RegionType, RegionSane DEF Basics
<1> QED BY <1>1, ChipAssumption DEF RangeOf, Addr

\* layout_next_included() has come to the end: all included regions are behind us
LEMMA AllBehind ==
  ASSUME Basics, pc \notin Working,
         (pc = "walk" /\ NextIncluded(req.layout, region) = 0) \/ pc = "combine",
         NEW a \in IncludedCells(req.layout)
  PROVE  a \in Addr /\ Behind(a)
<1>1. PICK j \in DOMAIN req.layout : IncludedEntry(j) /\ a \in RangeOf(req.layout[j])
  BY DEF IncludedCells, IncludedEntry
<1>2. req.layout \in Seq(Entry) /\ region \in Nat /\ a \in Addr
  BY LayoutType DEF Basics, IncludedCells
<1>3. j <= region
  <2>1. CASE pc = "combine"
    BY <1>1, <2>1 DEF Basics, PhaseInv, IncludedEntry
  <2>2. CASE NextIncluded(req.layout, region) = 0
    BY <1>1, <1>2, <2>2, NextIncludedSkipsNone DEF IncludedEntry
  <2> QED BY <2>1, <2>2
<1>4. j < region \/ j = region
  BY <1>2, <1>3
<1> QED BY <1>1, <1>2, <1>4 DEF Behind

\* and while it goes on to the next one, nothing gets behind us that was not
LEMMA BehindNext ==
  ASSUME Basics, pc = "walk", UNCHANGED req,
         LET n == NextIncluded(req.layout, region)
         IN  \/ n = 0 /\ UNCHANGED region
             \/ n # 0 /\ region' = n /\ pc' \in Working,
         NEW a \in Addr, Behind(a)'
  PROVE  Behind(a) /\ region # 0
<1> DEFINE n == NextIncluded(req.layout, region)
<1>0. req.layout \in Seq(Entry) /\ region \in Nat
  BY LayoutType DEF Basics
<1>1. PICK j \in DOMAIN req.layout : /\ IncludedEntry(j) /\ a \in RangeOf(req.layout[j])
                                     /\ j < region' \/ (j = region' /\ pc' \notin Working)
  BY DEF Behind, IncludedEntry
<1>2. j \in Nat \ {0}
  BY <1>0
<1>3. j > region => n # 0 /\ n <= j
  BY <1>0, <1>1, NextIncludedSkipsNone DEF IncludedEntry
<1>4. n # 0 => n \in Nat
  BY <1>0, NextIncludedIsIncluded
<1>5. j <= region
  <2> HIDE DEF n
  <2>1. CASE n = 0 /\ UNCHANGED region
    BY <1>0, <1>2, <1>3, <2>1
  <2>2. CASE n # 0 /\ region' = n /\ pc' \in Working
    BY <1>0, <1>1, <1>2, <1>3, <1>4, <2>2
  <2> QED BY <2>1, <2>2 DEF n
<1>6. j < region \/ j = region
  BY <1>0, <1>2, <1>5
<1> QED BY <1>0, <1>1, <1>2, <1>5, <1>6 DEF Behind, Working

\* Within a region nothing gets behind us
LEMMA BehindSame ==
  ASSUME UNCHANGED <<req, region>>, pc \in Working, pc' \in Working
  PROVE  \A a \in Addr : Behind(a)' = Behind(a)
  BY DEF Behind, IncludedEntry

\* and at its end only the region does
LEMMA BehindEnd ==
  ASSUME TypeInv, UNCHANGED <<req, region>>, pc \in Working, pc' = "walk", NEW a \in Addr, Behind(a)'
  PROVE  Behind(a) \/ a \in RangeOf(Region)
  BY DEF Behind, IncludedEntry, Region

-----------------------------------------------------------------------------
(* What becomes of the chip in a step                                      *)

\* Steps change the chip only for an erase or a write, and only within reach
LEMMA ChangesWithinReach ==
  ASSUME Basics, Step, NEW a \in Addr, flash'[a] # flash[a]
  PROVE  req.op \in {"erase", "write"} /\ a \in Reach
<1>0. flash \in Buffer /\ pos \in Nat
  BY LayoutType DEF Basics
<1>1. CASE Refuse \/ Prepare \/ Finalize \/ AssumeReference \/ ReadWhole \/ ReadRegion
           \/ NextRegion \/ SelectLeaves \/ Promote \/ Diagnose \/ StartVerify \/ VerifyRegion
  BY <1>1, RestKeeps
<1>2. CASE NextBlock \/ CheckErased
  BY <1>2 DEF NextBlock, CheckErased
<1>3. CASE EraseBlock
  <2>1. pc = "erasefn"
    BY <1>3 DEF EraseBlock
  <2>2. PICK part \in SUBSET Cells(blk) : EraseCells(part)
    BY <1>3 DEF EraseBlock, Erase, EraseTorn
  <2>3. a \in part
    BY <1>0, <2>2 DEF EraseCells, Copied
  <2>4. Cells(blk) \subseteq Reach
    BY <2>1 DEF Basics, SelInv, TouchInv
  <2> QED BY <2>1, <2>2, <2>3, <2>4 DEF Basics, PhaseInv, Walking, Working
<1>4. CASE RestoreBlock
  <2>1. pc = "restore" /\ WriteRun(Blank, backup, blk.e)
    BY <1>4 DEF RestoreBlock
  <2>2. PICK part \in SUBSET NextWrite(Blank, backup, pos, blk.e) : ProgramCells(part, backup)
    BY <2>1 DEF WriteRun, Program, ProgramTorn
  <2>3. a \in part
    BY <1>0, <2>2 DEF ProgramCells, Copied
  <2>4. blk.s \in Nat /\ blk.e \in Nat /\ blk.s <= pos
    BY <2>1, BlkType DEF Basics, TouchInv, RightPos
  <2>5. a \in Cells(blk)
    BY <1>0, <2>2, <2>3, <2>4, NextWriteInRange DEF Cells
  <2>6. Cells(blk) \subseteq Reach
    BY <2>1 DEF Basics, SelInv, TouchInv
  <2> QED BY <2>1, <2>5, <2>6 DEF Basics, PhaseInv, Walking, Working
<1>5. CASE WriteRegion
  <2>1. pc = "write" /\ WriteRun(cur, new, Region.end)
    BY <1>5 DEF WriteRegion
  <2>2. PICK part \in SUBSET NextWrite(cur, new, pos, Region.end) : ProgramCells(part, new)
    BY <2>1 DEF WriteRun, Program, ProgramTorn
  <2>3. a \in part
    BY <1>0, <2>2 DEF ProgramCells, Copied
  <2>4. Region.start \in Nat /\ Region.end \in Nat /\ Region.start <= pos
    BY <2>1, RegionType DEF Basics, TouchInv, RightPos, Working
  <2>5. a \in RangeOf(Region)
    BY <1>0, <2>2, <2>3, <2>4, NextWriteInRange DEF RangeOf
  <2>6. RangeOf(Region) \subseteq Reach
    BY <2>1, RegionWithinReach DEF Basics, Working
  <2> QED BY <2>1, <2>5, <2>6 DEF Basics, PhaseInv, Walking, Working
<1> QED BY <1>1, <1>2, <1>3, <1>4, <1>5 DEF Step

\* Erasing, all or part of a block, leaves erased what is erased
LEMMA EraseStaysErased ==
  ASSUME TypeInv, EraseBlock, NEW a \in Addr, flash[a] = ERASED
  PROVE  flash'[a] = ERASED
<1>0. flash \in Buffer
  BY DEF TypeInv, TypeOK
<1>1. PICK part : EraseCells(part)
  BY DEF EraseBlock, Erase, EraseTorn
<1> QED BY <1>0, <1>1 DEF EraseCells, Copied, Blank

\* and so does programming it with what an erased cell holds
LEMMA RestoreStaysErased ==
  ASSUME Basics, RestoreBlock, NEW a \in Addr, flash[a] = ERASED,
         a \in Cells(blk) => backup[a] = ERASED
  PROVE  flash'[a] = ERASED
<1>0. flash \in Buffer /\ pos \in Nat /\ pc = "restore"
  BY LayoutType DEF Basics, RestoreBlock
<1>1. CASE WriteRun(Blank, backup, blk.e)
  <2>1. PICK part \in SUBSET NextWrite(Blank, backup, pos, blk.e) : ProgramCells(part, backup)
    BY <1>1 DEF WriteRun, Program, ProgramTorn
  <2>2. blk.s \in Nat /\ blk.e \in Nat /\ blk.s <= pos
    BY <1>0, BlkType DEF Basics, TouchInv, RightPos
  <2>3. part \subseteq Cells(blk)
    BY <1>0, <2>1, <2>2, NextWriteInRange DEF Cells
  <2>4. flash'[a] = flash[a] \/ (a \in part /\ flash'[a] \in {backup[a], flash[a] \cap backup[a]})
    BY <1>0, <2>1 DEF ProgramCells, Copied
  <2> QED BY <2>3, <2>4
<1>2. CASE UNCHANGED flash
  BY <1>2
<1> QED BY <1>1, <1>2 DEF RestoreBlock

-----------------------------------------------------------------------------
(* An explicit erase                                                       *)

LEMMA EraseNextRegion ==
  ASSUME Basics, EraseInv, req.op = "erase", NextRegion
  PROVE  EraseInv'
<1> DEFINE n == NextIncluded(req.layout, region)
<1>0. pc = "walk" /\ UNCHANGED <<flash, req>> /\ Explicit /\ DoErase /\ BehindErased
  BY DEF NextRegion, EraseInv, Explicit, DoErase
<1>1. CASE n = 0 /\ Return(0)
  <2>1. \A a \in IncludedCells(req.layout) : flash[a] = ERASED
    BY <1>0, <1>1, AllBehind DEF BehindErased, Walking, Working
  <2> QED BY <1>0, <1>1, <2>1 DEF Return, EraseInv, BehindErased, BackupErased, RegionCovered,
                                 RestoredErased, EraseResult, Walking, Working, InBlock
<1>2. CASE n # 0 /\ region' = n /\ layer' = 0 /\ pc' = "select"
  <2>1. BehindErased'
    BY <1>0, <1>2, BehindNext DEF BehindErased, Walking, Working
  <2> QED BY <1>2, <2>1 DEF EraseInv, BackupErased, RegionCovered, RestoredErased, EraseResult, InBlock
<1>3. CASE WalkFails
  BY <1>0, <1>3 DEF WalkFails, EraseInv, BehindErased, BackupErased, RegionCovered,
                 RestoredErased, EraseResult, Walking, Working, InBlock
<1> QED BY <1>0, <1>1, <1>2, <1>3 DEF NextRegion

\* A failure is told
LEMMA EraseFails ==
  ASSUME Explicit, WalkFails, UNCHANGED req
  PROVE  EraseInv'
  BY DEF WalkFails, EraseInv, BehindErased, BackupErased, RegionCovered,
         RestoredErased, EraseResult, Walking, Working, InBlock

LEMMA EraseSelect ==
  ASSUME Basics, EraseInv, req.op = "erase", SelectLeaves \/ Promote
  PROVE  EraseInv'
<1>0. /\ pc = "select" /\ pc' \in {"select", "erase"} /\ UNCHANGED <<flash, req, region>>
      /\ Explicit /\ BehindErased /\ RegionCovered /\ Region' = Region
  BY DEF SelectLeaves, Promote, EraseInv, Explicit, Region
<1>1. BehindErased'
  BY <1>0, BehindSame DEF BehindErased, Walking, Working
<1>2. CASE SelectLeaves
  <2>1. {b \in Blocks[1] : Overlap(b, RegionBlock)} \subseteq selected'
    BY <1>0, <1>2 DEF SelectLeaves
  <2>2. ASSUME NEW a \in RangeOf(Region) PROVE \E b \in selected' : a \in Cells(b)
    <3>1. a \in Addr
      BY <1>0, <2>2, RegionInChip DEF Working
    <3>2. PICK b \in Blocks[1] : a \in Cells(b)
      BY <3>1, EraserAssumption, ChipAssumption
    <3>3. b \in AllBlocks
      BY <3>2, ChipAssumption DEF AllBlocks
    <3>4. /\ b.s \in Nat /\ b.e \in Nat /\ a \in Nat /\ b.s <= a /\ a <= b.e
          /\ Region.start \in Nat /\ Region.end \in Nat /\ Region.start <= a /\ a <= Region.end
      <4>1. b.s \in Nat /\ b.e \in Nat
        BY <3>3, AllBlocksType
      <4>2. Region.start \in Nat /\ Region.end \in Nat
        BY <1>0, RegionType DEF Basics, Working
      <4> QED BY <2>2, <3>1, <3>2, <4>1, <4>2 DEF Addr, Cells, RangeOf
    <3>5. Overlap(b, RegionBlock)
      BY <3>4 DEF Overlap, RegionBlock
    <3> QED BY <2>1, <3>2, <3>5
  <2> QED BY <1>0, <1>1, <2>2 DEF EraseInv, BackupErased, RegionCovered, RestoredErased, EraseResult, InBlock
<1>3. CASE Promote
  <2>1. layer > 0
    BY <1>3 DEF Promote
  <2>2. \A b \in selected : \E c \in selected' : Cells(b) \subseteq Cells(c)
    BY <1>3, PromotedCover DEF Basics
  <2> QED BY <1>0, <1>1, <2>1, <2>2
          DEF EraseInv, BackupErased, RegionCovered, RestoredErased, EraseResult, InBlock
<1> QED BY <1>2, <1>3

LEMMA EraseNextBlock ==
  ASSUME Basics, EraseInv, req.op = "erase", NextBlock
  PROVE  EraseInv'
<1>0. /\ pc = "erase" /\ UNCHANGED <<flash, req, region>> /\ Explicit /\ Explicit' = Explicit
      /\ BehindErased /\ RegionCovered /\ Region' = Region /\ flash \in Buffer
      /\ \A a \in Addr : Behind(a) => flash[a] = ERASED
  BY LayoutType DEF Basics, NextBlock, EraseInv, Explicit, Region, BehindErased, Walking, Working
<1>1. CASE {b \in selected : Overlap(b, RegionBlock)} = {} /\ pc' = "walk"
  <2>1. selected = {}
    BY <1>0, <1>1 DEF Basics, SelInv, Erasing
  <2>2. \A a \in RangeOf(Region) : flash[a] = ERASED
    BY <1>0, <2>1 DEF RegionCovered
  <2>3. BehindErased'
    BY <1>0, <1>1, <2>2, BehindEnd DEF Basics, BehindErased, Walking, Working
  <2> QED BY <1>1, <2>3 DEF EraseInv, BackupErased, RegionCovered, RestoredErased, EraseResult, InBlock
<1>2. CASE \E b \in selected : /\ blk' = b /\ pc' = "erasefn" /\ UNCHANGED selected
                               /\ backup' = Copied(Blank, Cells(b) \ RangeOf(Region), flash)
  <2>1. PICK b \in selected : /\ blk' = b /\ pc' = "erasefn" /\ UNCHANGED selected
                              /\ backup' = Copied(Blank, Cells(b) \ RangeOf(Region), flash)
    BY <1>2
  <2>2. \A a \in Addr : Behind(a)' = Behind(a)
    BY <1>0, <2>1, BehindSame DEF Working
  <2>3. BehindErased'
    BY <1>0, <2>2 DEF BehindErased
  <2>4. \A a \in Addr : backup'[a] = IF a \in Cells(b) \ RangeOf(Region) THEN flash[a] ELSE ERASED
    BY <2>1 DEF Copied, Blank
  <2>5. BackupErased'
    BY <1>0, <2>2, <2>4 DEF BackupErased
  <2>6. RegionCovered'
    BY <1>0, <2>1 DEF RegionCovered
  <2> QED BY <2>1, <2>3, <2>5, <2>6 DEF EraseInv, RestoredErased, EraseResult
<1>3. CASE WalkFails
  BY <1>0, <1>3, EraseFails
<1> QED BY <1>0, <1>1, <1>2, <1>3 DEF NextBlock

LEMMA EraseEraseBlock ==
  ASSUME Basics, EraseInv, req.op = "erase", EraseBlock
  PROVE  EraseInv'
<1>0. /\ pc = "erasefn" /\ UNCHANGED <<req, region, blk, backup>> /\ Explicit
      /\ BehindErased /\ BackupErased /\ RegionCovered /\ Region' = Region
      /\ \A a \in Addr : flash[a] = ERASED => flash'[a] = ERASED
      /\ RangeOf(Region) \subseteq Addr
  BY EraseStaysErased, RegionInChip DEF Basics, EraseBlock, EraseInv, Explicit, Region, Working
<1>1. CASE pc' = "check" /\ UNCHANGED selected
  <2>1. \A a \in Addr : Behind(a)' = Behind(a)
    BY <1>0, <1>1, BehindSame DEF Working
  <2>2. BehindErased'
    BY <1>0, <2>1 DEF BehindErased, Walking, Working
  <2>3. BackupErased'
    BY <1>0, <2>1 DEF BackupErased, InBlock
  <2>4. RegionCovered'
    BY <1>0, <1>1 DEF RegionCovered, InBlock
  <2> QED BY <1>1, <2>2, <2>3, <2>4 DEF EraseInv, RestoredErased, EraseResult
<1>2. CASE WalkFails
  BY <1>0, <1>2, EraseFails
<1> QED BY <1>1, <1>2 DEF EraseBlock

\* check_erased_range() reads the block back, so nothing that went wrong before goes unnoticed
LEMMA EraseCheckErased ==
  ASSUME Basics, EraseInv, req.op = "erase", CheckErased
  PROVE  EraseInv'
<1>0. /\ pc = "check" /\ UNCHANGED <<flash, req, region, blk, backup>> /\ Explicit
      /\ BehindErased /\ BackupErased /\ RegionCovered /\ Region' = Region
      /\ RangeOf(Region) \subseteq Addr
  BY RegionInChip DEF CheckErased, EraseInv, Explicit, Region, Working
<1>1. CASE ErasedRange(blk) /\ (BlockDone \/ (pc' = "restore" /\ UNCHANGED selected))
  <2>0. pc' \in {"erase", "restore"}
    BY <1>1 DEF BlockDone
  <2>1. \A a \in Addr : Behind(a)' = Behind(a)
    BY <1>0, <2>0, BehindSame DEF Working
  <2>2. BehindErased'
    BY <1>0, <2>1 DEF BehindErased, Walking, Working
  <2>3. BackupErased'
    BY <1>0, <2>1 DEF BackupErased, InBlock
  <2>4. RegionCovered'
    BY <1>0, <1>1 DEF RegionCovered, InBlock, ErasedRange, BlockDone
  <2>5. RestoredErased'
    BY <1>0, <1>1 DEF RestoredErased, ErasedRange
  <2> QED BY <2>0, <2>2, <2>3, <2>4, <2>5 DEF EraseInv, EraseResult
<1>2. CASE WalkFails
  BY <1>0, <1>2, EraseFails
<1> QED BY <1>1, <1>2 DEF CheckErased

LEMMA EraseRestoreBlock ==
  ASSUME Basics, EraseInv, req.op = "erase", RestoreBlock
  PROVE  EraseInv'
<1>0. /\ pc = "restore" /\ UNCHANGED <<req, region, blk, backup>> /\ Explicit
      /\ BehindErased /\ BackupErased /\ RegionCovered /\ RestoredErased /\ Region' = Region
      /\ RangeOf(Region) \subseteq Addr
  BY RegionInChip DEF RestoreBlock, EraseInv, Explicit, Region, Working
<1>1. ASSUME NEW a \in Addr, flash[a] = ERASED, Behind(a) \/ a \in RangeOf(Region)
      PROVE  flash'[a] = ERASED
  <2>1. a \in Cells(blk) => backup[a] = ERASED
    BY <1>0, <1>1 DEF BackupErased, InBlock
  <2> QED BY <1>1, <2>1, RestoreStaysErased
<1>2. CASE pc' \in {"restore", "erase"} /\ selected' = (IF pc' = "erase" THEN selected \ {blk} ELSE selected)
  <2>1. \A a \in Addr : Behind(a)' = Behind(a)
    BY <1>0, <1>2, BehindSame DEF Working
  <2>2. BehindErased'
    BY <1>0, <1>1, <2>1 DEF BehindErased, Walking, Working
  <2>3. BackupErased'
    BY <1>0, <2>1 DEF BackupErased, InBlock
  <2>4. ASSUME NEW a \in RangeOf(Region)
        PROVE  flash'[a] = ERASED \/ (\E b \in selected : a \in Cells(b) /\ a \notin Cells(blk))
    <3>1. flash[a] = ERASED \/ \E b \in selected : a \in Cells(b)
      BY <1>0 DEF RegionCovered, InBlock
    <3>2. a \in Cells(blk) => flash[a] = ERASED
      BY <1>0 DEF RestoredErased
    <3> QED BY <1>0, <1>1, <3>1, <3>2
  <2>5. RegionCovered'
    BY <1>0, <1>2, <2>4 DEF RegionCovered
  <2>6. RestoredErased'
    BY <1>0, <1>1 DEF RestoredErased
  <2> QED BY <1>2, <2>2, <2>3, <2>5, <2>6 DEF EraseInv, EraseResult
<1>3. CASE WalkFails
  BY <1>0, <1>3, EraseFails
<1> QED BY <1>0, <1>2, <1>3 DEF RestoreBlock, WriteRun, BlockDone

LEMMA EraseInit == Init => EraseInv
  BY DEF Init, EraseInv

LEMMA EraseStep == Basics /\ EraseInv /\ [Next]_vars => EraseInv'
<1> SUFFICES ASSUME Basics, EraseInv, [Next]_vars, req'.op = "erase" PROVE EraseInv'
  BY DEF EraseInv
<1>1. CASE UNCHANGED vars
  BY <1>1 DEF vars, EraseInv, BehindErased, BackupErased, RegionCovered, RestoredErased, EraseResult,
              Behind, IncludedEntry, Region
<1>2. ASSUME NEW r \in Requests, Call(r) PROVE EraseInv'
  <2>1. pc' \in {"prepare", "done"}
    BY <1>2 DEF Call
  <2> QED BY <2>1 DEF EraseInv, BehindErased, BackupErased, RegionCovered, RestoredErased, EraseResult,
                      Walking, Working, InBlock
<1>3. CASE Prepare
  <2>1. /\ region' = 0 /\ UNCHANGED req /\ pc' = "walk" /\ req.layout \in Seq(Entry)
    BY <1>3, LayoutType DEF Prepare, Basics, PhaseInv
  <2>2. \A a \in Addr : ~Behind(a)'
    BY <2>1 DEF Behind, IncludedEntry
  <2> QED BY <2>1, <2>2 DEF EraseInv, BehindErased, BackupErased, RegionCovered, RestoredErased,
                            EraseResult, InBlock
<1>4. CASE Refuse \/ Finalize
  <2>1. pc' = "done"
    BY <1>4 DEF Refuse, Finalize
  <2> QED BY <2>1 DEF EraseInv, BehindErased, BackupErased, RegionCovered, RestoredErased, EraseResult,
                      Walking, Working, InBlock
<1>5. CASE AssumeReference \/ ReadWhole \/ ReadRegion \/ Diagnose \/ StartVerify \/ VerifyRegion
           \/ WriteRegion
  <2>1. UNCHANGED req /\ pc \in {"read", "diagnose", "combine", "verify", "write"}
    BY <1>5 DEF AssumeReference, ReadWhole, ReadRegion, Diagnose, StartVerify, VerifyRegion, WriteRegion
  <2> QED BY <2>1 DEF Basics, PhaseInv
<1>6. CASE NextRegion \/ SelectLeaves \/ Promote \/ NextBlock \/ EraseBlock \/ CheckErased \/ RestoreBlock
  <2>1. UNCHANGED req
    BY <1>6 DEF NextRegion, SelectLeaves, Promote, NextBlock, EraseBlock, CheckErased, RestoreBlock
  <2> QED BY <1>6, <2>1, EraseNextRegion, EraseSelect, EraseNextBlock, EraseEraseBlock,
             EraseCheckErased, EraseRestoreBlock
<1> QED
  BY <1>1, <1>2, <1>3, <1>4, <1>5, <1>6 DEF Next, Step

-----------------------------------------------------------------------------
(* Reading and verifying                                                   *)

LEMMA ReadResultStep == Basics /\ ReadResult /\ [Next]_vars => ReadResult'
<1> SUFFICES ASSUME Basics, ReadResult, [Next]_vars, req'.op = "read", pc' = "finalize"
             PROVE  ReadResult'
  BY DEF ReadResult
<1>1. CASE UNCHANGED vars
  BY <1>1 DEF vars, ReadResult
<1>2. ASSUME NEW r \in Requests, Call(r) PROVE FALSE
  BY <1>2 DEF Call
<1>3. CASE ReadRegion
  <2>0. pc = "read" /\ UNCHANGED <<req, flash>> /\ req.layout \in Seq(Entry) /\ region \in Nat
    BY <1>3, LayoutType DEF ReadRegion, Basics
  <2>1. CASE NextIncluded(req.layout, region) = 0 /\ UNCHANGED cur /\ ret' = 0
    <3>1. ASSUME NEW j \in DOMAIN req.layout, req.layout[j].included PROVE j <= region
      BY <2>0, <2>1, <3>1, NextIncludedSkipsNone
    <3>2. \A a \in IncludedCells(req.layout) : cur[a] = flash[a]
      BY <2>0, <3>1 DEF IncludedCells, Basics, ReadInv, IncludedEntry
    <3> QED BY <2>0, <2>1, <3>2 DEF ReadResult
  <2>2. CASE ret' = 1
    BY <2>2 DEF ReadResult
  <2> QED BY <1>3, <2>0, <2>1, <2>2 DEF ReadRegion, Return
<1>4. CASE Refuse \/ Prepare \/ Finalize \/ AssumeReference
  BY <1>4 DEF Refuse, Prepare, Finalize, AssumeReference
<1>5. CASE ReadWhole \/ NextRegion \/ SelectLeaves \/ Promote \/ Changing \/ Diagnose \/ StartVerify
           \/ VerifyRegion
  <2>1. /\ UNCHANGED req
        /\ pc = "read" => req.op = "write"
        /\ pc \in Walking \cup {"read", "diagnose", "combine", "verify"}
    BY <1>5 DEF ReadWhole, NextRegion, SelectLeaves, Promote, Changing, NextBlock, EraseBlock, CheckErased,
                RestoreBlock, WriteRegion, Diagnose, StartVerify, VerifyRegion, Walking, Working
  <2> QED BY <2>1 DEF Basics, PhaseInv
<1> QED
  BY <1>1, <1>2, <1>3, <1>4, <1>5 DEF Next, Step, Changing

LEMMA VerifyRegionVerifies ==
  ASSUME Basics, VerifyInv, VerifyRegion
  PROVE  VerifyInv'
<1> DEFINE n == NextIncluded(VerifyLayout, region)
           range == RangeOf(VerifyLayout[n])
<1>0. /\ pc = "verify" /\ UNCHANGED <<req, flash, old, new, before>>
      /\ VerifyLayout \in Seq(Entry) /\ VerifyLayout' = VerifyLayout /\ region \in Nat
      /\ VerifiedSoFar /\ WriteVerified
      /\ req.op = "verify" => new = req.image /\ VerifyLayout = req.layout
  BY LayoutType DEF Basics, VerifyRegion, VerifyLayout, VerifyInv, PhaseInv
<1>1. WriteVerified'
  BY <1>0 DEF WriteVerified, TrueRef
<1>2. CASE n = 0 /\ Return(0)
  <2>1. ASSUME NEW j \in DOMAIN VerifyLayout, VerifyLayout[j].included PROVE j <= region
    BY <1>0, <1>2, <2>1, NextIncludedSkipsNone
  <2>2. req.op = "verify" => \A a \in IncludedCells(req.layout) : flash[a] = req.image[a]
    BY <1>0, <2>1 DEF IncludedCells, VerifiedSoFar
  <2> QED BY <1>0, <1>1, <1>2, <2>2 DEF Return, VerifyInv, VerifiedSoFar, VerifyResult
<1>3. CASE n # 0 /\ (\A a \in range : flash[a] = new[a]) /\ region' = n /\ UNCHANGED pc
  <2>1. ASSUME NEW j \in DOMAIN VerifyLayout, NEW a \in Addr,
               VerifyLayout[j].included, j <= n, a \in RangeOf(VerifyLayout[j])
        PROVE  flash[a] = new[a]
    <3>1. n \in Nat /\ j \in Nat /\ (j > region => n <= j)
      BY <1>0, <1>3, <2>1, NextIncludedSkipsNone, NextIncludedIsIncluded
    <3>2. j <= region \/ j = n
      BY <1>0, <2>1, <3>1
    <3> QED BY <1>0, <1>3, <2>1, <3>2 DEF VerifiedSoFar
  <2> QED BY <1>0, <1>1, <1>3, <2>1 DEF VerifyInv, VerifiedSoFar, VerifyResult
<1>4. CASE n # 0 /\ ~(\A a \in range : flash[a] = new[a]) /\ Return(3)
  <2>1. n \in DOMAIN VerifyLayout /\ VerifyLayout[n].included
    BY <1>0, <1>4, NextIncludedIsIncluded
  <2>2. PICK a \in range : flash[a] # new[a]
    BY <1>4
  <2>3. req.op = "verify" => a \in IncludedCells(req.layout)
    <3> SUFFICES ASSUME req.op = "verify" PROVE a \in IncludedCells(req.layout)
      OBVIOUS
    <3>1. SaneEntry(req.layout[n], req.op = "write") /\ req.layout[n] \in Entry
      <4>1. SaneLayout(req.layout, req.op = "write")
        BY <1>0 DEF Basics, PhaseInv
      <4> HIDE DEF n
      <4> QED BY <1>0, <2>1, <4>1 DEF SaneLayout
    <3> HIDE DEF n
    <3>2. a \in Addr
      BY <1>0, <2>1, <2>2, <3>1, ChipAssumption DEF SaneEntry, Entry, RangeOf, Addr
    <3> QED BY <1>0, <2>1, <2>2, <3>2 DEF IncludedCells
  <2> QED BY <1>0, <1>1, <1>4, <2>2, <2>3 DEF Return, VerifyInv, VerifiedSoFar, VerifyResult
<1>5. CASE Return(1)
  BY <1>1, <1>5 DEF Return, VerifyInv, VerifiedSoFar, VerifyResult
<1> QED BY <1>2, <1>3, <1>4, <1>5 DEF VerifyRegion

LEMMA VerifyInit == Init => VerifyInv
  BY DEF Init, VerifyInv, VerifiedSoFar, WriteVerified, VerifyResult

LEMMA VerifyStep == Basics /\ VerifyInv /\ [Next]_vars => VerifyInv'
<1> SUFFICES ASSUME Basics, VerifyInv, [Next]_vars PROVE VerifyInv'
  OBVIOUS
<1>1. CASE UNCHANGED vars
  BY <1>1 DEF vars, VerifyInv, VerifiedSoFar, WriteVerified, VerifyResult, VerifyLayout, TrueRef
<1>2. CASE pc' \notin {"verify", "finalize"}
  BY <1>2 DEF VerifyInv, VerifiedSoFar, WriteVerified, VerifyResult
<1>3. CASE Prepare
  <2>1. /\ UNCHANGED req /\ region' = 0
        /\ pc' \in {"walk", "read", "verify"} /\ (pc' = "verify" => req.op = "verify")
        /\ VerifyLayout' \in Seq(Entry)
    BY <1>3, LayoutType DEF Prepare, Basics, PhaseInv, VerifyLayout
  <2> QED BY <2>1 DEF VerifyInv, VerifiedSoFar, WriteVerified, VerifyResult
<1>4. CASE StartVerify
  <2>1. /\ pc = "combine" /\ UNCHANGED <<req, old, before>> /\ req.op = "write" /\ new = req.image
        /\ VerifyLayout' \in Seq(Entry)
        /\ req.verifyAll /\ TrueRef => old = before.flash
    BY <1>4, LayoutType DEF StartVerify, Basics, PhaseInv, ReadInv, VerifyLayout
  <2>2. pc' = "verify" => /\ req.verify /\ region' = 0
                          /\ new' = IF req.verifyAll THEN Copied(old, IncludedCells(req.layout), req.image)
                                                     ELSE req.image
    BY <1>4, <2>1 DEF StartVerify, Return, Combined
  <2>3. VerifiedSoFar'
    BY <2>1, <2>2 DEF VerifiedSoFar
  <2>4. WriteVerified'
    BY <2>1, <2>2 DEF WriteVerified, TrueRef
  <2> QED BY <2>1, <2>3, <2>4 DEF VerifyInv, VerifyResult
<1>5. CASE VerifyRegion
  BY <1>5, VerifyRegionVerifies
<1>6. CASE ReadWhole \/ ReadRegion \/ NextRegion \/ SelectLeaves \/ Promote \/ Changing \/ Diagnose
  <2>1. UNCHANGED req /\ req.op # "verify" /\ pc' # "verify"
    BY <1>6 DEF ReadWhole, ReadRegion, NextRegion, SelectLeaves, Promote, Changing, NextBlock, EraseBlock,
                CheckErased, RestoreBlock, WriteRegion, WriteRun, Diagnose, Return, WalkFails, BlockDone,
                Basics, PhaseInv, Walking, Working
  <2> QED BY <2>1 DEF VerifyInv, VerifiedSoFar, WriteVerified, VerifyResult
<1>7. CASE Refuse \/ Finalize \/ AssumeReference \/ \E r \in Requests : Call(r)
  <2>1. pc' \notin {"verify", "finalize"}
    BY <1>7 DEF Refuse, Finalize, AssumeReference, Call
  <2> QED BY <1>2, <2>1
<1> QED
  BY <1>1, <1>3, <1>4, <1>5, <1>6, <1>7 DEF Next, Step, Changing

-----------------------------------------------------------------------------
(* Writing, as far as it can be relied upon                                *)

\* A write that fails is told
LEMMA SkipFails ==
  ASSUME WalkFails, req.op = "write", UNCHANGED req
  PROVE  SkipInv'
  BY DEF WalkFails, SkipInv, SkippedTrue, SkippedPos, WriteResult, Explicit, Walking, Working

LEMMA SkipNextRegion ==
  ASSUME Basics, SkipInv, req.op = "write", NextRegion
  PROVE  SkipInv'
<1> DEFINE n == NextIncluded(req.layout, region)
<1>0. /\ pc = "walk" /\ UNCHANGED <<flash, req, cur, new, before>> /\ ~Explicit
      /\ skipped' = (region = 0 \/ skipped) /\ region \in Nat /\ SkippedTrue
  BY LayoutType DEF Basics, NextRegion, Explicit, SkipInv
<1>1. CASE \/ n = 0 /\ UNCHANGED region /\ pc' = "combine"
           \/ /\ n # 0 /\ region' = n /\ pos' = req.layout[n].start
              /\ pc' = (IF DoErase THEN "select" ELSE "write")
  <2>1. \A a \in Addr : Behind(a)' => Behind(a) /\ region # 0
    BY <1>0, <1>1, BehindNext DEF Working
  <2>2. CASE region = 0
    <3>1. flash = before.flash /\ (TrueRef => \A a \in IncludedCells(req.layout) : cur[a] = flash[a])
      BY <1>0, <2>2 DEF Basics, ReadInv
    <3> QED BY <1>0, <1>1, <2>1, <2>2, <3>1
            DEF SkipInv, SkippedTrue, SkippedPos, WriteResult, TrueRef, Region
  <2>3. CASE region # 0
    BY <1>0, <1>1, <2>1, <2>3 DEF SkipInv, SkippedTrue, SkippedPos, WriteResult, TrueRef, Region, Walking, Working
  <2> QED BY <2>2, <2>3
<1>2. CASE WalkFails
  BY <1>0, <1>2, SkipFails
<1> QED BY <1>0, <1>1, <1>2 DEF NextRegion

\* Looking at what to erase, and at what was erased
LEMMA SkipErasing ==
  ASSUME Basics, SkipInv, req.op = "write",
         SelectLeaves \/ Promote \/ NextBlock \/ EraseBlock \/ CheckErased \/ RestoreBlock
  PROVE  SkipInv'
<1>0. /\ pc \in Erasing /\ UNCHANGED <<req, region, new, before>> /\ ~Explicit
      /\ req.layout \in Seq(Entry) /\ region # 0 /\ SkippedTrue /\ SkippedPos
      /\ skipped \in BOOLEAN /\ Region' = Region
  <2>1. pc \in Erasing /\ UNCHANGED <<req, region, new, before>>
    BY DEF SelectLeaves, Promote, NextBlock, EraseBlock, CheckErased, RestoreBlock, Erasing
  <2>2. region \in DOMAIN req.layout /\ req.layout \in Seq(Entry) /\ skipped \in BOOLEAN
    BY <2>1, LayoutType DEF Basics, TypeInv, TypeOK, RegionOK, Erasing, Working
  <2> QED BY <2>1, <2>2 DEF Explicit, SkipInv, Region
<1>1. \/ /\ UNCHANGED <<flash, cur, skipped>>
         /\ pc' \in {"select", "erase", "erasefn"} \/ (pc' = "write" /\ pos' = Region.start)
      \/ skipped' = FALSE /\ pc' \in Erasing
      \/ WalkFails
  <2>1. CASE SelectLeaves \/ Promote
    BY <2>1 DEF SelectLeaves, Promote
  <2>2. CASE NextBlock
    BY <1>0, <2>2 DEF NextBlock
  <2>3. CASE EraseBlock
    BY <2>3 DEF EraseBlock, Erasing
  <2>4. CASE CheckErased
    <3>1. skipped' = FALSE
      BY <1>0, <2>4 DEF CheckErased, SkippedPos
    <3> QED BY <2>4, <3>1 DEF CheckErased, BlockDone, Erasing
  <2>5. CASE RestoreBlock
    <3>1. skipped' = FALSE
      BY <1>0, <2>5 DEF RestoreBlock, SkippedPos
    <3> QED BY <2>5, <3>1 DEF RestoreBlock, WriteRun, BlockDone, Erasing
  <2> QED BY <2>1, <2>2, <2>3, <2>4, <2>5
<1>2. CASE /\ UNCHANGED <<flash, cur, skipped>>
           /\ pc' \in {"select", "erase", "erasefn"} \/ (pc' = "write" /\ pos' = Region.start)
  <2>1. pc \in Working /\ pc' \in Working
    BY <1>0, <1>2 DEF Erasing, Working
  <2>2. \A a \in Addr : Behind(a)' = Behind(a)
    BY <1>0, <2>1, BehindSame
  <2> QED BY <1>0, <1>2, <2>1, <2>2 DEF SkipInv, SkippedTrue, SkippedPos, WriteResult, TrueRef, Walking
<1>3. CASE skipped' = FALSE /\ pc' \in Erasing
  BY <1>3 DEF SkipInv, SkippedTrue, SkippedPos, WriteResult, Erasing
<1>4. CASE WalkFails
  BY <1>0, <1>4, SkipFails
<1> QED BY <1>1, <1>2, <1>3, <1>4

\* A region is skipped when the mirror holds the image already
LEMMA SkipWriteRegion ==
  ASSUME Basics, SkipInv, req.op = "write", WriteRegion
  PROVE  SkipInv'
<1>0. /\ pc = "write" /\ UNCHANGED <<req, region, cur, new, before>> /\ ~Explicit
      /\ req.layout \in Seq(Entry) /\ region \in DOMAIN req.layout /\ Region.included /\ region # 0
      /\ SkippedTrue /\ SkippedPos /\ Region' = Region
  <2>1. pc = "write" /\ UNCHANGED <<req, region, cur, new, before>>
    BY DEF WriteRegion
  <2>2. region \in DOMAIN req.layout /\ req.layout \in Seq(Entry) /\ Region.included
    BY <2>1, LayoutType DEF Basics, TypeInv, RegionOK, Working
  <2> QED BY <2>1, <2>2 DEF Explicit, SkipInv, Region
<1>1. CASE skipped' = FALSE /\ UNCHANGED pc
  BY <1>0, <1>1 DEF SkipInv, SkippedTrue, SkippedPos, WriteResult
<1>2. CASE WalkFails
  BY <1>0, <1>2, SkipFails
<1>3. CASE /\ NextWrite(cur, new, pos, Region.end) = {} /\ pc' = "walk"
           /\ UNCHANGED <<flash, skipped>>
  <2>1. /\ Region.start \in Nat /\ Region.end \in Nat /\ Region.start <= Region.end
        /\ Aligned(Region.start) /\ Aligned(Region.end + 1)
    <3>1. Region.start \in Nat /\ Region.end \in Nat /\ SaneLayout(req.layout, TRUE)
      BY <1>0, RegionType DEF Basics, PhaseInv, Working
    <3> QED BY <1>0, <3>1 DEF SaneLayout, SaneEntry, Region, Aligned
  <2>2. skipped => \A a \in RangeOf(Region) : cur[a] = new[a]
    <3>1. Region.start <= Region.end + 1
      BY <2>1
    <3> QED BY <1>0, <1>3, <2>1, <3>1, NothingToWrite DEF SkippedPos, RangeOf
  <2>3. \A a \in Addr : Behind(a)' => Behind(a) \/ a \in RangeOf(Region)
    BY <1>0, <1>3, BehindEnd DEF Basics, Working
  <2> QED BY <1>0, <1>3, <2>2, <2>3 DEF SkipInv, SkippedTrue, SkippedPos, WriteResult, TrueRef, Walking, Working
<1> QED BY <1>1, <1>2, <1>3 DEF WriteRegion, WriteRun

\* Either a write changed nothing because all of the image was there, or it is verified
LEMMA SkipStartVerify ==
  ASSUME Basics, SkipInv, req.op = "write", StartVerify
  PROVE  SkipInv'
<1>0. /\ pc = "combine" /\ UNCHANGED <<req, flash, cur, before, skipped>> /\ new = req.image /\ SkippedTrue
  BY DEF StartVerify, Basics, PhaseInv, SkipInv
<1>1. CASE pc' = "verify"
  BY <1>1 DEF SkipInv, SkippedTrue, SkippedPos, WriteResult, Walking, Working
<1>2. CASE ~(req.verify /\ ~skipped) /\ Return(0)
  <2>1. req.verify /\ (TrueRef \/ flash # before.flash) =>
          /\ \A a \in IncludedCells(req.layout) : flash[a] = req.image[a]
          /\ flash = before.flash
    <3> SUFFICES ASSUME req.verify, TrueRef \/ flash # before.flash
                 PROVE  /\ \A a \in IncludedCells(req.layout) : flash[a] = req.image[a]
                        /\ flash = before.flash
      OBVIOUS
    <3>1. flash = before.flash /\ TrueRef
      BY <1>0, <1>2 DEF SkippedTrue
    <3>2. /\ \A a \in IncludedCells(req.layout) : cur[a] = flash[a]
          /\ \A a \in Addr : Behind(a) => cur[a] = new[a]
      BY <1>0, <1>2, <3>1 DEF SkippedTrue
    <3>3. \A a \in IncludedCells(req.layout) : a \in Addr /\ Behind(a)
      BY <1>0, AllBehind DEF Working
    <3> QED BY <1>0, <3>1, <3>2, <3>3
  <2> QED BY <1>0, <1>2, <2>1 DEF Return, SkipInv, SkippedTrue, SkippedPos, WriteResult, TrueRef,
                                Walking, Working
<1> QED BY <1>1, <1>2 DEF StartVerify

LEMMA SkipVerifyRegion ==
  ASSUME Basics, VerifyInv, SkipInv, req.op = "write", VerifyRegion
  PROVE  SkipInv'
<1> DEFINE n == NextIncluded(VerifyLayout, region)
<1>0. /\ pc = "verify" /\ UNCHANGED <<req, flash, old, new, before>> /\ req.verifyAll \in BOOLEAN
      /\ VerifyLayout \in Seq(Entry) /\ region \in Nat /\ VerifiedSoFar /\ WriteVerified
  BY LayoutType DEF Basics, VerifyRegion, VerifyInv, Request
<1>1. CASE n = 0 /\ Return(0)
  <2>1. ASSUME NEW j \in DOMAIN VerifyLayout, VerifyLayout[j].included PROVE j <= region
    BY <1>0, <1>1, <2>1, NextIncludedSkipsNone
  <2>2. CASE req.verifyAll
    <3>1. VerifyLayout = DefaultLayout
      BY <2>2 DEF VerifyLayout
    <3>2. 1 \in DOMAIN VerifyLayout /\ VerifyLayout[1].included /\ RangeOf(VerifyLayout[1]) = Addr
      BY <3>1 DEF DefaultLayout, RangeOf, Addr
    <3>3. \A a \in Addr : flash[a] = new[a]
      BY <1>0, <2>1, <3>2 DEF VerifiedSoFar
    <3>4. \A a \in Addr : new[a] = IF a \in IncludedCells(req.layout) THEN req.image[a] ELSE old[a]
      BY <1>0, <2>2 DEF WriteVerified, Copied
    <3>5. TrueRef => old = before.flash
      BY <1>0, <2>2 DEF WriteVerified
    <3>6. IncludedCells(req.layout) \subseteq Addr
      BY DEF IncludedCells
    <3> QED BY <1>0, <1>1, <3>3, <3>4, <3>5, <3>6
            DEF Return, SkipInv, SkippedTrue, SkippedPos, WriteResult, TrueRef, Walking, Working
  <2>3. CASE ~req.verifyAll
    <3>1. VerifyLayout = req.layout /\ new = req.image
      BY <1>0, <2>3 DEF VerifyLayout, WriteVerified
    <3>2. \A a \in IncludedCells(req.layout) : flash[a] = req.image[a]
      BY <1>0, <2>1, <3>1 DEF VerifiedSoFar, IncludedCells
    <3> QED BY <1>0, <1>1, <2>3, <3>2
            DEF Return, SkipInv, SkippedTrue, SkippedPos, WriteResult, TrueRef, Walking, Working
  <2> QED BY <2>2, <2>3
<1>2. CASE UNCHANGED pc
  BY <1>0, <1>2 DEF SkipInv, SkippedTrue, SkippedPos, WriteResult, Walking, Working
<1>3. CASE Return(3) \/ Return(1)
  BY <1>3 DEF Return, SkipInv, SkippedTrue, SkippedPos, WriteResult, Walking, Working
<1> QED BY <1>1, <1>2, <1>3 DEF VerifyRegion

LEMMA SkipInit == Init => SkipInv
  BY DEF Init, SkipInv

LEMMA SkipStep == Basics /\ VerifyInv /\ SkipInv /\ [Next]_vars => SkipInv'
<1> SUFFICES ASSUME Basics, VerifyInv, SkipInv, [Next]_vars, req'.op = "write" PROVE SkipInv'
  BY DEF SkipInv
<1>1. CASE UNCHANGED vars
  BY <1>1 DEF vars, SkipInv, SkippedTrue, SkippedPos, WriteResult, TrueRef, Behind, IncludedEntry, Region
<1>2. CASE pc' \in {"prepare", "done", "read"}
  BY <1>2 DEF SkipInv, SkippedTrue, SkippedPos, WriteResult, Walking, Working
<1>3. CASE Refuse \/ Prepare \/ Finalize \/ \E r \in Requests : Call(r)
  BY <1>2, <1>3 DEF Refuse, Prepare, Finalize, Call
<1>4. CASE AssumeReference \/ ReadWhole \/ ReadRegion
  <2>1. \/ pc' = "walk" /\ region' = 0
        \/ pc' = "read"
        \/ pc' = "finalize" /\ ret' = 1
    BY <1>4 DEF AssumeReference, ReadWhole, ReadRegion, Return, Basics, PhaseInv
  <2> QED BY <1>2, <2>1 DEF SkipInv, SkippedTrue, SkippedPos, WriteResult, Walking, Working
<1>5. CASE Diagnose
  <2>1. pc' = "finalize" /\ ret' = 2
    BY <1>5 DEF Diagnose, Basics, ReadInv
  <2> QED BY <2>1 DEF SkipInv, SkippedTrue, SkippedPos, WriteResult, Walking, Working
<1>6. CASE NextRegion \/ SelectLeaves \/ Promote \/ Changing \/ StartVerify \/ VerifyRegion
  <2>1. UNCHANGED req
    BY <1>6 DEF NextRegion, SelectLeaves, Promote, Changing, NextBlock, EraseBlock, CheckErased,
                RestoreBlock, WriteRegion, StartVerify, VerifyRegion
  <2> QED BY <1>6, <2>1, SkipNextRegion, SkipErasing, SkipWriteRegion, SkipStartVerify, SkipVerifyRegion
          DEF Changing
<1> QED
  BY <1>1, <1>3, <1>4, <1>5, <1>6 DEF Next, Step, Changing

-----------------------------------------------------------------------------
(* The refinement                                                          *)

ImageInv == Basics /\ EraseInv /\ ReadResult /\ VerifyInv /\ SkipInv

LEMMA ImageInvInit == Init => ImageInv
<1>1. Init => ReadResult
  BY DEF Init, ReadResult
<1> QED BY <1>1, InitType, SelInit, TouchInit, PhaseInit, ReadInit, EraseInit, VerifyInit, SkipInit
        DEF ImageInv, Basics

LEMMA ImageInvStep == ImageInv /\ [Next]_vars => ImageInv'
<1>1. Basics /\ [Next]_vars => Basics'
  BY StepType, SelStep, TouchStep, PhaseStep, ReadStep DEF Basics
<1> QED BY <1>1, EraseStep, ReadResultStep, VerifyStep, SkipStep DEF ImageInv

LEMMA ImageRequestType ==
  ASSUME NEW r \in Request
  PROVE  ImageRequest(r) \in Image!Request
<1>1. IncludedCells(r.layout) \subseteq Addr
  BY DEF IncludedCells
<1> QED BY <1>1 DEF ImageRequest, Image!Request, Image!Buffer, Request, Ops, Buffer

\* A call that is about to return, or is turned down, keeps what FlashImage promises
LEMMA FinishImplements ==
  ASSUME ImageInv, Refuse \/ Finalize
  PROVE  Image!Finish
<1>0. /\ pc \in {"prepare", "finalize"} /\ pc' = "done" /\ UNCHANGED <<flash, req, cur, before>>
      /\ cur \in Buffer /\ req.op \in Ops
  BY LayoutType DEF ImageInv, Basics, Refuse, Finalize
<1>1. CASE Refuse
  <2>1. ret' = 1
    BY <1>1 DEF Refuse
  <2>2. Image!EraseReturns(ret') /\ Image!ReadReturns(ret') /\ Image!VerifyReturns(ret')
    BY <2>1 DEF Image!EraseReturns, Image!ReadReturns, Image!VerifyReturns
  <2>3. Image!WriteReturns(ret')
    BY <2>1 DEF Image!WriteReturns
  <2>4. ImageRequest(req).op \in Ops /\ UNCHANGED ImageRequest(req)
    BY <1>0 DEF ImageRequest
  <2> QED BY <1>0, <2>2, <2>3, <2>4 DEF Image!Finish, Image!Buffer, Buffer, Ops
<1>2. CASE Finalize
  <2>0. pc = "finalize" /\ ret' = ret
    BY <1>2 DEF Finalize
  <2>1. CASE req.op = "erase"
    <3>1. ret \in {0, 1} /\ (ret = 0 => \A a \in IncludedCells(req.layout) : flash[a] = ERASED)
      BY <2>0, <2>1 DEF ImageInv, EraseInv, EraseResult
    <3>2. IncludedCells(req.layout) \subseteq Addr
      BY DEF IncludedCells
    <3>3. Image!EraseReturns(ret')
      BY <2>0, <3>1, <3>2 DEF Image!EraseReturns, Image!Holds, ImageRequest
    <3> QED BY <1>0, <2>1, <3>3 DEF Image!Finish, ImageRequest, Image!Buffer, Buffer
  <2>2. CASE req.op = "read"
    <3>1. ret \in {0, 1} /\ (ret = 0 => \A a \in IncludedCells(req.layout) : cur[a] = flash[a])
      BY <2>0, <2>2 DEF ImageInv, ReadResult
    <3>2. Image!ReadReturns(ret')
      BY <1>0, <2>0, <3>1 DEF Image!ReadReturns, Image!Holds, ImageRequest
    <3> QED BY <1>0, <2>2, <3>2 DEF Image!Finish, ImageRequest, Image!Buffer, Buffer
  <2>3. CASE req.op = "verify"
    <3>1. /\ ret \in {0, 1, 3}
          /\ ret = 0 => \A a \in IncludedCells(req.layout) : flash[a] = req.image[a]
          /\ ret = 3 => \E a \in IncludedCells(req.layout) : flash[a] # req.image[a]
      BY <2>0, <2>3 DEF ImageInv, VerifyInv, VerifyResult
    <3>2. Image!VerifyReturns(ret')
      BY <2>0, <3>1 DEF Image!VerifyReturns, Image!Holds, ImageRequest
    <3> QED BY <1>0, <2>3, <3>2 DEF Image!Finish, ImageRequest, Image!Buffer, Buffer
  <2>4. CASE req.op = "write"
    <3>1. WriteResult
      BY <2>4 DEF ImageInv, SkipInv
    <3>2. Image!TrueRef <=> TrueRef
      BY DEF Image!TrueRef, TrueRef, ImageRequest
    <3>3. Image!WriteReturns(ret')
      BY <2>0, <3>1, <3>2 DEF WriteResult, Image!WriteReturns, Image!Holds, ImageRequest
    <3> QED BY <1>0, <2>4, <3>3 DEF Image!Finish, ImageRequest, Image!Buffer, Buffer
  <2> QED BY <1>0, <2>1, <2>2, <2>3, <2>4 DEF Ops
<1> QED BY <1>1, <1>2

\* Every other step of an operation works on the chip, or on what is kept of it
LEMMA WorkImplements ==
  ASSUME ImageInv, TypeInv', Step, ~Refuse, ~Finalize
  PROVE  Image!Work
<1>1. /\ pc \notin {"idle", "done"} /\ pc' \notin {"idle", "done"} /\ UNCHANGED <<req, before>>
      /\ ret' \in {ret} \cup 0 .. 3
  <2>1. CASE Prepare \/ AssumeReference \/ ReadWhole \/ ReadRegion \/ NextRegion \/ SelectLeaves \/ Promote
    BY <2>1 DEF Prepare, Unlock, AssumeReference, ReadWhole, ReadRegion, NextRegion, SelectLeaves, Promote,
                Return, WalkFails
  <2>a. WalkFails => pc' \in {"diagnose", "finalize"} /\ ret' \in 0 .. 3
    BY DEF WalkFails
  <2>b. CASE NextBlock
    BY <2>a, <2>b DEF NextBlock
  <2>2. CASE EraseBlock \/ CheckErased
    BY <2>a, <2>2 DEF EraseBlock, CheckErased, BlockDone
  <2>3. CASE RestoreBlock \/ WriteRegion
    BY <2>a, <2>3 DEF RestoreBlock, WriteRegion, WriteRun, BlockDone
  <2>4. CASE Diagnose \/ StartVerify \/ VerifyRegion
    BY <2>4 DEF Diagnose, StartVerify, VerifyRegion, Return
  <2> QED BY <2>1, <2>b, <2>2, <2>3, <2>4 DEF Step
<1>2. flash' \in Buffer /\ cur' \in Buffer
  BY DEF TypeInv, TypeOK
<1>3. \A a \in Addr : flash'[a] # flash[a] => req.op \in {"erase", "write"} /\ a \in Addr \cap Reach
  BY ChangesWithinReach DEF ImageInv
<1>4. UNCHANGED ImageRequest(req)
  BY <1>1
<1>5. ImageRequest(req).op = req.op /\ ImageRequest(req).near = Addr \cap Reach
  BY DEF ImageRequest, Reach
<1> QED BY <1>1, <1>2, <1>3, <1>4, <1>5 DEF Image!Work, Image!Buffer, Buffer

LEMMA CallImplements ==
  ASSUME TypeInv', NEW r \in Requests, Call(r)
  PROVE  \E q \in {ImageRequest(s) : s \in Requests} : Image!Begin(q)
<1>1. cur' \in Buffer
  BY DEF TypeInv, TypeOK
<1>2. ImageRequest(r).fits = r.fits /\ ImageRequest(r).op = r.op
  BY DEF ImageRequest
<1>3. /\ pc \in {"idle", "done"} /\ req' = r /\ before'.flash = flash /\ UNCHANGED flash
      /\ IF r.fits \/ r.op = "erase"
           THEN pc' = "prepare" /\ UNCHANGED ret
           ELSE pc' = "done" /\ ret' = (IF r.op = "write" THEN 4 ELSE 2)
  BY DEF Call
<1>4. Image!Begin(ImageRequest(r))
  BY <1>1, <1>2, <1>3 DEF Image!Begin, Image!Buffer, Buffer
<1> QED BY <1>4

\* However an operation goes, and whatever fails in it, a program that calls it sees no more
\* than FlashImage: the chip changes near what was asked for and nowhere else, reading and
\* verifying change nothing, and return values are true
THEOREM OperationsImplementImage == Spec => ImplementsImage
<1>1. Init => Image!Init
  <2> SUFFICES ASSUME Init PROVE Image!Init
    OBVIOUS
  <2>1. req \in Request /\ flash \in Buffer /\ cur \in Buffer
    BY InitType, LayoutType
  <2>2. ImageRequest(req) \in Image!Request /\ ImageRequest(req).op = "read"
    BY <2>1, ImageRequestType DEF Init, ImageRequest
  <2> QED BY <2>1, <2>2 DEF Init, Image!Init, Image!Buffer, Buffer
<1>2. ImageInv /\ ImageInv' /\ [Next]_vars => [Image!Next]_(Image!vars)
  <2> SUFFICES ASSUME ImageInv, ImageInv', [Next]_vars PROVE [Image!Next]_(Image!vars)
    OBVIOUS
  <2>0. TypeInv'
    BY DEF ImageInv, Basics
  <2>1. CASE UNCHANGED vars
    BY <2>1 DEF vars, Image!vars, ImageRequest
  <2>2. ASSUME NEW r \in Requests, Call(r) PROVE Image!Next
    BY <2>0, <2>2, CallImplements DEF Image!Next
  <2>3. CASE Refuse \/ Finalize
    BY <2>3, FinishImplements DEF Image!Next
  <2>4. CASE Step /\ ~Refuse /\ ~Finalize
    BY <2>0, <2>4, WorkImplements DEF Image!Next
  <2> QED BY <2>1, <2>2, <2>3, <2>4 DEF Next
<1> QED
  BY <1>1, <1>2, ImageInvInit, ImageInvStep, PTL DEF Spec, ImplementsImage, Image!Spec

=============================================================================
