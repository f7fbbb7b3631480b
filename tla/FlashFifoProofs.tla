--------------------------- MODULE FlashFifoProofs ---------------------------
(***************************************************************************)
(* Theorems about FlashFifo, for every geometry and every set of call      *)
(* lengths.  TypeCorrect and AlwaysOneErased hold whatever fails; the      *)
(* later theorems name what they ask of flash and callers: CrashOnly,      *)
(* WellUsed, AlignedReads.                                                 *)
(***************************************************************************)
EXTENDS FlashFifo, SequenceTheorems, FiniteSetTheorems, WellFoundedInduction, TLAPS

-----------------------------------------------------------------------------
(* Rings of N slots addressed modulo N, and least elements.                *)

(* Every nonempty set of naturals has a least element.                     *)
LEMMA NatMin ==
  ASSUME NEW T \in SUBSET Nat, T # {}
  PROVE  \E x \in T : \A y \in T : x <= y
<1> DEFINE R == {ss \in Nat \X Nat : ss[1] < ss[2]}
<1>1. IsWellFoundedOn(R, Nat)
  BY NatLessThanWellFounded DEF OpToRel
<1> HIDE DEF R
<1>2. PICK x \in T : \A y \in T : ~(<<y, x>> \in R)
  BY <1>1, WFMin, Zenon
<1>3. ASSUME NEW y \in T PROVE x <= y
  <2>1. <<y, x>> \in Nat \X Nat /\ <<y, x>>[1] = y /\ <<y, x>>[2] = x
    OBVIOUS
  <2>2. y < x => <<y, x>> \in R
    BY <2>1 DEF R
  <2> QED BY <2>2, <1>2
<1> QED BY <1>3

(* Euclidean division of an integer by the ring size.                      *)
LEMMA DivMod ==
  ASSUME NEW N \in Nat \ {0}, NEW a \in Int
  PROVE  /\ a = N * (a \div N) + (a % N)
         /\ a \div N \in Int
         /\ a % N \in 0 .. N - 1
  OBVIOUS

(* A multiple of N other than 0 is at least N away from 0.                 *)
LEMMA Multiples ==
  ASSUME NEW N \in Nat \ {0}, NEW k \in Int
  PROVE  /\ N * k \in Int
         /\ k >= 1 => N * k >= N
         /\ k <= -1 => N * k <= -N
  OBVIOUS

(* Two positions less than N apart that share a slot are the same.         *)
LEMMA ModInjective ==
  ASSUME NEW N \in Nat \ {0}, NEW i \in Int, NEW j \in Int,
         i % N = j % N, i - j < N, j - i < N
  PROVE  i = j
<1> DEFINE a == i \div N
           b == j \div N
<1>1. a \in Int /\ b \in Int /\ i = N * a + (i % N) /\ j = N * b + (j % N)
  BY DivMod
<1>2. i - j = N * a - N * b /\ N * a \in Int /\ N * b \in Int
  BY <1>1, Multiples, DivMod
<1>3. N * a - N * b = N * (a - b)
  BY <1>1
<1>4. a - b = 0
  BY <1>1, <1>2, <1>3, Multiples
<1>5. a = b
  BY <1>1, <1>4
<1> QED BY <1>1, <1>5

-----------------------------------------------------------------------------
(* Blk always names a block, and a position and its successor never share  *)
(* one: there are at least two blocks.                                     *)
LEMMA BlkType == \A pos \in Int : Blk(pos) \in BlockIds
  BY GeometryAssumption DEF Blk, BlockIds

LEMMA BlkSucc == \A pos \in Int : Blk(pos + 1) # Blk(pos)
<1> SUFFICES ASSUME NEW pos \in Int, Blk(pos + 1) = Blk(pos) PROVE FALSE
  OBVIOUS
<1>1. Blocks \in Nat \ {0} /\ 1 < Blocks
  BY GeometryAssumption
<1>2. (pos + 1) % Blocks = pos % Blocks
  BY DEF Blk
<1>3. pos + 1 \in Int /\ (pos + 1) - pos < Blocks /\ pos - (pos + 1) < Blocks
  BY <1>1
<1>4. pos + 1 = pos
  BY <1>1, <1>2, <1>3, ModInjective
<1> QED BY <1>4

LEMMA CapType == Cap \in Nat \ {0}
  BY GeometryAssumption DEF Cap

(* offset_to_bitmap counts bits: never a negative number of them.          *)
LEMMA UsageType == \A o \in Nat : offset_to_bitmap(o) \in Nat
  BY GeometryAssumption DEF offset_to_bitmap

LEMMA StampType == ASSUME NEW k \in Int, stamp \in Nat PROVE StampAt(k) \in Nat
  BY ClientAssumption DEF StampAt

(* A flash operation leaves every header a header and every cell a byte.   *)
LEMMA WriteHeaderType ==
  ASSUME TypeOK, NEW pos \in Int, NEW m \in Magics, NEW bits \in Nat, NEW ok,
         write_header(pos, m, bits, ok)
  PROVE  magic' \in [BlockIds -> Magics] /\ bitmap' \in [BlockIds -> Nat]
  BY BlkType DEF write_header, TypeOK, Smaller, Larger, Magics, TAIL, ERASED

LEMMA EraseType ==
  ASSUME TypeOK, NEW b \in BlockIds, Erase(b)
  PROVE  /\ magic' \in [BlockIds -> Magics] /\ bitmap' \in [BlockIds -> Nat]
         /\ cells' \in [BlockIds -> [Offsets -> Int]]
  BY DEF Erase, TypeOK, Magics, TAIL, ERASED, Blank

(* find_block, when it succeeds, returns a position of the block it sought *)
(* at or after the position it started from.                               *)
LEMMA FindBlock ==
  ASSUME NEW start \in Nat, NEW m, Matches(start, m) # {}
  PROVE  /\ find_block(start, m) \in Nat
         /\ find_block(start, m) >= start
         /\ magic[Blk(find_block(start, m))] = m
<1>1. Matches(start, m) \in SUBSET Nat
  BY GeometryAssumption DEF Matches
<1>2. \E i \in Matches(start, m) : \A j \in Matches(start, m) : i <= j
  BY <1>1, NatMin
<1>3. find_block(start, m) \in Matches(start, m)
  BY <1>2 DEF find_block
<1> QED BY <1>3, <1>1, GeometryAssumption DEF Matches

(* The scan yields positions, and accepts only a volume that has an erased *)
(* block: it starts from one.                                              *)
ScanType == [ret : {"OK", "EMPTY", "FAILED"}, head : Int, last : Nat, tail : Nat]

LEMMA FindHeadType ==
  ASSUME NEW l \in Nat, NEW t \in Nat, NEW broken
  PROVE  FindHead(l, t, broken) \in ScanType
<1>1. Found(5, l, HEAD, broken) => find_block(l, HEAD) \in Nat
  BY FindBlock DEF Found
<1>2. Found(6, l, ERASED, broken) => find_block(l, ERASED) \in Nat
  BY FindBlock DEF Found
<1> QED BY <1>1, <1>2 DEF FindHead, ScanResult, ScanType

LEMMA FindFifo ==
  ASSUME NEW broken
  PROVE  /\ find_fifo(broken) \in ScanType
         /\ find_fifo(broken).ret # "FAILED" => \E b \in BlockIds : magic[b] = ERASED
<1> DEFINE e == find_block(0, ERASED)
           hasTail == Found(2, e, TAIL, broken)
           s == IF hasTail THEN find_block(e, TAIL) ELSE e
           l == FindLast(s, broken)
<1>1. CASE ~Found(1, 0, ERASED, broken)
  BY <1>1 DEF find_fifo, ScanResult, ScanType
<1>2. CASE Found(1, 0, ERASED, broken)
  <2>1. e \in Nat /\ magic[Blk(e)] = ERASED
    BY <1>2, FindBlock DEF Found
  <2>2. \E b \in BlockIds : magic[b] = ERASED
    BY <2>1, BlkType
  <2>3. s \in Nat
    BY <2>1, FindBlock DEF Found
  <2>4. CASE ~Found(3, s, FIFO, broken) /\ ~Found(4, s, HEAD, broken)
    BY <1>2, <2>2, <2>4 DEF find_fifo, ScanResult, ScanType
  <2>5. CASE Found(3, s, FIFO, broken) \/ Found(4, s, HEAD, broken)
    <3>1. l \in Nat
      BY <2>3, <2>5, FindBlock DEF Found, FindLast
    <3>2. find_fifo(broken) = FindHead(l, IF hasTail THEN s ELSE l, broken)
      BY <1>2, <2>5 DEF find_fifo
    <3> HIDE DEF l, s, hasTail
    <3>3. (IF hasTail THEN s ELSE l) \in Nat
      BY <2>3, <3>1
    <3> QED BY <2>2, <3>1, <3>2, <3>3, FindHeadType
  <2> QED BY <2>4, <2>5
<1> QED BY <1>1, <1>2

-----------------------------------------------------------------------------
(* Typing of the ranges of flash_fifo_write and flash_fifo_read            *)

LEMMA PageEndType == \A o \in Nat : PageEnd(o) \in Int
  BY GeometryAssumption, CapType DEF PageEnd

LEMMA RangeType ==
  ASSUME TypeOK
  PROVE  RangeStart \in Nat /\ get_block_write_range \in Int
<1>1. head \in Int /\ off \in Nat /\ bitmap \in [BlockIds -> Nat]
  BY DEF TypeOK
<1>2. bitmap[Blk(head)] \in Nat
  BY <1>1, BlkType
<1>3. bitmap_to_offset(bitmap[Blk(head)]) \in Nat
  BY <1>2, GeometryAssumption DEF bitmap_to_offset
<1>4. RangeStart \in Nat
  BY <1>1, <1>3 DEF RangeStart
<1> QED BY <1>4, PageEndType DEF get_block_write_range

(* What fs_read copies is a string of bytes.                               *)
LEMMA ReadDataType ==
  ASSUME TypeOK, NEW n \in Int
  PROVE  block_read_data(read_offset, n) \in Seq(Int)
<1>1. last \in Int /\ read_offset \in Nat /\ cells \in [BlockIds -> [Offsets -> Int]]
  BY DEF TypeOK
<1>2. cells[Blk(last)] \in [Offsets -> Int]
  BY <1>1, BlkType
<1>3. \A k \in 1 .. n : (IF read_offset + k - 1 \in Offsets
                         THEN cells[Blk(last)][read_offset + k - 1] ELSE Corrupt) \in Int
  BY <1>1, <1>2 DEF Corrupt
<1>4. block_read_data(read_offset, n) \in [1 .. n -> Int]
  BY <1>3 DEF block_read_data
<1>5. Seq(Int) = UNION {[1 .. k -> Int] : k \in Nat}
  BY SeqDef
<1>6. PICK k \in Nat : 1 .. n = 1 .. k
  <2>1. CASE n >= 0
    BY <2>1
  <2>2. CASE n < 0
    <3>1. 1 .. n = 1 .. 0
      BY <2>2
    <3> QED BY <3>1
  <2> QED BY <2>1, <2>2
<1> HIDE DEF block_read_data
<1> QED BY <1>4, <1>5, <1>6, Zenon

(* A header program touches one block; the others keep their magic.        *)
LEMMA WriteHeaderFrame ==
  ASSUME TypeOK, NEW pos \in Int, NEW m, NEW bits, NEW ok,
         write_header(pos, m, bits, ok), NEW b \in BlockIds, b # Blk(pos)
  PROVE  magic'[b] = magic[b]
  BY BlkType DEF write_header, TypeOK

(* Programming a header of a block that is not erased leaves the erased    *)
(* blocks alone.                                                           *)
LEMMA KeepsErased ==
  ASSUME TypeOK, NEW pos \in Int, NEW m, NEW bits, NEW ok,
         write_header(pos, m, bits, ok), magic[Blk(pos)] # ERASED,
         \E b \in BlockIds : magic[b] = ERASED
  PROVE  \E b \in BlockIds : magic'[b] = ERASED
<1>1. PICK b \in BlockIds : magic[b] = ERASED
  OBVIOUS
<1>2. b # Blk(pos)
  BY <1>1
<1>3. magic'[b] = magic[b]
  BY <1>2, WriteHeaderFrame
<1> QED BY <1>1, <1>3

(* prepare_head leaves the successor of the new head erased.               *)
LEMMA PrepareKeepsErased ==
  ASSUME TypeOK, NEW pos \in Int, NEW ok1, NEW ok2, NEW wok,
         prepare_head(pos, ok1, ok2, wok),
         \E b \in BlockIds : magic[b] = ERASED
  PROVE  \E b \in BlockIds : magic'[b] = ERASED
<1>1. CASE HeadAllowed(pos, ok1, ok2)
  <2>1. magic[Blk(pos + 1)] = ERASED
    BY <1>1 DEF HeadAllowed, read_header, TAIL, ERASED
  <2>2. Blk(pos + 1) \in BlockIds /\ Blk(pos + 1) # Blk(pos)
    BY BlkType, BlkSucc
  <2>3. magic'[Blk(pos + 1)] = magic[Blk(pos + 1)]
    BY <1>1, <2>2, WriteHeaderFrame DEF prepare_head
  <2> QED BY <2>1, <2>2, <2>3
<1>2. CASE ~HeadAllowed(pos, ok1, ok2)
  BY <1>2 DEF prepare_head
<1> QED BY <1>1, <1>2

LEMMA PrepareType ==
  ASSUME TypeOK, NEW pos \in Int, NEW ok1, NEW ok2, NEW wok,
         prepare_head(pos, ok1, ok2, wok)
  PROVE  magic' \in [BlockIds -> Magics] /\ bitmap' \in [BlockIds -> Nat]
<1>1. HEAD \in Magics
  BY DEF HEAD, Magics, TAIL, ERASED
<1> QED BY <1>1, WriteHeaderType DEF prepare_head, TypeOK

-----------------------------------------------------------------------------
LEMMA Fields ==
  ASSUME TypeOK
  PROVE  /\ magic \in [BlockIds -> Magics] /\ bitmap \in [BlockIds -> Nat]
         /\ cells \in [BlockIds -> [Offsets -> Int]]
         /\ head \in Int /\ last \in Int /\ tail \in Int
  BY DEF TypeOK

LEMMA TypeInit == Init => TypeOK
<1> SUFFICES ASSUME Init PROVE TypeOK
  OBVIOUS
<1>1. PICK kind \in Images : magic = Image(kind)
  BY DEF Init
<1>2. kind \in {"blank", "dirty", "formatted"}
  BY ClientAssumption
<1>3. magic \in [BlockIds -> Magics]
  <2>1. CASE kind = "blank"
    BY <1>1, <2>1 DEF Image, Magics, TAIL, ERASED
  <2>2. CASE kind = "dirty"
    BY <1>1, <2>2 DEF Image, Magics, TAIL, ERASED
  <2>3. CASE kind = "formatted"
    BY <1>1, <2>3 DEF Image, Magics, TAIL, ERASED, HEAD
  <2> QED BY <1>2, <2>1, <2>2, <2>3
<1>4. 0 \in BlockIds
  BY GeometryAssumption DEF BlockIds
<1> QED BY <1>3, <1>4 DEF Init, TypeOK, Blank, Pcs

LEMMA TypeNext == TypeOK /\ [Next]_vars => TypeOK'
<1> SUFFICES ASSUME TypeOK, [Next]_vars PROVE TypeOK'
  OBVIOUS
<1> USE DEF flashVars, ramVars, callVars, ghostVars
<1>0. /\ magic \in [BlockIds -> Magics] /\ bitmap \in [BlockIds -> Nat]
      /\ cells \in [BlockIds -> [Offsets -> Int]]
      /\ head \in Int /\ last \in Nat /\ tail \in Nat /\ read_offset \in Nat
      /\ rem \in Nat /\ off \in Nat /\ idx \in BlockIds
      /\ stamp \in Nat /\ sawData \in BOOLEAN
      /\ rd \in [end : Int, n : Int, off : Nat, got : Seq(Int), reported : Nat]
  BY DEF TypeOK
<1>b. 0 \in BlockIds /\ \A i \in BlockIds : i \in Int /\ (i + 1) % Blocks \in BlockIds
  BY GeometryAssumption DEF BlockIds
<1>m. HEAD \in Magics /\ FIFO \in Magics /\ TAIL \in Magics
  BY DEF HEAD, FIFO, Magics, TAIL, ERASED
<1>r. NoRead \in [end : Int, n : Int, off : Nat, got : Seq(Int), reported : Nat]
  BY DEF NoRead
<1>1. CASE InitScan
  <2>1. PICK broken \in BrokenScans :
          /\ Adopt(find_fifo(broken))
          /\ pc' = IF find_fifo(broken).ret = "FAILED" THEN "erase" ELSE "idle"
    BY <1>1 DEF InitScan
  <2>2. head' \in Int /\ last' \in Nat /\ tail' \in Nat
    BY <2>1, FindFifo DEF Adopt, ScanType
  <2> QED BY <1>0, <1>1, <1>b, <2>1, <2>2 DEF InitScan, TypeOK, Pcs
<1>2. CASE FormatErase
  <2>1. Erase(idx) \/ UNCHANGED <<magic, bitmap, cells>>
    BY <1>2 DEF FormatErase
  <2>2. /\ magic' \in [BlockIds -> Magics] /\ bitmap' \in [BlockIds -> Nat]
        /\ cells' \in [BlockIds -> [Offsets -> Int]]
    <3>1. CASE Erase(idx)
      BY <1>0, <3>1, EraseType
    <3>2. CASE UNCHANGED <<magic, bitmap, cells>>
      BY <1>0, <3>2
    <3> QED BY <2>1, <3>1, <3>2
  <2>3. idx' \in BlockIds /\ pc' \in Pcs
    BY <1>0, <1>2, <1>b DEF FormatErase, Pcs
  <2> QED BY <1>0, <1>2, <2>2, <2>3 DEF FormatErase, TypeOK
<1>3. CASE FormatHead
  <2>1. magic' \in [BlockIds -> Magics] /\ bitmap' \in [BlockIds -> Nat]
    BY <1>3, PrepareType DEF FormatHead
  <2> QED BY <1>0, <1>3, <2>1 DEF FormatHead, TypeOK, Pcs
<1>4. CASE InitRescan
  <2>1. PICK broken \in BrokenScans :
          /\ Adopt(find_fifo(broken))
          /\ pc' = IF find_fifo(broken).ret = "OK" THEN "idle" ELSE "dead"
    BY <1>4 DEF InitRescan
  <2>2. head' \in Int /\ last' \in Nat /\ tail' \in Nat
    BY <2>1, FindFifo DEF Adopt, ScanType
  <2> QED BY <1>0, <1>4, <2>1, <2>2 DEF InitRescan, TypeOK, Pcs
<1>5. ASSUME NEW len \in WriteLens, FsWrite(len) PROVE TypeOK'
  BY <1>0, <1>5, ClientAssumption DEF FsWrite, TypeOK, Pcs
<1>6. CASE WriteData
  <2> DEFINE n == WriteChunk
  <2>1. PICK ok \in Outcomes("read"), wok \in Outcomes("write") :
          \/ /\ RangeOK(ok) /\ n > 0
             /\ block_write_data(RangeStart, n, wok)
             /\ stamp' = StampAt(n)
             /\ rem' = rem - n
             /\ off' = RangeStart + n
             /\ UNCHANGED pc
          \/ /\ ~(RangeOK(ok) /\ n > 0)
             /\ off' = IF RangeOK(ok) THEN RangeStart ELSE off
             /\ pc' = "usage"
             /\ UNCHANGED <<cells, stamp, rem>>
    BY <1>6 DEF WriteData
  <2>2. RangeStart \in Nat /\ n \in Int /\ n <= rem
    BY <1>0, RangeType DEF WriteChunk, Smaller
  <2> HIDE DEF n
  <2>3. CASE /\ RangeOK(ok) /\ n > 0
             /\ block_write_data(RangeStart, n, wok)
             /\ stamp' = StampAt(n)
             /\ rem' = rem - n
             /\ off' = RangeStart + n
             /\ UNCHANGED pc
    <3>1. stamp' \in Nat /\ rem' \in Nat /\ off' \in Nat
      BY <1>0, <2>2, <2>3, StampType
    <3>2. \A k \in Int : StampAt(k) \in Int
      BY <1>0, StampType
    <3>3. cells' \in [BlockIds -> [Offsets -> Int]]
      <4>1. CASE wok
        <5> DEFINE old == cells[Blk(head)]
                   new == [i \in Offsets |->
                             IF i \notin RangeStart .. RangeStart + n - 1 THEN old[i]
                             ELSE IF old[i] = Blank THEN StampAt(i - RangeStart) ELSE Corrupt]
        <5>1. Blk(head) \in BlockIds /\ old \in [Offsets -> Int]
          BY <1>0, BlkType
        <5>2. \A i \in Offsets : i \in Int
          BY CapType DEF Offsets
        <5>3. new \in [Offsets -> Int]
          BY <2>2, <3>2, <5>1, <5>2 DEF Corrupt
        <5>4. cells' = [cells EXCEPT ![Blk(head)] = new]
          BY <2>3, <4>1 DEF block_write_data
        <5> HIDE DEF new
        <5> QED BY <1>0, <5>1, <5>3, <5>4
      <4>2. CASE ~wok
        BY <1>0, <2>3, <4>2 DEF block_write_data
      <4> QED BY <4>1, <4>2
    <3> QED BY <1>0, <1>6, <2>3, <3>1, <3>3 DEF WriteData, TypeOK
  <2>4. CASE /\ ~(RangeOK(ok) /\ n > 0)
             /\ off' = IF RangeOK(ok) THEN RangeStart ELSE off
             /\ pc' = "usage"
             /\ UNCHANGED <<cells, stamp, rem>>
    BY <1>0, <1>6, <2>2, <2>4 DEF WriteData, TypeOK, Pcs
  <2> QED BY <2>1, <2>3, <2>4
<1>7. CASE WriteUsage
  <2>1. magic' \in [BlockIds -> Magics] /\ bitmap' \in [BlockIds -> Nat]
    BY <1>0, <1>7, <1>m, UsageType, WriteHeaderType DEF WriteUsage, set_block_write_usage
  <2> QED BY <1>0, <1>7, <2>1 DEF WriteUsage, TypeOK, Pcs
<1>8. CASE WriteClose
  <2>1. magic' \in [BlockIds -> Magics] /\ bitmap' \in [BlockIds -> Nat]
    BY <1>0, <1>8, <1>m, WriteHeaderType DEF WriteClose, close_head
  <2> QED BY <1>0, <1>8, <2>1 DEF WriteClose, TypeOK, Pcs
<1>9. CASE WritePrepare
  <2>1. magic' \in [BlockIds -> Magics] /\ bitmap' \in [BlockIds -> Nat]
    BY <1>0, <1>9, PrepareType DEF WritePrepare
  <2> QED BY <1>0, <1>9, <2>1 DEF WritePrepare, TypeOK, Pcs
<1>10. CASE FsOpen
  BY <1>0, <1>10 DEF FsOpen, TypeOK
<1>11. ASSUME NEW len \in ReadLens, FsRead(len) PROVE TypeOK'
  <2>1. PageEnd(read_offset) \in Int /\ len \in Nat
    BY <1>0, ClientAssumption, PageEndType
  <2>2. rd' = [NoRead EXCEPT !.end = PageEnd(read_offset), !.reported = len]
    BY <1>11 DEF FsRead
  <2>3. rd' \in [end : Int, n : Int, off : Nat, got : Seq(Int), reported : Nat]
    BY <1>r, <2>1, <2>2
  <2> QED BY <1>0, <1>11, <2>3 DEF FsRead, TypeOK, Pcs
<1>17. CASE ReadRange
  <2>1. Smaller(rd.reported, rd.end - read_offset) \in Int
    BY <1>0 DEF Smaller
  <2>2. rd' \in [end : Int, n : Int, off : Nat, got : Seq(Int), reported : Nat]
    BY <1>0, <1>17, <1>r, <2>1 DEF ReadRange
  <2>3. pc' \in Pcs
    BY <1>17 DEF ReadRange, Pcs
  <2> QED BY <1>0, <1>17, <2>2, <2>3 DEF ReadRange, TypeOK
<1>18. CASE ReadData
  <2>1. rd.n \in Int
    BY <1>0
  <2>2. block_read_data(read_offset, rd.n) \in Seq(Int)
    BY <2>1, ReadDataType
  <2>3. \/ rd' = [rd EXCEPT !.off = read_offset, !.got = block_read_data(read_offset, rd.n)]
        \/ rd' = NoRead
    BY <1>18 DEF ReadData
  <2>4. rd' \in [end : Int, n : Int, off : Nat, got : Seq(Int), reported : Nat]
    BY <1>0, <1>r, <2>2, <2>3
  <2>5. pc' \in Pcs
    BY <1>18 DEF ReadData, Pcs
  <2> QED BY <1>0, <1>18, <2>4, <2>5 DEF ReadData, TypeOK
<1>12. CASE ReadAdvance
  BY <1>0, <1>12, <1>r DEF ReadAdvance, TypeOK, Pcs
<1>13. CASE FsRemove
  <2>1. magic' \in [BlockIds -> Magics] /\ bitmap' \in [BlockIds -> Nat]
    BY <1>0, <1>13, <1>m, WriteHeaderType DEF FsRemove
  <2>2. /\ last' = last + 1 /\ sawData' = FALSE /\ pc' = "gc1"
        /\ UNCHANGED <<cells, head, tail, read_offset, callVars, stamp, rd>>
    BY <1>13 DEF FsRemove
  <2>3. last' \in Nat
    <3>1. last \in Nat /\ last' = last + 1
      BY <1>0, <2>2
    <3> QED BY <3>1
  <2>4. sawData' \in BOOLEAN
    BY <2>2, Zenon
  <2> QED BY <1>0, <2>1, <2>2, <2>3, <2>4 DEF TypeOK, Pcs
<1>14. CASE RemoveGc
  <2>1. /\ magic' \in [BlockIds -> Magics] /\ bitmap' \in [BlockIds -> Nat]
        /\ cells' \in [BlockIds -> [Offsets -> Int]] /\ tail' \in Nat
    <3>1. (Erase(Blk(tail)) /\ tail' = tail + 1) \/ UNCHANGED <<flashVars, tail>>
      BY <1>14 DEF RemoveGc, flash_fifo_gc_single
    <3>2. Blk(tail) \in BlockIds
      BY <1>0, BlkType
    <3>3. tail \in Nat
      BY <1>0
    <3>4. CASE Erase(Blk(tail)) /\ tail' = tail + 1
      <4>1. tail' \in Nat
        BY <3>3, <3>4
      <4> QED BY <3>2, <3>4, <4>1, EraseType
    <3>5. CASE UNCHANGED <<flashVars, tail>>
      BY <1>0, <3>5
    <3> QED BY <3>1, <3>4, <3>5
  <2> QED BY <1>0, <1>14, <2>1 DEF RemoveGc, TypeOK, Pcs
<1>15. CASE Crash
  BY <1>0, <1>15, <1>b, <1>r DEF Crash, TypeOK, Pcs
<1>16. CASE UNCHANGED vars
  BY <1>16 DEF vars, TypeOK
<1> QED BY <1>1, <1>2, <1>3, <1>4, <1>5, <1>6, <1>7, <1>8, <1>9, <1>10, <1>11, <1>12,
           <1>13, <1>14, <1>15, <1>16, <1>17, <1>18 DEF Next

(* In every reachable state the service's variables have their types:      *)
(* positions never go negative, the bytes left to write never underflow,   *)
(* a read copies a string of bytes.                                        *)
THEOREM TypeCorrect == Spec => []TypeOK
  BY TypeInit, TypeNext, PTL DEF Spec

-----------------------------------------------------------------------------
LEMMA ErasedNext == TypeOK /\ OneErased /\ [Next]_vars => OneErased'
<1> SUFFICES ASSUME TypeOK, OneErased, [Next]_vars, Running'
             PROVE  \E b \in BlockIds : magic'[b] = ERASED
  BY DEF OneErased
<1> USE DEF flashVars, ramVars, callVars, ghostVars
<1> DEFINE Erd == \E b \in BlockIds : magic[b] = ERASED
<1>0. head \in Int /\ last \in Int /\ tail \in Int /\ magic \in [BlockIds -> Magics]
  BY DEF TypeOK
<1>a. Running => Erd
  BY DEF OneErased
<1>c. TAIL # ERASED /\ FIFO # ERASED /\ HEAD # ERASED /\ TAIL # HEAD /\ TAIL # FIFO
  BY DEF TAIL, FIFO, HEAD, ERASED
<1>1. CASE InitScan
  <2>1. PICK broken \in BrokenScans :
          pc' = IF find_fifo(broken).ret = "FAILED" THEN "erase" ELSE "idle"
    BY <1>1 DEF InitScan
  <2>2. find_fifo(broken).ret # "FAILED"
    BY <2>1 DEF Running
  <2> QED BY <1>1, <2>2, FindFifo DEF InitScan
<1>2. CASE FormatErase
  BY <1>2 DEF FormatErase, Running
<1>3. CASE FormatHead
  BY <1>3 DEF FormatHead, Running
<1>4. CASE InitRescan
  <2>1. PICK broken \in BrokenScans :
          pc' = IF find_fifo(broken).ret = "OK" THEN "idle" ELSE "dead"
    BY <1>4 DEF InitRescan
  <2>2. find_fifo(broken).ret # "FAILED"
    BY <2>1 DEF Running
  <2> QED BY <1>4, <2>2, FindFifo DEF InitRescan
<1>5. CASE \E len \in WriteLens : FsWrite(len)
  BY <1>5, <1>a DEF FsWrite, Running
<1>6. CASE WriteData
  BY <1>6, <1>a DEF WriteData, Running
<1>7. CASE WriteUsage
  <2>1. Erd
    BY <1>7, <1>a DEF WriteUsage, Running
  <2>2. PICK ok, wok : set_block_write_usage(ok, wok)
    BY <1>7 DEF WriteUsage
  <2>3. CASE read_header(head, ok) = HEAD
    <3>1. magic[Blk(head)] # ERASED
      BY <2>3, <1>c DEF read_header
    <3> QED BY <1>0, <2>1, <2>2, <2>3, <3>1, KeepsErased DEF set_block_write_usage
  <2>4. CASE read_header(head, ok) # HEAD
    BY <2>1, <2>2, <2>4 DEF set_block_write_usage
  <2> QED BY <2>3, <2>4
<1>8. CASE WriteClose
  <2>1. Erd
    BY <1>8, <1>a DEF WriteClose, Running
  <2>2. PICK ok, wok : close_head(head, ok, wok)
    BY <1>8 DEF WriteClose
  <2>3. CASE read_header(head, ok) = HEAD
    <3>1. magic[Blk(head)] # ERASED
      BY <2>3, <1>c DEF read_header
    <3> QED BY <1>0, <2>1, <2>2, <2>3, <3>1, KeepsErased DEF close_head
  <2>4. CASE read_header(head, ok) # HEAD
    BY <2>1, <2>2, <2>4 DEF close_head
  <2> QED BY <2>3, <2>4
<1>9. CASE WritePrepare
  <2>1. Erd
    BY <1>9, <1>a DEF WritePrepare, Running
  <2>2. PICK ok1, ok2, wok : prepare_head(head + 1, ok1, ok2, wok)
    BY <1>9 DEF WritePrepare
  <2>3. head + 1 \in Int
    BY <1>0
  <2> QED BY <2>1, <2>2, <2>3, PrepareKeepsErased
<1>10. CASE FsOpen
  BY <1>10, <1>a DEF FsOpen, Running
<1>11. CASE \E len \in ReadLens : FsRead(len)
  BY <1>11, <1>a DEF FsRead, Running
<1>17. CASE ReadRange
  BY <1>17, <1>a DEF ReadRange, Running
<1>18. CASE ReadData
  BY <1>18, <1>a DEF ReadData, Running
<1>12. CASE ReadAdvance
  BY <1>12, <1>a DEF ReadAdvance, Running
<1>13. CASE FsRemove
  <2>1. Erd
    BY <1>13, <1>a DEF FsRemove, Running
  <2>2. PICK ok, wok : read_header(last, ok) = FIFO /\ write_header(last, TAIL, 0, wok)
    BY <1>13 DEF FsRemove
  <2>3. magic[Blk(last)] # ERASED
    BY <2>2, <1>c DEF read_header
  <2> QED BY <1>0, <2>1, <2>2, <2>3, KeepsErased
<1>14. CASE RemoveGc
  <2>1. Erd
    BY <1>14, <1>a DEF RemoveGc, Running
  <2>2. Erase(Blk(tail)) \/ UNCHANGED magic
    BY <1>14 DEF RemoveGc, flash_fifo_gc_single
  <2> QED BY <1>0, <2>1, <2>2, BlkType DEF Erase
<1>15. CASE Crash
  BY <1>15 DEF Crash, Running
<1>16. CASE UNCHANGED vars
  BY <1>16, <1>a DEF vars, Running
<1> QED BY <1>1, <1>2, <1>3, <1>4, <1>5, <1>6, <1>7, <1>8, <1>9, <1>10, <1>11, <1>12,
           <1>13, <1>14, <1>15, <1>16, <1>17, <1>18 DEF Next

(* While the service runs there is an erased block, whatever calls are     *)
(* made, wherever power fails and whichever flash operations fail: the     *)
(* next find_fifo always has a place to start from.                        *)
THEOREM AlwaysOneErased == Spec => []OneErased
<1>1. Init => OneErased
  BY DEF Init, OneErased, Running
<1>2. TypeOK /\ OneErased /\ [Next]_vars => OneErased'
  BY ErasedNext
<1> QED BY <1>1, <1>2, TypeCorrect, PTL DEF Spec

-----------------------------------------------------------------------------
(***************************************************************************)
(* From here on no flash operation fails; power still may, between any two *)
(* of them.  The next lemmas say what each handler then does to the flash. *)
(***************************************************************************)
CrashOnly == Faults \subseteq {"crash"}

LEMMA NoFaults ==
  ASSUME CrashOnly
  PROVE  Outcomes("read") = {TRUE} /\ Outcomes("write") = {TRUE} /\ BrokenScans = {{}}
<1>1. "read" \notin Faults /\ "write" \notin Faults
  BY DEF CrashOnly
<1> QED BY <1>1 DEF Outcomes, BrokenScans

(* Programming a header over a magic that is not smaller sets that magic,  *)
(* and programming no bits leaves the bitmap as it is.                     *)
LEMMA ProgramHeader ==
  ASSUME TypeOK, NEW pos \in Int, NEW m \in Magics, NEW bits \in Nat,
         write_header(pos, m, bits, TRUE), m <= magic[Blk(pos)]
  PROVE  /\ magic' = [magic EXCEPT ![Blk(pos)] = m]
         /\ bits = 0 => bitmap' = bitmap
         /\ bitmap' = [bitmap EXCEPT ![Blk(pos)] = Larger(bitmap[Blk(pos)], bits)]
<1>1. magic \in [BlockIds -> Magics] /\ bitmap \in [BlockIds -> Nat] /\ Blk(pos) \in BlockIds
  BY BlkType DEF TypeOK
<1>2. magic[Blk(pos)] \in Int /\ m \in Int /\ bitmap[Blk(pos)] \in Nat
  BY <1>1 DEF Magics, TAIL, ERASED
<1>3. Smaller(magic[Blk(pos)], m) = m
  BY <1>2 DEF Smaller
<1>4. bits = 0 => Larger(bitmap[Blk(pos)], bits) = bitmap[Blk(pos)]
  BY <1>2 DEF Larger
<1>5. /\ magic' = [magic EXCEPT ![Blk(pos)] = Smaller(magic[Blk(pos)], m)]
      /\ bitmap' = [bitmap EXCEPT ![Blk(pos)] = Larger(bitmap[Blk(pos)], bits)]
  BY DEF write_header
<1> QED BY <1>1, <1>3, <1>4, <1>5

LEMMA MagicValues ==
  /\ TAIL \in Magics /\ FIFO \in Magics /\ HEAD \in Magics /\ ERASED \in Magics
  /\ TAIL < FIFO /\ FIFO < HEAD /\ HEAD < ERASED
  /\ \A m \in Magics : m \in Int /\ m \in {TAIL, FIFO, HEAD, ERASED}
  BY DEF Magics, TAIL, FIFO, HEAD, ERASED

(* prepare_head takes pos for the new head when it and its successor are   *)
(* erased, and does nothing otherwise.                                     *)
LEMMA PrepareStep ==
  ASSUME TypeOK, NEW pos \in Int, prepare_head(pos, TRUE, TRUE, TRUE)
  PROVE  \/ /\ HeadAllowed(pos, TRUE, TRUE)
            /\ magic[Blk(pos)] = ERASED /\ magic[Blk(pos + 1)] = ERASED
            /\ magic' = [magic EXCEPT ![Blk(pos)] = HEAD] /\ bitmap' = bitmap
         \/ /\ ~HeadAllowed(pos, TRUE, TRUE)
            /\ magic' = magic /\ bitmap' = bitmap
<1>1. CASE HeadAllowed(pos, TRUE, TRUE)
  <2>1. magic[Blk(pos)] = ERASED /\ magic[Blk(pos + 1)] = ERASED
    BY <1>1 DEF HeadAllowed, read_header
  <2>2. write_header(pos, HEAD, 0, TRUE)
    BY <1>1 DEF prepare_head
  <2>3. HEAD <= magic[Blk(pos)]
    BY <2>1 DEF HEAD, ERASED
  <2> QED BY <1>1, <2>1, <2>2, <2>3, ProgramHeader, MagicValues
<1>2. CASE ~HeadAllowed(pos, TRUE, TRUE)
  BY <1>2 DEF prepare_head
<1> QED BY <1>1, <1>2

LEMMA FormatHeadStep ==
  ASSUME CrashOnly, FormatHead
  PROVE  prepare_head(0, TRUE, TRUE, TRUE)
  BY NoFaults DEF FormatHead

LEMMA PrepareHeadStep ==
  ASSUME CrashOnly, WritePrepare
  PROVE  /\ prepare_head(head + 1, TRUE, TRUE, TRUE)
         /\ head' = IF HeadAllowed(head + 1, TRUE, TRUE) THEN head + 1 ELSE head
<1>1. PICK ok1 \in Outcomes("read"), ok2 \in Outcomes("read"), wok \in Outcomes("write") :
        /\ prepare_head(head + 1, ok1, ok2, wok)
        /\ head' = IF HeadAllowed(head + 1, ok1, ok2) /\ wok THEN head + 1 ELSE head
  BY DEF WritePrepare
<1>2. ok1 = TRUE /\ ok2 = TRUE /\ wok = TRUE
  BY NoFaults
<1> QED BY <1>1, <1>2, Zenon

(* set_block_write_usage grows the bitmap of an open head and leaves every *)
(* magic alone.                                                            *)
LEMMA UsageStep ==
  ASSUME CrashOnly, TypeOK, WriteUsage
  PROVE  /\ magic' = magic
         /\ magic[Blk(head)] = HEAD =>
              bitmap' = [bitmap EXCEPT ![Blk(head)] =
                           Larger(bitmap[Blk(head)], offset_to_bitmap(off))]
         /\ magic[Blk(head)] # HEAD => bitmap' = bitmap
<1>1. set_block_write_usage(TRUE, TRUE)
  BY NoFaults DEF WriteUsage
<1>2. head \in Int /\ off \in Nat /\ magic \in [BlockIds -> Magics]
  BY DEF TypeOK
<1>3. CASE magic[Blk(head)] = HEAD
  <2>1. write_header(head, HEAD, offset_to_bitmap(off), TRUE)
    BY <1>1, <1>3 DEF set_block_write_usage, read_header
  <2>2. HEAD <= magic[Blk(head)]
    BY <1>3 DEF HEAD
  <2>3. /\ magic' = [magic EXCEPT ![Blk(head)] = HEAD]
        /\ bitmap' = [bitmap EXCEPT ![Blk(head)] =
                        Larger(bitmap[Blk(head)], offset_to_bitmap(off))]
    BY <1>2, <2>1, <2>2, ProgramHeader, MagicValues, UsageType
  <2> QED BY <1>2, <1>3, <2>3
<1>4. CASE magic[Blk(head)] # HEAD
  BY <1>1, <1>4 DEF set_block_write_usage, read_header
<1> QED BY <1>3, <1>4

(* close_head turns an open head into a closed block.                      *)
LEMMA CloseStep ==
  ASSUME CrashOnly, TypeOK, WriteClose
  PROVE  /\ bitmap' = bitmap
         /\ magic[Blk(head)] = HEAD => magic' = [magic EXCEPT ![Blk(head)] = FIFO]
         /\ magic[Blk(head)] # HEAD => magic' = magic
<1>1. close_head(head, TRUE, TRUE)
  BY NoFaults DEF WriteClose
<1>2. CASE magic[Blk(head)] = HEAD
  <2>1. write_header(head, FIFO, 0, TRUE)
    BY <1>1, <1>2 DEF close_head, read_header
  <2>2. FIFO <= magic[Blk(head)] /\ head \in Int
    BY <1>2 DEF HEAD, FIFO, TypeOK
  <2> QED BY <1>2, <2>1, <2>2, ProgramHeader, MagicValues
<1>3. CASE magic[Blk(head)] # HEAD
  BY <1>1, <1>3 DEF close_head, read_header
<1> QED BY <1>2, <1>3

LEMMA RemoveStep ==
  ASSUME CrashOnly, TypeOK, FsRemove
  PROVE  /\ magic[Blk(last)] = FIFO /\ bitmap' = bitmap
         /\ magic' = [magic EXCEPT ![Blk(last)] = TAIL]
<1>1. read_header(last, TRUE) = FIFO /\ write_header(last, TAIL, 0, TRUE)
  BY NoFaults DEF FsRemove
<1>2. magic[Blk(last)] = FIFO
  BY <1>1 DEF read_header
<1>3. TAIL <= magic[Blk(last)] /\ last \in Int
  BY <1>2 DEF FIFO, TAIL, TypeOK
<1> QED BY <1>1, <1>2, <1>3, ProgramHeader, MagicValues

LEMMA FormatEraseStep ==
  ASSUME CrashOnly, TypeOK, FormatErase
  PROVE  /\ pc = "erase" /\ Erase(idx) /\ idx' = (idx + 1) % Blocks
         /\ pc' = IF idx = Blocks - 1 THEN "format" ELSE "erase"
         /\ off' = off /\ sawData' = sawData
<1>1. idx \in 0 .. Blocks - 1 /\ Blocks \in Nat
  BY GeometryAssumption DEF TypeOK, BlockIds
<1>2. idx < Blocks - 1 <=> idx # Blocks - 1
  BY <1>1
<1>3. PICK ok \in Outcomes("write") :
        /\ IF ok THEN Erase(idx) ELSE UNCHANGED flashVars
        /\ idx' = IF ok THEN (idx + 1) % Blocks ELSE 0
        /\ pc' = IF ok /\ idx < Blocks - 1 THEN "erase" ELSE "format"
  BY DEF FormatErase
<1>4. ok = TRUE
  BY NoFaults
<1>5. Erase(idx) /\ idx' = (idx + 1) % Blocks
  BY <1>3, <1>4
<1>6. pc' = IF idx = Blocks - 1 THEN "format" ELSE "erase"
  BY <1>2, <1>3, <1>4
<1> QED BY <1>5, <1>6 DEF FormatErase, ghostVars

LEMMA GcStep ==
  ASSUME CrashOnly, RemoveGc
  PROVE  \/ magic[Blk(tail)] = TAIL /\ Erase(Blk(tail)) /\ tail' = tail + 1
         \/ magic[Blk(tail)] # TAIL /\ UNCHANGED <<magic, bitmap, cells, tail>>
<1>1. PICK ok \in Outcomes("read"), wok \in Outcomes("write") :
        IF read_header(tail, ok) = TAIL /\ wok
        THEN Erase(Blk(tail)) /\ tail' = tail + 1
        ELSE UNCHANGED <<flashVars, tail>>
  BY DEF RemoveGc, flash_fifo_gc_single
<1>2. ok = TRUE /\ wok = TRUE
  BY NoFaults
<1>3. read_header(tail, TRUE) = magic[Blk(tail)]
  BY DEF read_header
<1> QED BY <1>1, <1>2, <1>3 DEF flashVars

(* One turn of the write loop programs a page of an open head, or leaves.  *)
LEMMA DataStep ==
  ASSUME CrashOnly, WriteData
  PROVE  \/ /\ RangeOK(TRUE) /\ WriteChunk > 0
            /\ block_write_data(RangeStart, WriteChunk, TRUE)
            /\ rem' = rem - WriteChunk
            /\ off' = RangeStart + WriteChunk
            /\ pc' = pc
         \/ /\ ~(RangeOK(TRUE) /\ WriteChunk > 0)
            /\ off' = IF RangeOK(TRUE) THEN RangeStart ELSE off
            /\ pc' = "usage"
            /\ cells' = cells /\ rem' = rem
  BY NoFaults DEF WriteData

-----------------------------------------------------------------------------
(* The bitmap and the page ranges of get_block_write_range.                *)

(* The rounding of offset_to_bitmap never loses a byte.                    *)
LEMMA UsageCovers == \A o \in Nat : bitmap_to_offset(offset_to_bitmap(o)) >= o
<1> SUFFICES ASSUME NEW o \in Nat PROVE bitmap_to_offset(offset_to_bitmap(o)) >= o
  OBVIOUS
<1> DEFINE x == o - 1 + Unit
           q == x \div Unit
<1>1. Unit \in Nat \ {0} /\ x \in Int
  BY GeometryAssumption
<1>2. x = Unit * q + (x % Unit) /\ q \in Int /\ x % Unit \in 0 .. Unit - 1
  BY <1>1, DivMod
<1>3. Unit * q \in Int /\ q * Unit = Unit * q
  BY <1>1, <1>2
<1>4. Unit * q >= o
  <2> HIDE DEF q
  <2> QED BY <1>1, <1>2, <1>3
<1> QED BY <1>3, <1>4 DEF bitmap_to_offset, offset_to_bitmap

LEMMA OffsetMono ==
  ASSUME NEW a \in Nat, NEW b \in Nat, a <= b
  PROVE  /\ bitmap_to_offset(a) \in Nat
         /\ bitmap_to_offset(a) <= bitmap_to_offset(b)
<1>1. Unit \in Nat /\ b - a \in Nat
  BY GeometryAssumption
<1>2. b * Unit = a * Unit + (b - a) * Unit
  BY <1>1
<1>3. (b - a) * Unit \in Nat /\ a * Unit \in Nat
  BY <1>1
<1> QED BY <1>2, <1>3 DEF bitmap_to_offset

(* The range of one page program is empty only at the end of the block.    *)
LEMMA PageEndAfter == \A o \in Nat : PageEnd(o) >= o /\ (PageEnd(o) = o => o = Cap)
<1> SUFFICES ASSUME NEW o \in Nat PROVE PageEnd(o) >= o /\ (PageEnd(o) = o => o = Cap)
  OBVIOUS
<1> DEFINE x == o + PageSize
           q == x \div PageSize
<1>1. PageSize \in Nat \ {0} /\ x \in Int /\ Cap \in Nat
  BY GeometryAssumption, CapType
<1>2. x = PageSize * q + (x % PageSize) /\ q \in Int /\ x % PageSize \in 0 .. PageSize - 1
  BY <1>1, DivMod
<1>3. PageSize * q \in Int /\ q * PageSize = PageSize * q
  BY <1>1, <1>2
<1>4. q * PageSize > o
  <2> HIDE DEF q
  <2> QED BY <1>1, <1>2, <1>3
<1>5. PageEnd(o) = IF Cap - o > PageSize \/ Cap < o THEN q * PageSize ELSE Cap
  BY DEF PageEnd
<1> HIDE DEF q
<1> QED BY <1>1, <1>2, <1>3, <1>4, <1>5

(* Erased flash has no usage, and a call in progress is past the bytes the *)
(* bitmap of its open head accounts for.                                   *)
Clean == \A b \in BlockIds : magic[b] = ERASED => bitmap[b] = 0

InBlock ==
  off # 0 => /\ pc \in {"data", "usage"}
             /\ magic[Blk(head)] = HEAD
             /\ bitmap_to_offset(bitmap[Blk(head)]) <= off

(* A block is closed only when nothing more fits: the write loop left it   *)
(* at its end, and the bitmap was brought up to date before.               *)
Sealing ==
  /\ SealedFull
  /\ (pc = "usage" /\ rem > 0 /\ magic[Blk(head)] = HEAD) => off >= Cap
  /\ (pc = "close" /\ magic[Blk(head)] = HEAD) => bitmap_to_offset(bitmap[Blk(head)]) >= Cap

Usage == Clean /\ InBlock /\ Sealing

LEMMA UsageInit == Init => Usage
<1> SUFFICES ASSUME Init PROVE Usage
  OBVIOUS
<1>1. PICK kind \in Images : magic = Image(kind)
  BY DEF Init
<1>2. kind \in {"blank", "dirty", "formatted"}
  BY ClientAssumption
<1>3. \A b \in BlockIds : magic[b] # FIFO
  BY <1>1, <1>2 DEF Image, TAIL, FIFO, HEAD, ERASED
<1> QED BY <1>3 DEF Init, Usage, Clean, InBlock, Sealing, SealedFull

LEMMA UsageNext ==
  ASSUME CrashOnly, TypeOK, Usage, [Next]_vars
  PROVE  Usage'
<1> USE DEF flashVars, ramVars, callVars, ghostVars
<1>0. /\ magic \in [BlockIds -> Magics] /\ bitmap \in [BlockIds -> Nat]
      /\ head \in Int /\ last \in Nat /\ tail \in Nat /\ rem \in Nat /\ off \in Nat
      /\ idx \in BlockIds
      /\ Blk(head) \in BlockIds /\ Blk(last) \in BlockIds /\ Blk(tail) \in BlockIds
  <2>1. head \in Int /\ last \in Int /\ tail \in Int
    BY DEF TypeOK
  <2> QED BY <2>1, BlkType DEF TypeOK
<1>c. Cap \in Nat /\ \A b \in BlockIds : bitmap_to_offset(bitmap[b]) \in Nat
  BY <1>0, CapType, OffsetMono
<1>m. /\ TAIL # FIFO /\ TAIL # HEAD /\ TAIL # ERASED
      /\ FIFO # HEAD /\ FIFO # ERASED /\ HEAD # ERASED
  BY DEF TAIL, FIFO, HEAD, ERASED
<1>e. ASSUME NEW b \in BlockIds, Erase(b), off' = 0, pc' \notin {"usage", "close"} PROVE Usage'
  <2>1. magic'[b] = ERASED /\ bitmap'[b] = 0
    BY <1>0, <1>e DEF Erase
  <2>2. \A a \in BlockIds : a # b => magic'[a] = magic[a] /\ bitmap'[a] = bitmap[a]
    BY <1>0, <1>e DEF Erase
  <2>3. Clean'
    BY <2>1, <2>2 DEF Clean, Usage
  <2>4. SealedFull'
    BY <1>m, <2>1, <2>2 DEF SealedFull, Sealing, Usage, bitmap_to_offset
  <2> QED BY <1>e, <2>3, <2>4 DEF Usage, InBlock, Sealing
<1>p. ASSUME NEW pos \in Int, prepare_head(pos, TRUE, TRUE, TRUE), off' = 0,
             pc' \notin {"usage", "close"}
      PROVE  Usage'
  <2>1. Blk(pos) \in BlockIds
    BY BlkType
  <2>2. \/ /\ magic[Blk(pos)] = ERASED
           /\ magic' = [magic EXCEPT ![Blk(pos)] = HEAD] /\ bitmap' = bitmap
        \/ magic' = magic /\ bitmap' = bitmap
    BY <1>p, PrepareStep
  <2>3. \A a \in BlockIds : magic'[a] = magic[a] \/ magic'[a] = HEAD
    BY <1>0, <2>1, <2>2
  <2>4. Clean' /\ SealedFull'
    BY <1>m, <2>2, <2>3 DEF Clean, SealedFull, Sealing, Usage, bitmap_to_offset
  <2> QED BY <1>p, <2>4 DEF Usage, InBlock, Sealing
<1>s. ASSUME magic' = magic, bitmap' = bitmap, off' = 0, pc' \notin {"usage", "close"}
      PROVE  Usage'
  BY <1>s DEF Usage, Clean, InBlock, Sealing, SealedFull, bitmap_to_offset
<1>o. pc \notin {"data", "usage"} => off = 0
  BY DEF Usage, InBlock
<1>1. CASE InitScan
  BY <1>1, <1>o, <1>s DEF InitScan
<1>2. CASE FormatErase
  BY <1>0, <1>2, <1>o, <1>e, FormatEraseStep DEF FormatErase
<1>3. CASE FormatHead
  <2>1. prepare_head(0, TRUE, TRUE, TRUE)
    BY <1>3, FormatHeadStep
  <2>2. pc' = "rescan" /\ off' = 0
    BY <1>3, <1>o DEF FormatHead
  <2>3. 0 \in Int /\ pc' \notin {"usage", "close"}
    BY <2>2
  <2> QED BY <1>p, <2>1, <2>2, <2>3, Zenon
<1>4. CASE InitRescan
  BY <1>4, <1>o, <1>s DEF InitRescan
<1>5. CASE \E len \in WriteLens : FsWrite(len)
  BY <1>5, <1>s DEF FsWrite
<1>6. CASE WriteData
  <2>0. /\ magic' = magic /\ bitmap' = bitmap /\ head' = head /\ pc = "data"
    BY <1>6 DEF WriteData
  <2>1. RangeStart \in Nat /\ get_block_write_range \in Int
    BY RangeType
  <2>2. WriteChunk \in Int /\ WriteChunk <= rem
    BY <1>0, <2>1 DEF WriteChunk, Smaller
  <2>3. RangeOK(TRUE) => magic[Blk(head)] = HEAD
    BY DEF RangeOK, read_header, Usage, InBlock
  <2>4. bitmap_to_offset(bitmap[Blk(head)]) <= RangeStart
    BY <1>0, <1>c DEF RangeStart, Usage, InBlock
  <2>5. Clean' /\ SealedFull'
    BY <2>0 DEF Usage, Clean, Sealing, SealedFull, bitmap_to_offset
  <2>6. CASE /\ RangeOK(TRUE) /\ WriteChunk > 0
             /\ off' = RangeStart + WriteChunk
             /\ pc' = pc
    <3>1. InBlock'
      BY <1>0, <1>c, <2>0, <2>1, <2>2, <2>3, <2>4, <2>6 DEF InBlock, bitmap_to_offset
    <3> QED BY <2>0, <2>5, <2>6, <3>1 DEF Usage, Sealing
  <2>7. CASE /\ ~(RangeOK(TRUE) /\ WriteChunk > 0)
             /\ off' = IF RangeOK(TRUE) THEN RangeStart ELSE off
             /\ pc' = "usage"
             /\ cells' = cells /\ rem' = rem
    <3>1. InBlock'
      BY <1>0, <1>c, <2>0, <2>1, <2>3, <2>4, <2>7 DEF InBlock, Usage, bitmap_to_offset
    <3>2. ASSUME rem > 0, magic[Blk(head)] = HEAD PROVE off' >= Cap
      <4>1. CASE RangeOK(TRUE)
        <5>1. get_block_write_range <= 0
          <6>1. ~(WriteChunk > 0)
            BY <2>7, <4>1
          <6>2. WriteChunk = IF rem <= get_block_write_range THEN rem ELSE get_block_write_range
            BY DEF WriteChunk, Smaller
          <6> QED BY <1>0, <2>1, <3>2, <6>1, <6>2
        <5>2. RangeStart = Cap
          BY <2>1, <5>1, PageEndAfter, PageEndType DEF get_block_write_range
        <5> QED BY <1>c, <2>7, <4>1, <5>2
      <4>2. CASE ~RangeOK(TRUE)
        <5>1. off >= Cap + PageSize /\ PageSize \in Nat
          BY <1>0, <1>c, <3>2, <4>2, GeometryAssumption DEF RangeOK, read_header
        <5> QED BY <1>0, <1>c, <2>7, <4>2, <5>1
      <4> QED BY <4>1, <4>2
    <3> QED BY <2>0, <2>5, <2>7, <3>1, <3>2 DEF Usage, Sealing
  <2> QED BY <1>6, <2>6, <2>7, DataStep
<1>7. CASE WriteUsage
  <2>0. /\ pc = "usage" /\ pc' = (IF rem > 0 THEN "close" ELSE "idle")
        /\ off' = 0 /\ rem' = rem /\ head' = head
    BY <1>7 DEF WriteUsage
  <2>1. magic' = magic
    BY <1>7, UsageStep
  <2> DEFINE u == offset_to_bitmap(off)
  <2>2. u \in Nat /\ bitmap_to_offset(u) >= off /\ bitmap_to_offset(u) \in Nat
    BY <1>0, UsageType, UsageCovers, OffsetMono
  <2>3. CASE magic[Blk(head)] = HEAD
    <3>1. bitmap' = [bitmap EXCEPT ![Blk(head)] = Larger(bitmap[Blk(head)], u)]
      BY <1>7, <2>3, UsageStep
    <3>2. /\ bitmap'[Blk(head)] \in Nat /\ bitmap'[Blk(head)] >= u
          /\ \A a \in BlockIds : a # Blk(head) => bitmap'[a] = bitmap[a]
      BY <1>0, <2>2, <3>1 DEF Larger
    <3>3. Clean'
      BY <1>m, <2>1, <2>3, <3>2 DEF Clean, Usage
    <3>4. SealedFull'
      BY <1>m, <2>1, <2>3, <3>2 DEF SealedFull, Sealing, Usage, bitmap_to_offset
    <3>5. bitmap_to_offset(bitmap'[Blk(head)]) >= bitmap_to_offset(u)
          /\ bitmap_to_offset(bitmap'[Blk(head)]) \in Nat
      BY <2>2, <3>2, OffsetMono
    <3>6. rem > 0 => off >= Cap
      BY <2>0, <2>3 DEF Usage, Sealing
    <3>7. rem > 0 => bitmap_to_offset(bitmap'[Blk(head)]) >= Cap
      BY <1>0, <1>c, <2>2, <3>5, <3>6
    <3> QED BY <2>0, <3>3, <3>4, <3>7 DEF Usage, InBlock, Sealing, bitmap_to_offset
  <2>4. CASE magic[Blk(head)] # HEAD
    <3>1. bitmap' = bitmap
      BY <1>7, <2>4, UsageStep
    <3> QED BY <2>0, <2>1, <2>4, <3>1
         DEF Usage, Clean, InBlock, Sealing, SealedFull, bitmap_to_offset
  <2> QED BY <2>3, <2>4
<1>8. CASE WriteClose
  <2>0. pc = "close" /\ pc' = "prepare" /\ off' = off /\ off = 0
    BY <1>8, <1>o DEF WriteClose
  <2>1. /\ bitmap' = bitmap
        /\ magic[Blk(head)] = HEAD => magic' = [magic EXCEPT ![Blk(head)] = FIFO]
        /\ magic[Blk(head)] # HEAD => magic' = magic
    BY <1>8, CloseStep
  <2>2. CASE magic[Blk(head)] = HEAD
    <3>1. magic'[Blk(head)] = FIFO /\ \A a \in BlockIds : a # Blk(head) => magic'[a] = magic[a]
      BY <1>0, <2>1, <2>2
    <3>2. bitmap_to_offset(bitmap[Blk(head)]) >= Cap
      BY <2>0, <2>2 DEF Usage, Sealing
    <3>3. Clean' /\ SealedFull'
      BY <1>m, <2>1, <3>1, <3>2 DEF Clean, SealedFull, Sealing, Usage, bitmap_to_offset
    <3> QED BY <2>0, <3>3 DEF Usage, InBlock, Sealing
  <2>3. CASE magic[Blk(head)] # HEAD
    BY <2>0, <2>1, <2>3, <1>s
  <2> QED BY <2>2, <2>3
<1>9. CASE WritePrepare
  <2>1. head + 1 \in Int
    BY <1>0
  <2> QED BY <1>9, <1>o, <1>p, <2>1, PrepareHeadStep DEF WritePrepare
<1>10. CASE FsOpen
  BY <1>10 DEF FsOpen, Usage, Clean, InBlock, Sealing, SealedFull, bitmap_to_offset
<1>11. CASE \E len \in ReadLens : FsRead(len)
  BY <1>11, <1>o, <1>s DEF FsRead
<1>17. CASE ReadRange
  BY <1>17, <1>o, <1>s DEF ReadRange
<1>18. CASE ReadData
  BY <1>18, <1>o, <1>s DEF ReadData
<1>12. CASE ReadAdvance
  BY <1>12, <1>o, <1>s DEF ReadAdvance
<1>13. CASE FsRemove
  <2>0. pc' = "gc1" /\ off' = 0
    BY <1>13, <1>o DEF FsRemove
  <2>1. bitmap' = bitmap /\ magic' = [magic EXCEPT ![Blk(last)] = TAIL]
    BY <1>13, RemoveStep
  <2>2. magic'[Blk(last)] = TAIL /\ \A a \in BlockIds : a # Blk(last) => magic'[a] = magic[a]
    BY <1>0, <2>1
  <2>3. Clean' /\ SealedFull'
    BY <1>m, <2>1, <2>2 DEF Clean, SealedFull, Sealing, Usage, bitmap_to_offset
  <2> QED BY <2>0, <2>3 DEF Usage, InBlock, Sealing
<1>14. CASE RemoveGc
  <2>0. pc' \in {"gc2", "idle"} /\ off' = 0
    BY <1>14, <1>o DEF RemoveGc
  <2> QED BY <1>0, <1>14, <1>e, <1>s, <2>0, GcStep
<1>15. CASE Crash
  BY <1>15, <1>s DEF Crash
<1>16. CASE UNCHANGED vars
  BY <1>16 DEF vars, Usage, Clean, InBlock, Sealing, SealedFull, bitmap_to_offset
<1> QED BY <1>1, <1>2, <1>3, <1>4, <1>5, <1>6, <1>7, <1>8, <1>9, <1>10, <1>11, <1>12,
           <1>13, <1>14, <1>15, <1>16, <1>17, <1>18 DEF Next

LEMMA UsageAlways == ASSUME CrashOnly PROVE Spec => []Usage
<1>1. TypeOK /\ Usage /\ [Next]_vars => Usage'
  BY UsageNext
<1> QED BY <1>1, UsageInit, TypeCorrect, PTL DEF Spec

(* flash_fifo_read: "We assume it is full, because it is full".  For every *)
(* geometry and every sequence of calls, wherever power fails, a block     *)
(* that carries the magic of a closed one has no room left.                *)
THEOREM ClosedBlocksAreFull ==
  ASSUME CrashOnly
  PROVE  Spec => []SealedFull
<1>1. Usage => SealedFull
  BY DEF Usage, Sealing
<1> QED BY <1>1, UsageAlways, PTL

-----------------------------------------------------------------------------
(***************************************************************************)
(* What the cells hold.  Without power failures in the middle of a call,   *)
(* an erased block is blank and the programmed bytes of an open head are   *)
(* below its bitmap, except those of the call in progress, which are below *)
(* its write offset: so no byte is ever programmed twice.  A power failure *)
(* between a page program and the bitmap update breaks exactly this.       *)
(***************************************************************************)
Covered ==
  \A b \in BlockIds : \A i \in Offsets : cells[b][i] # Blank =>
    /\ magic[b] # ERASED
    /\ magic[b] = HEAD => \/ i < bitmap_to_offset(bitmap[b])
                          \/ b = Blk(head) /\ off # 0 /\ i < off

PayloadBytes == IF "crash" \in Faults THEN Corrupt .. Stamps ELSE Blank .. Stamps

HoldsBytes(cl) == \A b \in BlockIds : \A i \in Offsets : cl[b][i] \in PayloadBytes

Payload == HoldsBytes(cells)

Written == Payload /\ (Faults = {} => Covered)

LEMMA BytesType ==
  /\ Blank \in PayloadBytes /\ 1 .. Stamps \subseteq PayloadBytes
  /\ "crash" \in Faults => Corrupt \in PayloadBytes
  BY ClientAssumption DEF PayloadBytes, Blank, Corrupt

(* A page program stamps the blank cells of its range and spoils those     *)
(* that were programmed before.                                            *)
LEMMA DataCells ==
  ASSUME TypeOK, NEW o \in Nat, NEW n \in Int, block_write_data(o, n, TRUE),
         NEW b \in BlockIds, NEW i \in Offsets
  PROVE  \/ cells'[b][i] = cells[b][i]
         \/ /\ b = Blk(head) /\ o <= i /\ i < o + n
            /\ cells[b][i] = Blank => cells'[b][i] \in 1 .. Stamps
            /\ cells[b][i] # Blank => cells'[b][i] = Corrupt
<1> DEFINE old == cells[Blk(head)]
           new == [j \in Offsets |->
                     IF j \notin o .. o + n - 1 THEN old[j]
                     ELSE IF old[j] = Blank THEN StampAt(j - o) ELSE Corrupt]
<1>1. head \in Int /\ stamp \in Nat /\ cells \in [BlockIds -> [Offsets -> Int]]
  BY DEF TypeOK
<1>2. Blk(head) \in BlockIds /\ i \in Int
  BY <1>1, BlkType, CapType DEF Offsets
<1>3. cells' = [cells EXCEPT ![Blk(head)] = new]
  BY DEF block_write_data
<1>4. StampAt(i - o) \in 1 .. Stamps
  BY <1>1, <1>2, ClientAssumption DEF StampAt
<1>5. new[i] = IF i \notin o .. o + n - 1 THEN old[i]
               ELSE IF old[i] = Blank THEN StampAt(i - o) ELSE Corrupt
  OBVIOUS
<1> HIDE DEF new
<1>6. CASE b # Blk(head)
  BY <1>1, <1>3, <1>6
<1>7. CASE b = Blk(head)
  <2>1. cells'[b] = new /\ old = cells[b]
    BY <1>1, <1>2, <1>3, <1>7
  <2>2. CASE i \notin o .. o + n - 1
    BY <1>5, <2>1, <2>2
  <2>3. CASE i \in o .. o + n - 1
    <3>1. o <= i /\ i < o + n
      BY <1>2, <2>3
    <3> QED BY <1>4, <1>5, <1>7, <2>1, <2>3, <3>1
  <2> QED BY <2>2, <2>3
<1> QED BY <1>6, <1>7

LEMMA WrittenInit == Init => Written
<1> SUFFICES ASSUME Init PROVE Written
  OBVIOUS
<1>1. \A b \in BlockIds : \A i \in Offsets : cells[b][i] = Blank
  BY DEF Init
<1> QED BY <1>1, BytesType DEF Written, Payload, HoldsBytes, Covered

LEMMA WrittenNext ==
  ASSUME CrashOnly, TypeOK, Usage, Written, [Next]_vars
  PROVE  Written'
<1> USE DEF flashVars, ramVars, callVars, ghostVars
<1>0. /\ magic \in [BlockIds -> Magics] /\ bitmap \in [BlockIds -> Nat]
      /\ cells \in [BlockIds -> [Offsets -> Int]]
      /\ head \in Int /\ last \in Int /\ tail \in Int /\ off \in Nat /\ idx \in BlockIds
      /\ Cap \in Nat /\ \A i \in Offsets : i \in Nat
  BY CapType DEF TypeOK, Offsets
<1>b. Blk(head) \in BlockIds /\ Blk(last) \in BlockIds /\ Blk(tail) \in BlockIds
  BY <1>0, BlkType
<1>c. \A b \in BlockIds : bitmap_to_offset(bitmap[b]) \in Nat
  BY <1>0, OffsetMono
<1>m. /\ TAIL # FIFO /\ TAIL # HEAD /\ TAIL # ERASED
      /\ FIFO # HEAD /\ FIFO # ERASED /\ HEAD # ERASED
  BY DEF TAIL, FIFO, HEAD, ERASED
<1>p. Payload /\ (Faults = {} => Covered)
  BY DEF Written
<1>o. pc \notin {"data", "usage"} => off = 0
  BY DEF Usage, InBlock
<1>d. "crash" \notin Faults => Faults = {}
  BY DEF CrashOnly
<1>u. cells' = cells => Payload'
  BY <1>p DEF Payload, HoldsBytes, PayloadBytes
<1>s. ASSUME cells' = cells, magic' = magic, bitmap' = bitmap, off = 0, off' = 0
      PROVE  Written'
  <2>1. Covered => Covered'
    BY <1>s DEF Covered, bitmap_to_offset
  <2> QED BY <1>s, <1>u, <1>p, <2>1 DEF Written
<1>e. ASSUME NEW b \in BlockIds, Erase(b), off = 0, off' = 0 PROVE Written'
  <2>1. /\ \A i \in Offsets : cells'[b][i] = Blank
        /\ \A a \in BlockIds : a # b => /\ cells'[a] = cells[a] /\ magic'[a] = magic[a]
                                        /\ bitmap'[a] = bitmap[a]
    BY <1>0, <1>e DEF Erase
  <2>2. Payload'
    BY <1>p, <2>1, BytesType DEF Payload, HoldsBytes, PayloadBytes
  <2>3. Covered => Covered'
    BY <1>e, <2>1 DEF Covered, bitmap_to_offset
  <2> QED BY <1>p, <2>2, <2>3 DEF Written
<1>h. ASSUME NEW pos \in Int, prepare_head(pos, TRUE, TRUE, TRUE), cells' = cells,
             off = 0, off' = 0
      PROVE  Written'
  <2>1. Blk(pos) \in BlockIds
    BY BlkType
  <2>2. \/ /\ magic[Blk(pos)] = ERASED
           /\ magic' = [magic EXCEPT ![Blk(pos)] = HEAD] /\ bitmap' = bitmap
        \/ magic' = magic /\ bitmap' = bitmap
    BY <1>h, PrepareStep
  <2>3. CASE magic' = magic /\ bitmap' = bitmap
    BY <1>h, <1>s, <2>3
  <2>4. CASE /\ magic[Blk(pos)] = ERASED
             /\ magic' = [magic EXCEPT ![Blk(pos)] = HEAD] /\ bitmap' = bitmap
    <3>1. \A a \in BlockIds : a # Blk(pos) => magic'[a] = magic[a]
      BY <1>0, <2>4
    <3>2. Covered => \A i \in Offsets : cells[Blk(pos)][i] = Blank
      BY <2>1, <2>4 DEF Covered
    <3>3. Covered => Covered'
      BY <1>h, <2>4, <3>1, <3>2 DEF Covered, bitmap_to_offset
    <3> QED BY <1>h, <1>p, <1>u, <3>3 DEF Written
  <2> QED BY <2>2, <2>3, <2>4
<1>1. CASE InitScan
  BY <1>1, <1>o, <1>s DEF InitScan
<1>2. CASE FormatErase
  BY <1>0, <1>2, <1>o, <1>e, FormatEraseStep DEF FormatErase
<1>3. CASE FormatHead
  <2>1. prepare_head(0, TRUE, TRUE, TRUE)
    BY <1>3, FormatHeadStep
  <2>2. cells' = cells /\ off = 0 /\ off' = 0 /\ 0 \in Int
    BY <1>3, <1>o DEF FormatHead
  <2> QED BY <1>h, <2>1, <2>2, Zenon
<1>4. CASE InitRescan
  BY <1>4, <1>o, <1>s DEF InitRescan
<1>5. CASE \E len \in WriteLens : FsWrite(len)
  BY <1>5, <1>o, <1>s DEF FsWrite
<1>6. CASE WriteData
  <2>0. magic' = magic /\ bitmap' = bitmap /\ head' = head
    BY <1>6 DEF WriteData
  <2>1. RangeStart \in Nat /\ get_block_write_range \in Int
    BY RangeType
  <2>2. WriteChunk \in Int
    BY <2>1 DEF WriteChunk, Smaller, TypeOK
  <2>3. RangeOK(TRUE) => magic[Blk(head)] = HEAD
    BY DEF RangeOK, read_header, Usage, InBlock
  <2>4. bitmap_to_offset(bitmap[Blk(head)]) <= RangeStart /\ off <= RangeStart
    BY <1>0, <1>b, <1>c DEF RangeStart, Usage, InBlock
  <2>5. CASE /\ RangeOK(TRUE) /\ WriteChunk > 0
             /\ block_write_data(RangeStart, WriteChunk, TRUE)
             /\ off' = RangeStart + WriteChunk
    <3>1. \A b \in BlockIds : \A i \in Offsets :
            \/ cells'[b][i] = cells[b][i]
            \/ /\ b = Blk(head) /\ RangeStart <= i /\ i < RangeStart + WriteChunk
               /\ cells[b][i] = Blank => cells'[b][i] \in 1 .. Stamps
               /\ cells[b][i] # Blank => cells'[b][i] = Corrupt
      BY <2>1, <2>2, <2>5, DataCells
    <3>2. Covered => \A i \in Offsets : cells[Blk(head)][i] # Blank => i < RangeStart
      <4> SUFFICES ASSUME Covered, NEW i \in Offsets, cells[Blk(head)][i] # Blank
                   PROVE  i < RangeStart
        OBVIOUS
      <4>1. i < bitmap_to_offset(bitmap[Blk(head)]) \/ i < off
        BY <1>b, <2>3, <2>5 DEF Covered
      <4> QED BY <1>0, <1>b, <1>c, <2>1, <2>4, <4>1
    <3>3. Payload'
      <4> SUFFICES ASSUME NEW b \in BlockIds, NEW i \in Offsets
                   PROVE  cells'[b][i] \in PayloadBytes
        BY DEF Payload, HoldsBytes, PayloadBytes
      <4>1. cells[b][i] \in PayloadBytes
        BY <1>p DEF Payload, HoldsBytes
      <4>2. CASE "crash" \in Faults
        BY <3>1, <4>1, <4>2, BytesType
      <4>3. CASE "crash" \notin Faults
        <5>1. \A j \in Offsets : cells[Blk(head)][j] # Blank => j < RangeStart
          BY <1>d, <1>p, <3>2, <4>3
        <5>2. cells'[b][i] = cells[b][i] \/ cells'[b][i] \in 1 .. Stamps
          BY <1>0, <2>1, <3>1, <5>1
        <5> QED BY <4>1, <5>2, BytesType
      <4> QED BY <4>2, <4>3
    <3>4. Covered => Covered'
      <4> SUFFICES ASSUME Covered, NEW b \in BlockIds, NEW i \in Offsets,
                          cells'[b][i] # Blank
                   PROVE  /\ magic[b] # ERASED
                          /\ magic[b] = HEAD => \/ i < bitmap_to_offset(bitmap[b])
                                                \/ b = Blk(head) /\ off' # 0 /\ i < off'
        BY <2>0 DEF Covered, bitmap_to_offset
      <4>1. off' # 0 /\ RangeStart + WriteChunk = off' /\ off < off'
        BY <1>0, <2>1, <2>2, <2>4, <2>5
      <4>2. CASE cells'[b][i] = cells[b][i]
        <5>1. /\ magic[b] # ERASED
              /\ magic[b] = HEAD => \/ i < bitmap_to_offset(bitmap[b])
                                    \/ b = Blk(head) /\ off # 0 /\ i < off
          BY <4>2 DEF Covered
        <5>2. i < off => i < off'
          BY <1>0, <2>1, <2>2, <2>5, <4>1
        <5> QED BY <4>1, <5>1, <5>2
      <4>3. CASE b = Blk(head) /\ i < RangeStart + WriteChunk
        BY <1>m, <2>3, <2>5, <4>1, <4>3
      <4> QED BY <3>1, <4>2, <4>3
    <3> QED BY <1>p, <3>3, <3>4 DEF Written
  <2>6. CASE /\ ~(RangeOK(TRUE) /\ WriteChunk > 0)
             /\ off' = IF RangeOK(TRUE) THEN RangeStart ELSE off
             /\ cells' = cells
    <3>0. off' = RangeStart \/ off' = off
      BY <2>6
    <3>1. off' \in Nat /\ off <= off'
      BY <1>0, <2>1, <2>4, <3>0
    <3>2. off # 0 => off' # 0
      BY <1>0, <3>1
    <3>3. \A i \in Offsets : i < off => i < off'
      BY <1>0, <3>1
    <3>4. Covered => Covered'
      BY <2>0, <2>6, <3>2, <3>3 DEF Covered, bitmap_to_offset
    <3> QED BY <1>p, <1>u, <2>6, <3>4 DEF Written
  <2> QED BY <1>6, <2>5, <2>6, DataStep
<1>7. CASE WriteUsage
  <2>0. cells' = cells /\ head' = head /\ off' = 0
    BY <1>7 DEF WriteUsage
  <2>1. magic' = magic
    BY <1>7, UsageStep
  <2> DEFINE u == offset_to_bitmap(off)
  <2>2. u \in Nat /\ bitmap_to_offset(u) >= off /\ bitmap_to_offset(u) \in Nat
    BY <1>0, UsageType, UsageCovers, OffsetMono
  <2>3. CASE magic[Blk(head)] = HEAD
    <3>1. bitmap' = [bitmap EXCEPT ![Blk(head)] = Larger(bitmap[Blk(head)], u)]
      BY <1>7, <2>3, UsageStep
    <3>2. /\ bitmap'[Blk(head)] \in Nat /\ bitmap'[Blk(head)] >= u
          /\ bitmap'[Blk(head)] >= bitmap[Blk(head)] /\ bitmap[Blk(head)] \in Nat
          /\ \A a \in BlockIds : a # Blk(head) => bitmap'[a] = bitmap[a]
      BY <1>0, <1>b, <2>2, <3>1 DEF Larger
    <3>3. /\ bitmap_to_offset(bitmap'[Blk(head)]) \in Nat
          /\ bitmap_to_offset(bitmap'[Blk(head)]) >= bitmap_to_offset(u)
          /\ bitmap_to_offset(bitmap'[Blk(head)]) >= bitmap_to_offset(bitmap[Blk(head)])
      BY <2>2, <3>2, OffsetMono
    <3>4. \A i \in Offsets : (i < off \/ i < bitmap_to_offset(bitmap[Blk(head)])) =>
                               i < bitmap_to_offset(bitmap'[Blk(head)])
      BY <1>0, <1>b, <1>c, <2>2, <3>3
    <3>5. Covered => Covered'
      <4> SUFFICES ASSUME Covered, NEW b \in BlockIds, NEW i \in Offsets, cells[b][i] # Blank
                   PROVE  /\ magic[b] # ERASED
                          /\ magic[b] = HEAD => i < bitmap_to_offset(bitmap'[b])
        BY <2>0, <2>1 DEF Covered, bitmap_to_offset
      <4>1. /\ magic[b] # ERASED
            /\ magic[b] = HEAD => \/ i < bitmap_to_offset(bitmap[b])
                                  \/ b = Blk(head) /\ off # 0 /\ i < off
        BY DEF Covered
      <4> QED BY <3>2, <3>4, <4>1
    <3> QED BY <1>p, <1>u, <2>0, <3>5 DEF Written
  <2>4. CASE magic[Blk(head)] # HEAD
    <3>1. bitmap' = bitmap /\ off = 0
      BY <1>7, <2>4, UsageStep DEF Usage, InBlock
    <3> QED BY <1>s, <2>0, <2>1, <3>1
  <2> QED BY <2>3, <2>4
<1>8. CASE WriteClose
  <2>0. cells' = cells /\ off = 0 /\ off' = 0
    BY <1>8, <1>o DEF WriteClose
  <2>1. /\ bitmap' = bitmap
        /\ magic' = magic \/ (magic' = [magic EXCEPT ![Blk(head)] = FIFO])
    BY <1>8, CloseStep
  <2>2. \A a \in BlockIds : magic'[a] = magic[a] \/ magic'[a] = FIFO
    BY <1>0, <1>b, <2>1
  <2>3. Covered => Covered'
    BY <1>m, <2>0, <2>1, <2>2 DEF Covered, bitmap_to_offset
  <2> QED BY <1>p, <1>u, <2>0, <2>3 DEF Written
<1>9. CASE WritePrepare
  <2>1. head + 1 \in Int
    BY <1>0
  <2> QED BY <1>9, <1>o, <1>h, <2>1, PrepareHeadStep DEF WritePrepare
<1>10. CASE FsOpen
  <2>1. Covered => Covered'
    BY <1>10 DEF FsOpen, Covered, bitmap_to_offset
  <2>2. cells' = cells
    BY <1>10 DEF FsOpen
  <2> QED BY <1>p, <1>u, <2>1, <2>2 DEF Written
<1>11. CASE \E len \in ReadLens : FsRead(len)
  BY <1>11, <1>o, <1>s DEF FsRead
<1>17. CASE ReadRange
  BY <1>17, <1>o, <1>s DEF ReadRange
<1>18. CASE ReadData
  BY <1>18, <1>o, <1>s DEF ReadData
<1>12. CASE ReadAdvance
  BY <1>12, <1>o, <1>s DEF ReadAdvance
<1>13. CASE FsRemove
  <2>0. cells' = cells /\ off = 0 /\ off' = 0
    BY <1>13, <1>o DEF FsRemove
  <2>1. bitmap' = bitmap /\ magic' = [magic EXCEPT ![Blk(last)] = TAIL]
    BY <1>13, RemoveStep
  <2>2. \A a \in BlockIds : magic'[a] = magic[a] \/ magic'[a] = TAIL
    BY <1>0, <1>b, <2>1
  <2>3. Covered => Covered'
    BY <1>m, <2>0, <2>1, <2>2 DEF Covered, bitmap_to_offset
  <2> QED BY <1>p, <1>u, <2>0, <2>3 DEF Written
<1>14. CASE RemoveGc
  <2>0. off = 0 /\ off' = 0
    BY <1>14, <1>o DEF RemoveGc
  <2> QED BY <1>b, <1>14, <1>e, <1>s, <2>0, GcStep
<1>15. CASE Crash
  <2>1. Faults = {} => off = 0
    BY <1>15, <1>o DEF Crash
  <2>2. cells' = cells /\ magic' = magic /\ bitmap' = bitmap /\ off' = 0
    BY <1>15 DEF Crash
  <2>3. CASE off = 0
    BY <1>s, <2>2, <2>3
  <2>4. CASE off # 0
    BY <1>u, <2>1, <2>2, <2>4 DEF Written
  <2> QED BY <2>3, <2>4
<1>16. CASE UNCHANGED vars
  <2>1. Covered => Covered'
    BY <1>16 DEF vars, Covered, bitmap_to_offset
  <2>2. cells' = cells
    BY <1>16 DEF vars
  <2> QED BY <1>p, <1>u, <2>1, <2>2 DEF Written
<1> QED BY <1>1, <1>2, <1>3, <1>4, <1>5, <1>6, <1>7, <1>8, <1>9, <1>10, <1>11, <1>12,
           <1>13, <1>14, <1>15, <1>16, <1>17, <1>18 DEF Next

LEMMA WrittenAlways == ASSUME CrashOnly PROVE Spec => []Written
<1>1. TypeOK /\ Usage /\ Written /\ [Next]_vars => Written'
  BY WrittenNext
<1> QED BY <1>1, WrittenInit, UsageAlways, TypeCorrect, PTL DEF Spec

(* get_block_write_range trusts the bitmap to "determine range of the data *)
(* already written".  With power failing between calls only, it may: all   *)
(* programmed bytes of the open head are accounted for, for every geometry *)
(* (page size, bits per block) and every sequence of calls and restarts.   *)
THEOREM BitmapCoversHead ==
  ASSUME Faults = {}
  PROVE  Spec => []BitmapCovers
<1>1. CrashOnly
  BY DEF CrashOnly
<1>2. TypeOK /\ Usage /\ Written => BitmapCovers
  <2> SUFFICES ASSUME TypeOK, Usage, Written, pc = "idle", magic[Blk(head)] = HEAD,
                      NEW i \in Offsets, cells[Blk(head)][i] # Blank
               PROVE  i < bitmap_to_offset(bitmap[Blk(head)])
    BY DEF BitmapCovers
  <2>1. off = 0 /\ Covered
    BY DEF Usage, InBlock, Written
  <2>2. Blk(head) \in BlockIds
    BY BlkType DEF TypeOK
  <2> QED BY <2>1, <2>2 DEF Covered
<1> QED BY <1>1, <1>2, UsageAlways, WrittenAlways, TypeCorrect, PTL

-----------------------------------------------------------------------------
(***************************************************************************)
(* The layout of the ring.  Positions count blocks modulo Blocks: from the *)
(* tail up to last there are removed blocks, from there up to the head     *)
(* closed ones, the head is open or closed, and the rest of the ring, one  *)
(* block at least, is erased.                                              *)
(***************************************************************************)
Layout(mg, t, l, h) ==
  /\ t <= l /\ l <= h /\ h - t < Blocks - 1
  /\ \A i \in t .. l - 1 : mg[Blk(i)] = TAIL
  /\ \A i \in l .. h - 1 : mg[Blk(i)] = FIFO
  /\ mg[Blk(h)] \in {HEAD, FIFO}
  /\ \A i \in h + 1 .. t + Blocks - 1 : mg[Blk(i)] = ERASED

(* Positions a whole number of turns apart name the same block ...         *)
LEMMA BlkShift == \A p, k \in Int : Blk(p + Blocks * k) = Blk(p)
<1> SUFFICES ASSUME NEW p \in Int, NEW k \in Int PROVE Blk(p + Blocks * k) = Blk(p)
  OBVIOUS
<1> DEFINE x == p + Blocks * k
           a == p \div Blocks
           b == x \div Blocks
           r == p % Blocks
           q == x % Blocks
<1>0. Blocks \in Nat \ {0} /\ Blocks * k \in Int /\ x \in Int
  BY GeometryAssumption
<1>1. p = Blocks * a + r /\ a \in Int /\ r \in 0 .. Blocks - 1
  BY <1>0, DivMod
<1>2. x = Blocks * b + q /\ b \in Int /\ q \in 0 .. Blocks - 1
  BY <1>0, DivMod
<1> HIDE DEF a, b, r, q
<1>3. Blocks * (a + k - b) = Blocks * a + Blocks * k - Blocks * b
  BY <1>0, <1>1, <1>2
<1>4. Blocks * a \in Int /\ Blocks * b \in Int
  BY <1>0, <1>1, <1>2
<1>5. Blocks * (a + k - b) = q - r
  BY <1>0, <1>1, <1>2, <1>3, <1>4
<1>6. a + k - b = 0
  BY <1>0, <1>1, <1>2, <1>5, Multiples
<1>7. Blocks * (a + k - b) = 0
  BY <1>0, <1>6
<1>8. q = r
  BY <1>1, <1>2, <1>5, <1>7
<1> QED BY <1>8 DEF Blk, q, r

(* ... and only those do.                                                  *)
LEMMA BlkSame ==
  ASSUME NEW i \in Int, NEW j \in Int, Blk(i) = Blk(j)
  PROVE  \E k \in Int : j = i + Blocks * k
<1> DEFINE a == i \div Blocks
           b == j \div Blocks
<1>0. Blocks \in Nat \ {0}
  BY GeometryAssumption
<1>1. i = Blocks * a + (i % Blocks) /\ a \in Int /\ i % Blocks \in 0 .. Blocks - 1
  BY <1>0, DivMod
<1>2. j = Blocks * b + (j % Blocks) /\ b \in Int /\ j % Blocks \in 0 .. Blocks - 1
  BY <1>0, DivMod
<1>3. i % Blocks = j % Blocks
  BY DEF Blk
<1>4. Blocks * (b - a) = Blocks * b - Blocks * a /\ Blocks * a \in Int /\ Blocks * b \in Int
  BY <1>0, <1>1, <1>2
<1> HIDE DEF a, b
<1>5. j = i + Blocks * (b - a)
  BY <1>1, <1>2, <1>3, <1>4
<1>6. b - a \in Int
  BY <1>1, <1>2
<1> QED BY <1>5, <1>6

LEMMA BlkApart ==
  ASSUME NEW i \in Int, NEW j \in Int, i # j, i - j < Blocks, j - i < Blocks
  PROVE  Blk(i) # Blk(j)
<1>1. Blocks \in Nat \ {0}
  BY GeometryAssumption
<1> QED BY <1>1, ModInjective DEF Blk

(* Every turn of the ring meets every block.                               *)
LEMMA BlkWindow ==
  ASSUME NEW t \in Int, NEW b \in BlockIds
  PROVE  \E i \in t .. t + Blocks - 1 : Blk(i) = b
<1> DEFINE r == (b - t) % Blocks
           q == (b - t) \div Blocks
<1>0. Blocks \in Nat \ {0} /\ b \in 0 .. Blocks - 1 /\ b - t \in Int
  BY GeometryAssumption DEF BlockIds
<1>1. b - t = Blocks * q + r /\ q \in Int /\ r \in 0 .. Blocks - 1
  BY <1>0, DivMod
<1>2. Blk(b) = b
  <2> DEFINE c == b \div Blocks
             d == b % Blocks
  <2>1. b = Blocks * c + d /\ c \in Int /\ d \in 0 .. Blocks - 1
    BY <1>0, DivMod
  <2> HIDE DEF c, d
  <2>2. c = 0
    BY <1>0, <2>1, Multiples
  <2>3. Blocks * c = 0
    BY <1>0, <2>2
  <2>4. d = b
    BY <1>0, <2>1, <2>3
  <2> QED BY <2>4 DEF Blk, d
<1> HIDE DEF q, r
<1>3. Blocks * (-q) = -(Blocks * q) /\ Blocks * q \in Int
  BY <1>0, <1>1
<1>4. t + r = b + Blocks * (-q)
  BY <1>0, <1>1, <1>3
<1>5. Blk(t + r) = Blk(b)
  <2>1. b \in Int /\ -q \in Int
    BY <1>0, <1>1
  <2>2. Blk(b + Blocks * (-q)) = Blk(b)
    BY <2>1, BlkShift
  <2> QED BY <1>4, <2>2
<1>6. t + r \in t .. t + Blocks - 1
  BY <1>0, <1>1
<1> QED BY <1>2, <1>5, <1>6

(* find_block returns the first position that matches.                     *)
LEMMA FindBlockIs ==
  ASSUME NEW start \in Int, NEW m, NEW p \in start .. start + Blocks - 1,
         magic[Blk(p)] = m, \A i \in start .. p - 1 : magic[Blk(i)] # m
  PROVE  Matches(start, m) # {} /\ find_block(start, m) = p
<1>0. Blocks \in Nat /\ p \in Int
  BY GeometryAssumption
<1>1. p \in Matches(start, m) /\ \A j \in Matches(start, m) : j \in Int
  BY <1>0 DEF Matches
<1>2. ASSUME NEW j \in Matches(start, m) PROVE p <= j
  <2>1. j \in Int /\ start <= j /\ magic[Blk(j)] = m
    BY <1>0 DEF Matches
  <2>2. j < p => j \in start .. p - 1
    BY <1>0, <2>1
  <2> QED BY <1>0, <2>1, <2>2
<1>3. find_block(start, m) \in Matches(start, m) /\
      \A j \in Matches(start, m) : find_block(start, m) <= j
  BY <1>1, <1>2 DEF find_block
<1>4. find_block(start, m) <= p /\ p <= find_block(start, m)
  BY <1>1, <1>2, <1>3
<1>5. find_block(start, m) \in Int
  BY <1>1, <1>3
<1> QED BY <1>0, <1>1, <1>4, <1>5

LEMMA FindBlockNone ==
  ASSUME NEW start \in Int, NEW m, \A i \in start .. start + Blocks - 1 : magic[Blk(i)] # m
  PROVE  Matches(start, m) = {}
  BY DEF Matches

LEMMA LayoutShift ==
  ASSUME NEW mg, NEW t \in Int, NEW l \in Int, NEW h \in Int, NEW k \in Int,
         Layout(mg, t, l, h)
  PROVE  Layout(mg, t + Blocks * k, l + Blocks * k, h + Blocks * k)
<1> DEFINE K == Blocks * k
<1>0. Blocks \in Nat /\ K \in Int
  BY GeometryAssumption
<1>1. \A p \in Int : Blk(p + K) = Blk(p)
  BY BlkShift
<1> HIDE DEF K
<1>2. \A p \in Int : p - K \in Int /\ Blk(p) = Blk(p - K)
  <2> TAKE p \in Int
  <2>1. p - K \in Int /\ (p - K) + K = p
    BY <1>0
  <2>2. Blk((p - K) + K) = Blk(p - K)
    BY <1>1, <2>1
  <2> QED BY <2>1, <2>2
<1>3. /\ t <= l /\ l <= h /\ h - t < Blocks - 1
      /\ \A i \in t .. l - 1 : mg[Blk(i)] = TAIL
      /\ \A i \in l .. h - 1 : mg[Blk(i)] = FIFO
      /\ mg[Blk(h)] \in {HEAD, FIFO}
      /\ \A i \in h + 1 .. t + Blocks - 1 : mg[Blk(i)] = ERASED
  BY DEF Layout
<1>4. t + K <= l + K /\ l + K <= h + K /\ (h + K) - (t + K) < Blocks - 1
  BY <1>0, <1>3
<1>5. ASSUME NEW i \in t + K .. (l + K) - 1 PROVE mg[Blk(i)] = TAIL
  <2>1. i - K \in t .. l - 1 /\ i \in Int
    BY <1>0
  <2> QED BY <1>2, <1>3, <2>1
<1>6. ASSUME NEW i \in l + K .. (h + K) - 1 PROVE mg[Blk(i)] = FIFO
  <2>1. i - K \in l .. h - 1 /\ i \in Int
    BY <1>0
  <2> QED BY <1>2, <1>3, <2>1
<1>7. mg[Blk(h + K)] \in {HEAD, FIFO}
  BY <1>1, <1>3
<1>8. ASSUME NEW i \in (h + K) + 1 .. (t + K) + Blocks - 1 PROVE mg[Blk(i)] = ERASED
  <2>1. i - K \in h + 1 .. t + Blocks - 1 /\ i \in Int
    BY <1>0
  <2> QED BY <1>2, <1>3, <2>1
<1>9. Layout(mg, t + K, l + K, h + K)
  BY <1>4, <1>5, <1>6, <1>7, <1>8 DEF Layout
<1> QED BY <1>9 DEF K

(***************************************************************************)
(* The scan from an erased block e that lies just before the ring's used   *)
(* part finds its tail, last and head.                                     *)
(***************************************************************************)
LEMMA ScanFrom ==
  ASSUME NEW t \in Int, NEW l \in Int, NEW h \in Int, Layout(magic, t, l, h),
         Matches(0, ERASED) # {},
         find_block(0, ERASED) \in h + 1 - Blocks .. t - 1
  PROVE  find_fifo({}) = ScanResult("OK", h, l, t)
<1> DEFINE e == find_block(0, ERASED)
           hasTail == Found(2, e, TAIL, {})
           s == IF hasTail THEN find_block(e, TAIL) ELSE e
<1>m. /\ TAIL # FIFO /\ TAIL # HEAD /\ TAIL # ERASED
      /\ FIFO # HEAD /\ FIFO # ERASED /\ HEAD # ERASED
  BY DEF TAIL, FIFO, HEAD, ERASED
<1>0. Blocks \in Nat /\ e \in Int /\ h + 1 - Blocks <= e /\ e <= t - 1
  BY GeometryAssumption
<1>1. /\ t <= l /\ l <= h /\ h - t < Blocks - 1
      /\ \A i \in t .. l - 1 : magic[Blk(i)] = TAIL
      /\ \A i \in l .. h - 1 : magic[Blk(i)] = FIFO
      /\ magic[Blk(h)] \in {HEAD, FIFO}
      /\ \A i \in h + 1 .. t + Blocks - 1 : magic[Blk(i)] = ERASED
  BY DEF Layout
<1>t. \A p \in Int : Blk(p + Blocks) = Blk(p)
  <2> TAKE p \in Int
  <2>1. Blk(p + Blocks * 1) = Blk(p) /\ Blocks * 1 = Blocks
    BY <1>0, BlkShift
  <2> QED BY <2>1
<1>2. ASSUME NEW i \in e .. t - 1 PROVE magic[Blk(i)] = ERASED
  <2>1. i \in Int /\ i + Blocks \in h + 1 .. t + Blocks - 1
    BY <1>0
  <2> QED BY <1>1, <1>t, <2>1
<1>f. \A c \in Nat, p \in Int : \A m : Found(c, p, m, {}) <=> Matches(p, m) # {}
  BY DEF Found
<1> HIDE DEF e
<1>3. /\ s \in e .. t
      /\ \A i \in s .. l - 1 : magic[Blk(i)] \in {ERASED, TAIL}
      /\ hasTail => s = t
      /\ ~hasTail => t = l
  <2>1. CASE t < l
    <3>1. t \in e .. e + Blocks - 1 /\ t \in t .. l - 1
      BY <1>0, <1>1, <2>1
    <3>2. magic[Blk(t)] = TAIL /\ \A i \in e .. t - 1 : magic[Blk(i)] # TAIL
      BY <1>1, <1>2, <1>m, <3>1
    <3>3. hasTail /\ find_block(e, TAIL) = t
      BY <1>0, <3>1, <3>2, <1>f, FindBlockIs
    <3>4. s = t
      BY <3>3
    <3> QED BY <1>0, <1>1, <3>3, <3>4
  <2>2. CASE t = l
    <3>1. ASSUME NEW i \in e .. e + Blocks - 1 PROVE magic[Blk(i)] # TAIL
      <4>1. i \in e .. t - 1 \/ i \in l .. h - 1 \/ i = h \/ i \in h + 1 .. t + Blocks - 1
        BY <1>0, <1>1, <2>2
      <4> QED BY <1>1, <1>2, <1>m, <4>1
    <3>2. ~hasTail /\ s = e
      BY <1>0, <3>1, <1>f, FindBlockNone
    <3> QED BY <1>0, <1>1, <1>2, <2>2, <3>2
  <2> QED BY <1>1, <2>1, <2>2
<1> HIDE DEF s, hasTail
<1>4. s \in Int /\ e <= s /\ s <= t
  BY <1>0, <1>3
<1>5. l \in s .. s + Blocks - 1 /\ \A i \in s .. l - 1 : magic[Blk(i)] \notin {FIFO, HEAD}
  BY <1>0, <1>1, <1>3, <1>4, <1>m
<1>6. /\ FindLast(s, {}) = l
      /\ Found(3, s, FIFO, {}) \/ Found(4, s, HEAD, {})
  <2>1. CASE magic[Blk(l)] = FIFO
    <3>1. Matches(s, FIFO) # {} /\ find_block(s, FIFO) = l
      BY <1>4, <1>5, <2>1, FindBlockIs
    <3> QED BY <1>4, <3>1, <1>f DEF FindLast
  <2>2. CASE magic[Blk(l)] # FIFO
    <3>1. l = h /\ magic[Blk(l)] = HEAD
      <4>1. l < h => l \in l .. h - 1
        OBVIOUS
      <4> QED BY <1>1, <2>2, <4>1
    <3>2. Matches(s, HEAD) # {} /\ find_block(s, HEAD) = l
      BY <1>4, <1>5, <3>1, FindBlockIs
    <3>3. ASSUME NEW i \in s .. s + Blocks - 1 PROVE magic[Blk(i)] # FIFO
      <4>1. i \in s .. l - 1 \/ i = l \/ i \in h + 1 .. t + Blocks - 1
        BY <1>0, <1>1, <1>4, <3>1
      <4> QED BY <1>1, <1>5, <1>m, <3>1, <4>1
    <3>4. Matches(s, FIFO) = {}
      BY <1>4, <3>3, FindBlockNone
    <3> QED BY <1>4, <3>2, <3>4, <1>f DEF FindLast
  <2> QED BY <2>1, <2>2
<1>7. find_fifo({}) = FindHead(l, t, {})
  <2>1. Found(1, 0, ERASED, {})
    BY <1>f
  <2>2. find_fifo({}) = FindHead(FindLast(s, {}), IF hasTail THEN s ELSE FindLast(s, {}), {})
    BY <1>6, <2>1 DEF find_fifo, s, hasTail, e
  <2>3. (IF hasTail THEN s ELSE l) = t
    BY <1>3
  <2> QED BY <1>6, <2>2, <2>3
<1>8. CASE magic[Blk(h)] = HEAD
  <2>1. h \in l .. l + Blocks - 1 /\ \A i \in l .. h - 1 : magic[Blk(i)] # HEAD
    BY <1>0, <1>1, <1>m
  <2>2. Matches(l, HEAD) # {} /\ find_block(l, HEAD) = h
    BY <1>8, <2>1, FindBlockIs
  <2> QED BY <1>7, <2>2, <1>f DEF FindHead
<1>9. CASE magic[Blk(h)] = FIFO
  <2>1. ASSUME NEW i \in l .. l + Blocks - 1 PROVE magic[Blk(i)] # HEAD
    <3>1. i \in l .. h - 1 \/ i = h \/ i \in h + 1 .. t + Blocks - 1
          \/ i - Blocks \in t .. l - 1
      BY <1>0, <1>1
    <3>2. CASE i - Blocks \in t .. l - 1
      <4>1. i - Blocks \in Int /\ (i - Blocks) + Blocks = i
        BY <1>0
      <4>2. Blk(i) = Blk(i - Blocks)
        BY <1>t, <4>1
      <4> QED BY <1>1, <1>m, <3>2, <4>2
    <3> QED BY <1>1, <1>9, <1>m, <3>1, <3>2
  <2>2. Matches(l, HEAD) = {}
    BY <2>1, FindBlockNone
  <2>3. h + 1 \in l .. l + Blocks - 1 /\ h + 1 \in h + 1 .. t + Blocks - 1
    BY <1>0, <1>1
  <2>4. ASSUME NEW i \in l .. (h + 1) - 1 PROVE magic[Blk(i)] # ERASED
    <3>1. i \in l .. h - 1 \/ i = h
      OBVIOUS
    <3> QED BY <1>1, <1>9, <1>m, <3>1
  <2>5. Matches(l, ERASED) # {} /\ find_block(l, ERASED) = h + 1
    BY <1>1, <2>3, <2>4, FindBlockIs
  <2>6. find_block(l, ERASED) - 1 = h
    BY <2>5
  <2> QED BY <1>7, <2>2, <2>5, <2>6, <1>f DEF FindHead
<1> QED BY <1>1, <1>8, <1>9

(* find_fifo recovers the ring, up to a number of whole turns.             *)
LEMMA ScanLayout ==
  ASSUME NEW t \in Int, NEW l \in Int, NEW h \in Int, Layout(magic, t, l, h)
  PROVE  \E k \in Int : find_fifo({}) = ScanResult("OK", h + Blocks * k, l + Blocks * k,
                                                   t + Blocks * k)
<1>0. Blocks \in Nat \ {0}
  BY GeometryAssumption
<1>1. /\ t <= l /\ l <= h /\ h - t < Blocks - 1
      /\ \A i \in t .. l - 1 : magic[Blk(i)] = TAIL
      /\ \A i \in l .. h - 1 : magic[Blk(i)] = FIFO
      /\ magic[Blk(h)] \in {HEAD, FIFO}
      /\ \A i \in h + 1 .. t + Blocks - 1 : magic[Blk(i)] = ERASED
  BY DEF Layout
<1>2. Matches(0, ERASED) # {}
  <2>1. h + 1 \in h + 1 .. t + Blocks - 1
    BY <1>0, <1>1
  <2>2. magic[Blk(h + 1)] = ERASED /\ Blk(h + 1) \in BlockIds
    BY <1>1, <2>1, BlkType
  <2>3. PICK i \in 0 .. 0 + Blocks - 1 : Blk(i) = Blk(h + 1)
    BY <2>2, BlkWindow
  <2> QED BY <2>2, <2>3 DEF Matches
<1> DEFINE e == find_block(0, ERASED)
<1>3. e \in Nat /\ magic[Blk(e)] = ERASED
  BY <1>2, FindBlock
<1> HIDE DEF e
<1>4. PICK i \in t .. t + Blocks - 1 : Blk(i) = Blk(e)
  BY <1>3, BlkType, BlkWindow
<1>5. i \in h + 1 .. t + Blocks - 1
  <2>1. i \in t .. l - 1 \/ i \in l .. h - 1 \/ i = h \/ i \in h + 1 .. t + Blocks - 1
    BY <1>0, <1>1
  <2> QED BY <1>1, <1>3, <1>4, <2>1 DEF TAIL, FIFO, HEAD, ERASED
<1>6. PICK k \in Int : e = i + Blocks * k
  BY <1>3, <1>4, BlkSame
<1> DEFINE K == Blocks * (k + 1)
<1>7. K = Blocks * k + Blocks /\ Blocks * k \in Int
  BY <1>0
<1>8. Layout(magic, t + K, l + K, h + K)
  BY LayoutShift
<1> HIDE DEF K
<1>9. K \in Int /\ t + K \in Int /\ l + K \in Int /\ h + K \in Int
  BY <1>0, <1>7
<1>10. e \in (h + K) + 1 - Blocks .. (t + K) - 1
  BY <1>0, <1>5, <1>6, <1>7, <1>9
<1>11. find_fifo({}) = ScanResult("OK", h + K, l + K, t + K)
  BY <1>2, <1>8, <1>9, <1>10, ScanFrom DEF e
<1> QED BY <1>11 DEF K

-----------------------------------------------------------------------------
(* What the handlers do to the layout.                                     *)

LEMMA CloseLayout ==
  ASSUME NEW mg \in [BlockIds -> Magics], NEW t \in Int, NEW l \in Int, NEW h \in Int,
         Layout(mg, t, l, h)
  PROVE  Layout([mg EXCEPT ![Blk(h)] = FIFO], t, l, h)
<1> DEFINE new == [mg EXCEPT ![Blk(h)] = FIFO]
<1>0. Blocks \in Nat /\ t <= l /\ l <= h /\ h - t < Blocks - 1
  BY GeometryAssumption DEF Layout
<1>1. \A i \in Int : Blk(i) \in BlockIds
  BY BlkType
<1>2. ASSUME NEW i \in t .. t + Blocks - 1, i # h PROVE new[Blk(i)] = mg[Blk(i)]
  <2>1. Blk(i) # Blk(h)
    BY <1>0, <1>2, BlkApart
  <2> QED BY <1>1, <2>1
<1>3. new[Blk(h)] = FIFO
  BY <1>1
<1> HIDE DEF new
<1>4. \A i \in t .. l - 1 : new[Blk(i)] = TAIL
  BY <1>0, <1>2 DEF Layout
<1>5. \A i \in l .. h - 1 : new[Blk(i)] = FIFO
  BY <1>0, <1>2 DEF Layout
<1>6. \A i \in h + 1 .. t + Blocks - 1 : new[Blk(i)] = ERASED
  BY <1>0, <1>2 DEF Layout
<1>7. Layout(new, t, l, h)
  BY <1>0, <1>3, <1>4, <1>5, <1>6 DEF Layout
<1> QED BY <1>7 DEF new

(* The second erased block that prepare_head asks for keeps the head from  *)
(* running into the tail.                                                  *)
LEMMA PrepareLayout ==
  ASSUME NEW mg \in [BlockIds -> Magics], NEW t \in Int, NEW l \in Int, NEW h \in Int,
         Layout(mg, t, l, h), mg[Blk(h)] = FIFO,
         mg[Blk(h + 1)] = ERASED, mg[Blk(h + 2)] = ERASED
  PROVE  Layout([mg EXCEPT ![Blk(h + 1)] = HEAD], t, l, h + 1)
<1> DEFINE new == [mg EXCEPT ![Blk(h + 1)] = HEAD]
<1>0. Blocks \in Nat /\ t <= l /\ l <= h /\ h - t < Blocks - 1
  BY GeometryAssumption DEF Layout
<1>1. \A i \in Int : Blk(i) \in BlockIds
  BY BlkType
<1>2. mg[Blk(t)] # ERASED
  <2>1. t \in t .. l - 1 \/ t \in l .. h - 1 \/ t = h
    BY <1>0
  <2> QED BY <2>1 DEF Layout, TAIL, FIFO, HEAD, ERASED
<1>3. h + 2 # t + Blocks
  <2>1. Blocks * 1 = Blocks /\ Blk(t + Blocks * 1) = Blk(t)
    BY <1>0, BlkShift
  <2> QED BY <1>2, <2>1
<1>4. (h + 1) - t < Blocks - 1
  BY <1>0, <1>3
<1>5. ASSUME NEW i \in t .. t + Blocks - 1, i # h + 1 PROVE new[Blk(i)] = mg[Blk(i)]
  <2>1. Blk(i) # Blk(h + 1)
    BY <1>0, <1>4, <1>5, BlkApart
  <2> QED BY <1>1, <2>1
<1>6. new[Blk(h + 1)] = HEAD
  BY <1>1 DEF HEAD, Magics, TAIL, ERASED
<1> HIDE DEF new
<1>7. \A i \in t .. l - 1 : new[Blk(i)] = TAIL
  BY <1>0, <1>5 DEF Layout
<1>8. ASSUME NEW i \in l .. (h + 1) - 1 PROVE new[Blk(i)] = FIFO
  <2>1. new[Blk(i)] = mg[Blk(i)]
    BY <1>0, <1>5
  <2>2. i \in l .. h - 1 \/ i = h
    BY <1>0
  <2> QED BY <2>1, <2>2 DEF Layout
<1>9. ASSUME NEW i \in (h + 1) + 1 .. t + Blocks - 1 PROVE new[Blk(i)] = ERASED
  <2>1. i \in h + 1 .. t + Blocks - 1 /\ i \in t .. t + Blocks - 1 /\ i # h + 1
    BY <1>0
  <2> QED BY <1>5, <2>1 DEF Layout
<1>10. Layout(new, t, l, h + 1)
  BY <1>0, <1>4, <1>6, <1>7, <1>8, <1>9 DEF Layout
<1> QED BY <1>10 DEF new

LEMMA RemoveLayout ==
  ASSUME NEW mg \in [BlockIds -> Magics], NEW t \in Int, NEW l \in Int, NEW h \in Int,
         Layout(mg, t, l, h), l < h
  PROVE  Layout([mg EXCEPT ![Blk(l)] = TAIL], t, l + 1, h)
<1> DEFINE new == [mg EXCEPT ![Blk(l)] = TAIL]
<1>0. Blocks \in Nat /\ t <= l /\ l <= h /\ h - t < Blocks - 1
  BY GeometryAssumption DEF Layout
<1>1. \A i \in Int : Blk(i) \in BlockIds
  BY BlkType
<1>2. ASSUME NEW i \in t .. t + Blocks - 1, i # l PROVE new[Blk(i)] = mg[Blk(i)]
  <2>1. Blk(i) # Blk(l)
    BY <1>0, <1>2, BlkApart
  <2> QED BY <1>1, <2>1
<1>3. new[Blk(l)] = TAIL
  BY <1>1
<1> HIDE DEF new
<1>4. ASSUME NEW i \in t .. (l + 1) - 1 PROVE new[Blk(i)] = TAIL
  <2>1. i = l \/ (i \in t .. l - 1 /\ i # l /\ i \in t .. t + Blocks - 1)
    BY <1>0
  <2> QED BY <1>2, <1>3, <2>1 DEF Layout
<1>5. ASSUME NEW i \in l + 1 .. h - 1 PROVE new[Blk(i)] = FIFO
  <2>1. i \in l .. h - 1 /\ i # l /\ i \in t .. t + Blocks - 1
    BY <1>0
  <2> QED BY <1>2, <2>1 DEF Layout
<1>6. new[Blk(h)] \in {HEAD, FIFO}
  <2>1. h # l /\ h \in t .. t + Blocks - 1
    BY <1>0
  <2> QED BY <1>2, <2>1 DEF Layout
<1>7. ASSUME NEW i \in h + 1 .. t + Blocks - 1 PROVE new[Blk(i)] = ERASED
  <2>1. i # l /\ i \in t .. t + Blocks - 1
    BY <1>0
  <2> QED BY <1>2, <2>1 DEF Layout
<1>8. l + 1 <= h /\ t <= l + 1
  BY <1>0
<1>9. Layout(new, t, l + 1, h)
  BY <1>0, <1>4, <1>5, <1>6, <1>7, <1>8 DEF Layout
<1> QED BY <1>9 DEF new

LEMMA GcLayout ==
  ASSUME NEW mg \in [BlockIds -> Magics], NEW t \in Int, NEW l \in Int, NEW h \in Int,
         Layout(mg, t, l, h), mg[Blk(t)] = TAIL
  PROVE  t < l /\ Layout([mg EXCEPT ![Blk(t)] = ERASED], t + 1, l, h)
<1> DEFINE new == [mg EXCEPT ![Blk(t)] = ERASED]
<1>0. Blocks \in Nat /\ t <= l /\ l <= h /\ h - t < Blocks - 1
  BY GeometryAssumption DEF Layout
<1>1. \A i \in Int : Blk(i) \in BlockIds
  BY BlkType
<1>2. t < l
  <2>1. t \in t .. l - 1 \/ (t = l /\ (t \in l .. h - 1 \/ t = h))
    BY <1>0
  <2>2. t \in l .. h - 1 \/ t = h => mg[Blk(t)] # TAIL
    BY DEF Layout, TAIL, FIFO, HEAD
  <2> QED BY <2>1, <2>2
<1>3. ASSUME NEW i \in t .. t + Blocks - 1, i # t PROVE new[Blk(i)] = mg[Blk(i)]
  <2>1. Blk(i) # Blk(t)
    BY <1>0, <1>3, BlkApart
  <2> QED BY <1>1, <2>1
<1>4. new[Blk(t)] = ERASED
  BY <1>1
<1> HIDE DEF new
<1>5. ASSUME NEW i \in t + 1 .. l - 1 PROVE new[Blk(i)] = TAIL
  <2>1. i \in t .. l - 1 /\ i # t /\ i \in t .. t + Blocks - 1
    BY <1>0
  <2> QED BY <1>3, <2>1 DEF Layout
<1>6. ASSUME NEW i \in l .. h - 1 PROVE new[Blk(i)] = FIFO
  <2>1. i # t /\ i \in t .. t + Blocks - 1
    BY <1>0, <1>2
  <2> QED BY <1>3, <2>1 DEF Layout
<1>7. new[Blk(h)] \in {HEAD, FIFO}
  <2>1. h # t /\ h \in t .. t + Blocks - 1
    BY <1>0, <1>2
  <2> QED BY <1>3, <2>1 DEF Layout
<1>8. ASSUME NEW i \in h + 1 .. (t + 1) + Blocks - 1 PROVE new[Blk(i)] = ERASED
  <2>1. CASE i = t + Blocks
    <3>1. Blocks * 1 = Blocks /\ Blk(t + Blocks * 1) = Blk(t)
      BY <1>0, BlkShift
    <3> QED BY <1>4, <2>1, <3>1
  <2>2. CASE i # t + Blocks
    <3>1. i # t /\ i \in h + 1 .. t + Blocks - 1 /\ i \in t .. t + Blocks - 1
      BY <1>0, <2>2
    <3> QED BY <1>3, <3>1 DEF Layout
  <2> QED BY <2>1, <2>2
<1>9. t + 1 <= l /\ h - (t + 1) < Blocks - 1
  BY <1>0, <1>2
<1>10. Layout(new, t + 1, l, h)
  BY <1>0, <1>5, <1>6, <1>7, <1>8, <1>9 DEF Layout
<1> QED BY <1>2, <1>10 DEF new

-----------------------------------------------------------------------------
(***************************************************************************)
(* The volume was prepared before its first use, or is formatted with the  *)
(* power on (EMPTY, a volume erased but never given a head, is taken for a *)
(* FIFO by flash_fifo_init), callers remove only blocks they read from,    *)
(* and flash operations work; power may fail between any two of them.      *)
(***************************************************************************)
WellUsed ==
  /\ Disciplined = TRUE
  /\ CrashOnly
  /\ Images \subseteq {"dirty", "formatted"}
  /\ "dirty" \in Images => Faults = {}

(* While the service runs the flash has the layout that the RAM copies of  *)
(* tail, last and head describe; while it does not, it has one that the    *)
(* scan can recover, or flash_fifo_format is on its way.                   *)
AllMagic(S) == \A b \in BlockIds : magic[b] \in S

Ring ==
  /\ Running => Layout(magic, tail, last, head)
  /\ pc = "off" => \/ Faults = {} /\ AllMagic({TAIL})
                   \/ \E t, l, h \in Int : Layout(magic, t, l, h)
  /\ pc = "erase" => /\ Faults = {} /\ AllMagic({TAIL, ERASED})
                     /\ \A b \in BlockIds : b < idx => magic[b] = ERASED
  /\ pc = "format" => Faults = {} /\ AllMagic({ERASED})
  /\ pc = "rescan" => Faults = {} /\ Layout(magic, 0, 0, 0)
  /\ pc # "dead"
  /\ pc = "prepare" => magic[Blk(head)] = FIFO
  /\ pc \in {"range", "fetch", "advance"} => last < head
  /\ sawData = TRUE => Running /\ last < head

LEMMA HeadOnlyLayout ==
  ASSUME NEW mg, mg[Blk(0)] = HEAD,
         \A b \in BlockIds : b # Blk(0) => mg[b] = ERASED
  PROVE  Layout(mg, 0, 0, 0)
<1>0. Blocks \in Nat /\ Blocks >= 2
  BY GeometryAssumption
<1>1. ASSUME NEW i \in 0 + 1 .. 0 + Blocks - 1 PROVE mg[Blk(i)] = ERASED
  <2>1. i \in Int /\ 0 \in Int /\ i # 0 /\ i - 0 < Blocks /\ 0 - i < Blocks
    BY <1>0
  <2>2. Blk(i) # Blk(0)
    BY <2>1, BlkApart
  <2> QED BY <2>1, <2>2, BlkType
<1> QED BY <1>0, <1>1 DEF Layout

LEMMA ZeroBlock == Blk(0) = 0 /\ 0 \in BlockIds
  BY GeometryAssumption DEF Blk, BlockIds

LEMMA RingInit == ASSUME WellUsed PROVE Init => Ring
<1> SUFFICES ASSUME Init PROVE Ring
  OBVIOUS
<1>1. PICK kind \in Images : magic = Image(kind)
  BY DEF Init
<1>2. pc = "off" /\ sawData = FALSE
  BY DEF Init
<1>3. CASE kind = "dirty"
  <2>1. Faults = {}
    BY <1>3 DEF WellUsed
  <2>2. AllMagic({TAIL})
    BY <1>1, <1>3 DEF Image, AllMagic
  <2> QED BY <1>2, <2>1, <2>2 DEF Ring, Running
<1>4. CASE kind = "formatted"
  <2>1. magic = [b \in BlockIds |-> IF b = 0 THEN HEAD ELSE ERASED]
    BY <1>1, <1>4 DEF Image
  <2>2. magic[Blk(0)] = HEAD /\ \A b \in BlockIds : b # Blk(0) => magic[b] = ERASED
    BY <2>1, ZeroBlock
  <2>3. Layout(magic, 0, 0, 0)
    BY <2>2, HeadOnlyLayout
  <2>4. \E t, l, h \in Int : Layout(magic, t, l, h)
    BY <2>3
  <2> QED BY <1>2, <2>4 DEF Ring, Running
<1> QED BY <1>3, <1>4 DEF WellUsed

(* The scan of a volume with a layout restores it.                         *)
LEMMA ScanRestores ==
  ASSUME NEW t \in Int, NEW l \in Int, NEW h \in Int, Layout(magic, t, l, h)
  PROVE  LET scan == find_fifo({})
         IN  scan.ret = "OK" /\ Layout(magic, scan.tail, scan.last, scan.head)
<1>1. PICK k \in Int : find_fifo({}) = ScanResult("OK", h + Blocks * k, l + Blocks * k,
                                                  t + Blocks * k)
  BY ScanLayout
<1>2. Layout(magic, t + Blocks * k, l + Blocks * k, h + Blocks * k)
  BY LayoutShift
<1> QED BY <1>1, <1>2 DEF ScanResult

(* The scan of a volume without a head or a closed block finds no FIFO.    *)
LEMMA ScanNothing ==
  ASSUME AllMagic({TAIL, ERASED})
  PROVE  find_fifo({}).ret # "OK" /\ (AllMagic({TAIL}) => find_fifo({}).ret = "FAILED")
<1>m. /\ TAIL # FIFO /\ TAIL # HEAD /\ TAIL # ERASED
      /\ FIFO # HEAD /\ FIFO # ERASED /\ HEAD # ERASED
  BY DEF TAIL, FIFO, HEAD, ERASED
<1>0. Blocks \in Nat
  BY GeometryAssumption
<1>1. ASSUME NEW s \in Int PROVE Matches(s, FIFO) = {} /\ Matches(s, HEAD) = {}
  <2>1. \A i \in s .. s + Blocks - 1 : magic[Blk(i)] \in {TAIL, ERASED}
    BY <1>0, BlkType DEF AllMagic
  <2> QED BY <1>m, <2>1 DEF Matches
<1>2. AllMagic({TAIL}) => Matches(0, ERASED) = {}
  <2> SUFFICES ASSUME AllMagic({TAIL}) PROVE Matches(0, ERASED) = {}
    OBVIOUS
  <2>1. \A i \in 0 .. 0 + Blocks - 1 : magic[Blk(i)] = TAIL
    BY <1>0, BlkType DEF AllMagic
  <2> QED BY <1>m, <2>1 DEF Matches
<1> DEFINE e == find_block(0, ERASED)
           hasTail == Found(2, e, TAIL, {})
           s == IF hasTail THEN find_block(e, TAIL) ELSE e
<1>3. CASE ~Found(1, 0, ERASED, {})
  BY <1>3 DEF find_fifo, ScanResult
<1>4. CASE Found(1, 0, ERASED, {})
  <2>1. e \in Nat
    BY <1>4, FindBlock DEF Found
  <2>2. s \in Int
    BY <2>1, FindBlock DEF Found
  <2>3. ~Found(3, s, FIFO, {}) /\ ~Found(4, s, HEAD, {})
    BY <1>1, <2>2 DEF Found
  <2>4. find_fifo({}) = ScanResult(IF hasTail THEN "FAILED" ELSE "EMPTY", 0, 0, 0)
    BY <1>4, <2>3 DEF find_fifo
  <2>5. find_fifo({}).ret = IF hasTail THEN "FAILED" ELSE "EMPTY"
    BY <2>4 DEF ScanResult
  <2>6. ~AllMagic({TAIL})
    BY <1>2, <1>4 DEF Found
  <2> QED BY <2>5, <2>6
<1> QED BY <1>3, <1>4

LEMMA RingNext ==
  ASSUME WellUsed, TypeOK, Ring, [Next]_vars
  PROVE  Ring'
<1> USE DEF flashVars, ramVars, callVars, ghostVars
<1>w. CrashOnly /\ Disciplined = TRUE
  BY DEF WellUsed
<1>0. /\ magic \in [BlockIds -> Magics]
      /\ head \in Int /\ last \in Int /\ tail \in Int /\ idx \in BlockIds
  BY DEF TypeOK
<1>b. Blk(head) \in BlockIds /\ Blk(last) \in BlockIds /\ Blk(tail) \in BlockIds
  BY <1>0, BlkType
<1>m. /\ TAIL # FIFO /\ TAIL # HEAD /\ TAIL # ERASED
      /\ FIFO # HEAD /\ FIFO # ERASED /\ HEAD # ERASED
  BY DEF TAIL, FIFO, HEAD, ERASED
<1>r. /\ Running => Layout(magic, tail, last, head)
      /\ pc # "dead"
      /\ pc = "prepare" => magic[Blk(head)] = FIFO
      /\ pc \in {"range", "fetch", "advance"} => last < head
      /\ sawData = TRUE => Running /\ last < head
  BY DEF Ring
<1>1. CASE InitScan
  <2>0. /\ pc = "off" /\ magic' = magic /\ idx' = 0 /\ sawData' = sawData
        /\ Adopt(find_fifo({}))
        /\ pc' = IF find_fifo({}).ret = "FAILED" THEN "erase" ELSE "idle"
    BY <1>1, <1>w, NoFaults DEF InitScan
  <2>1. sawData # TRUE
    BY <1>r, <2>0 DEF Running
  <2>2. CASE Faults = {} /\ AllMagic({TAIL})
    <3>1. find_fifo({}).ret = "FAILED" /\ AllMagic({TAIL, ERASED})
      <4>1. AllMagic({TAIL, ERASED})
        BY <2>2 DEF AllMagic
      <4> QED BY <2>2, <4>1, ScanNothing
    <3>2. \A b \in BlockIds : ~(b < 0)
      BY GeometryAssumption DEF BlockIds
    <3>3. pc' = "erase" /\ AllMagic({TAIL, ERASED})'
      BY <2>0, <3>1 DEF AllMagic
    <3> QED BY <2>0, <2>1, <2>2, <3>2, <3>3 DEF Ring, Running
  <2>3. CASE \E t, l, h \in Int : Layout(magic, t, l, h)
    <3>1. PICK t \in Int, l \in Int, h \in Int : Layout(magic, t, l, h)
      BY <2>3
    <3>2. /\ find_fifo({}).ret = "OK"
          /\ Layout(magic, find_fifo({}).tail, find_fifo({}).last, find_fifo({}).head)
      BY <3>1, ScanRestores
    <3>3. pc' = "idle" /\ Layout(magic', tail', last', head')
      BY <2>0, <3>2 DEF Adopt
    <3> QED BY <2>0, <2>1, <3>3 DEF Ring, Running
  <2> QED BY <2>0, <2>2, <2>3 DEF Ring
<1>2. CASE FormatErase
  <2>0. /\ pc = "erase" /\ Erase(idx) /\ idx' = (idx + 1) % Blocks /\ sawData' = sawData
        /\ pc' = IF idx = Blocks - 1 THEN "format" ELSE "erase"
    BY <1>2, <1>w, FormatEraseStep
  <2>1. Faults = {} /\ AllMagic({TAIL, ERASED}) /\ sawData # TRUE
        /\ \A b \in BlockIds : b < idx => magic[b] = ERASED
    BY <1>r, <2>0 DEF Ring, Running
  <2>2. magic'[idx] = ERASED /\ \A b \in BlockIds : b # idx => magic'[b] = magic[b]
    BY <1>0, <2>0 DEF Erase
  <2>3. AllMagic({TAIL, ERASED})'
    BY <2>1, <2>2 DEF AllMagic
  <2>4. \A b \in BlockIds : b < idx + 1 => magic'[b] = ERASED
    <3> SUFFICES ASSUME NEW b \in BlockIds, b < idx + 1 PROVE magic'[b] = ERASED
      OBVIOUS
    <3>1. b = idx \/ b < idx
      BY <1>0 DEF BlockIds
    <3> QED BY <2>1, <2>2, <3>1
  <2>5. CASE idx = Blocks - 1
    <3>1. \A b \in BlockIds : b < idx + 1
      BY <2>5, GeometryAssumption DEF BlockIds
    <3>2. pc' = "format" /\ AllMagic({ERASED})'
      BY <2>0, <2>4, <2>5, <3>1 DEF AllMagic
    <3> QED BY <2>0, <2>1, <3>2 DEF Ring, Running
  <2>6. CASE idx # Blocks - 1
    <3>1. (idx + 1) % Blocks = idx + 1
      <4>1. idx + 1 \in 0 .. Blocks - 1
        BY <1>0, <2>6, GeometryAssumption DEF BlockIds
      <4> QED BY <4>1, GeometryAssumption
    <3>2. pc' = "erase" /\ idx' = idx + 1
      BY <2>0, <2>6, <3>1
    <3> QED BY <2>0, <2>1, <2>3, <2>4, <3>2 DEF Ring, Running
  <2> QED BY <2>5, <2>6
<1>3. CASE FormatHead
  <2>0. pc = "format" /\ pc' = "rescan" /\ sawData' = sawData
    BY <1>3 DEF FormatHead
  <2>1. Faults = {} /\ AllMagic({ERASED}) /\ sawData # TRUE
    BY <1>r, <2>0 DEF Ring, Running
  <2>2. prepare_head(0, TRUE, TRUE, TRUE)
    BY <1>3, <1>w, FormatHeadStep
  <2>3. magic[Blk(0)] = ERASED /\ magic[Blk(0 + 1)] = ERASED
    BY <2>1, BlkType DEF AllMagic
  <2>4. HeadAllowed(0, TRUE, TRUE)
    BY <2>3 DEF HeadAllowed, read_header
  <2>5. 0 \in Int
    OBVIOUS
  <2>6. magic' = [magic EXCEPT ![Blk(0)] = HEAD]
    BY <2>2, <2>4, <2>5, PrepareStep, Zenon
  <2>7. magic'[Blk(0)] = HEAD /\ \A b \in BlockIds : b # Blk(0) => magic'[b] = ERASED
    BY <1>0, <2>1, <2>6, ZeroBlock DEF AllMagic
  <2>8. Layout(magic', 0, 0, 0)
    BY <2>7, HeadOnlyLayout
  <2> QED BY <2>0, <2>1, <2>8 DEF Ring, Running
<1>4. CASE InitRescan
  <2>0. /\ pc = "rescan" /\ magic' = magic /\ sawData' = sawData
        /\ Adopt(find_fifo({}))
        /\ pc' = IF find_fifo({}).ret = "OK" THEN "idle" ELSE "dead"
    BY <1>4, <1>w, NoFaults DEF InitRescan
  <2>1. Layout(magic, 0, 0, 0) /\ sawData # TRUE
    BY <1>r, <2>0 DEF Ring, Running
  <2>2. /\ find_fifo({}).ret = "OK"
        /\ Layout(magic, find_fifo({}).tail, find_fifo({}).last, find_fifo({}).head)
    BY <2>1, ScanRestores
  <2>3. pc' = "idle" /\ Layout(magic', tail', last', head')
    BY <2>0, <2>2 DEF Adopt
  <2> QED BY <2>0, <2>1, <2>3 DEF Ring, Running
<1>5. CASE \E len \in WriteLens : FsWrite(len)
  BY <1>5, <1>r DEF FsWrite, Ring, Running
<1>6. CASE WriteData
  <2>1. /\ pc = "data" /\ pc' \in {"data", "usage"}
        /\ UNCHANGED <<magic, tail, last, head, sawData>>
    BY <1>6 DEF WriteData
  <2> QED BY <1>r, <2>1 DEF Ring, Running
<1>7. CASE WriteUsage
  <2>1. /\ pc = "usage" /\ pc' \in {"close", "idle"} /\ magic' = magic
        /\ UNCHANGED <<tail, last, head, sawData>>
    BY <1>7, <1>w, UsageStep DEF WriteUsage
  <2> QED BY <1>r, <2>1 DEF Ring, Running
<1>8. CASE WriteClose
  <2>0. /\ pc = "close" /\ pc' = "prepare"
        /\ UNCHANGED <<tail, last, head, sawData>>
    BY <1>8 DEF WriteClose
  <2>1. Layout(magic, tail, last, head)
    BY <1>r, <2>0 DEF Running
  <2>2. /\ magic[Blk(head)] = HEAD => magic' = [magic EXCEPT ![Blk(head)] = FIFO]
        /\ magic[Blk(head)] # HEAD => magic' = magic
    BY <1>8, <1>w, CloseStep
  <2>3. Layout(magic', tail, last, head) /\ magic'[Blk(head)] = FIFO
    <3>1. CASE magic[Blk(head)] = HEAD
      BY <1>0, <1>b, <2>1, <2>2, <3>1, CloseLayout
    <3>2. CASE magic[Blk(head)] # HEAD
      BY <2>1, <2>2, <3>2 DEF Layout
    <3> QED BY <3>1, <3>2
  <2> QED BY <1>r, <2>0, <2>3 DEF Ring, Running
<1>9. CASE WritePrepare
  <2>0. pc = "prepare" /\ pc' = "idle" /\ UNCHANGED <<tail, last, sawData>>
    BY <1>9 DEF WritePrepare
  <2>1. Layout(magic, tail, last, head) /\ magic[Blk(head)] = FIFO
    BY <1>r, <2>0 DEF Running
  <2>p. head + 1 \in Int
    BY <1>0
  <2>2. /\ prepare_head(head + 1, TRUE, TRUE, TRUE)
        /\ head' = IF HeadAllowed(head + 1, TRUE, TRUE) THEN head + 1 ELSE head
    BY <1>9, <1>w, PrepareHeadStep, Zenon
  <2>3. CASE HeadAllowed(head + 1, TRUE, TRUE)
    <3>1. /\ magic[Blk(head + 1)] = ERASED /\ magic[Blk((head + 1) + 1)] = ERASED
          /\ magic' = [magic EXCEPT ![Blk(head + 1)] = HEAD]
      BY <2>p, <2>2, <2>3, PrepareStep
    <3>2. (head + 1) + 1 = head + 2 /\ head' = head + 1
      BY <1>0, <2>2, <2>3
    <3>3. Layout(magic', tail, last, head')
      BY <1>0, <2>1, <3>1, <3>2, PrepareLayout
    <3>4. sawData = TRUE => last < head'
      BY <1>0, <1>r, <3>2
    <3> QED BY <2>0, <3>3, <3>4 DEF Ring, Running
  <2>4. CASE ~HeadAllowed(head + 1, TRUE, TRUE)
    <3>1. magic' = magic /\ head' = head
      BY <2>p, <2>2, <2>4, PrepareStep
    <3> QED BY <1>r, <2>0, <2>1, <3>1 DEF Ring, Running
  <2> QED BY <2>3, <2>4
<1>10. CASE FsOpen
  BY <1>10, <1>r DEF FsOpen, Ring, Running
<1>11. CASE \E len \in ReadLens : FsRead(len)
  <2>1. /\ pc = "idle" /\ pc' = "range" /\ head # last
        /\ UNCHANGED <<magic, tail, last, head, sawData>>
    BY <1>11 DEF FsRead
  <2>2. Layout(magic, tail, last, head)
    BY <1>r, <2>1 DEF Running
  <2>3. last < head
    BY <1>0, <2>1, <2>2 DEF Layout
  <2> QED BY <1>r, <2>1, <2>2, <2>3 DEF Ring, Running
<1>17. CASE ReadRange \/ ReadData
  <2>1. /\ pc \in {"range", "fetch"} /\ pc' \in {"idle", "fetch", "advance"}
        /\ UNCHANGED <<magic, tail, last, head, sawData>>
    BY <1>17 DEF ReadRange, ReadData
  <2> QED BY <1>r, <2>1 DEF Ring, Running
<1>12. CASE ReadAdvance
  <2>1. /\ pc = "advance" /\ pc' = "idle"
        /\ UNCHANGED <<magic, tail, last, head>>
    BY <1>12 DEF ReadAdvance
  <2> QED BY <1>r, <2>1 DEF Ring, Running
<1>13. CASE FsRemove
  <2>0. /\ pc = "idle" /\ pc' = "gc1" /\ last' = last + 1 /\ sawData' = FALSE
        /\ UNCHANGED <<head, tail>>
    BY <1>13 DEF FsRemove
  <2>1. Layout(magic, tail, last, head) /\ last < head
    BY <1>13, <1>r, <1>w, <2>0 DEF FsRemove, Running
  <2>2. magic' = [magic EXCEPT ![Blk(last)] = TAIL]
    BY <1>13, <1>w, RemoveStep
  <2>3. Layout(magic', tail, last + 1, head)
    BY <1>0, <2>1, <2>2, RemoveLayout
  <2> QED BY <2>0, <2>3 DEF Ring, Running
<1>14. CASE RemoveGc
  <2>0. /\ pc \in {"gc1", "gc2"} /\ pc' \in {"gc2", "idle"}
        /\ UNCHANGED <<head, last, sawData>>
    BY <1>14 DEF RemoveGc
  <2>1. Layout(magic, tail, last, head)
    BY <1>r, <2>0 DEF Running
  <2>2. Layout(magic', tail', last, head)
    <3>1. CASE magic[Blk(tail)] = TAIL /\ Erase(Blk(tail)) /\ tail' = tail + 1
      <4>1. magic' = [magic EXCEPT ![Blk(tail)] = ERASED]
        BY <3>1 DEF Erase
      <4> QED BY <1>0, <2>1, <3>1, <4>1, GcLayout
    <3>2. CASE UNCHANGED <<magic, bitmap, cells, tail>>
      BY <2>1, <3>2
    <3> QED BY <1>14, <1>w, <3>1, <3>2, GcStep
  <2> QED BY <1>r, <2>0, <2>2 DEF Ring, Running
<1>15. CASE Crash
  <2>0. /\ pc' = "off" /\ magic' = magic /\ sawData' = FALSE
        /\ pc # "off" /\ (pc \in {"idle", "dead"} \/ "crash" \in Faults)
    BY <1>15 DEF Crash
  <2>1. Running
    BY <1>r, <2>0 DEF Ring, Running, TypeOK, Pcs
  <2>2. \E t, l, h \in Int : Layout(magic', t, l, h)
    BY <1>0, <1>r, <2>0, <2>1
  <2> QED BY <2>0, <2>2 DEF Ring, Running
<1>16. CASE UNCHANGED vars
  BY <1>16 DEF vars, Ring, Running, AllMagic
<1> QED BY <1>1, <1>2, <1>3, <1>4, <1>5, <1>6, <1>7, <1>8, <1>9, <1>10, <1>11, <1>12,
           <1>13, <1>14, <1>15, <1>16, <1>17 DEF Next

LEMMA RingAlways == ASSUME WellUsed PROVE Spec => []Ring
<1>1. TypeOK /\ Ring /\ [Next]_vars => Ring'
  BY RingNext
<1> QED BY <1>1, RingInit, TypeCorrect, PTL DEF Spec

(* tail, last and head keep their order and never lap each other: the      *)
(* unsigned head - tail of fs_info does not wrap, whatever is written,     *)
(* read and removed, and wherever power fails.                             *)
THEOREM RingKeepsOrder ==
  ASSUME WellUsed
  PROVE  Spec => []RingOrder
<1>1. TypeOK /\ Ring => RingOrder
  <2> SUFFICES ASSUME TypeOK, Ring, Running
               PROVE  tail <= last /\ last <= head /\ head - tail < Blocks
    BY DEF RingOrder
  <2>1. tail <= last /\ last <= head /\ head - tail < Blocks - 1
    BY DEF Ring, Layout
  <2> QED BY <2>1, GeometryAssumption DEF TypeOK
<1> QED BY <1>1, RingAlways, TypeCorrect, PTL

(* A restart between two calls finds the FIFO that the RAM copy described: *)
(* find_fifo recovers the same head, last and tail blocks.                 *)
THEOREM ScanRecovers ==
  ASSUME WellUsed
  PROVE  Spec => []RecoveryAgrees
<1>1. TypeOK /\ Ring => RecoveryAgrees
  <2> SUFFICES ASSUME TypeOK, Ring, pc = "idle"
               PROVE  /\ find_fifo({}).ret = "OK"
                      /\ Blk(find_fifo({}).head) = Blk(head)
                      /\ Blk(find_fifo({}).last) = Blk(last)
                      /\ Blk(find_fifo({}).tail) = Blk(tail)
    BY DEF RecoveryAgrees
  <2>1. head \in Int /\ last \in Int /\ tail \in Int
    BY DEF TypeOK
  <2>2. Layout(magic, tail, last, head)
    BY DEF Ring, Running
  <2>3. PICK k \in Int : find_fifo({}) = ScanResult("OK", head + Blocks * k, last + Blocks * k,
                                                    tail + Blocks * k)
    BY <2>1, <2>2, ScanLayout
  <2>4. /\ Blk(head + Blocks * k) = Blk(head) /\ Blk(last + Blocks * k) = Blk(last)
        /\ Blk(tail + Blocks * k) = Blk(tail)
    BY <2>1, BlkShift
  <2> QED BY <2>3, <2>4 DEF ScanResult
<1> QED BY <1>1, RingAlways, TypeCorrect, PTL

(* flash_fifo_read: the block it reads is closed and not yet removed.      *)
THEOREM ReadsOnlyClosed ==
  ASSUME WellUsed
  PROVE  Spec => []ReadsClosedBlock
<1>1. TypeOK /\ Ring => ReadsClosedBlock
  <2> SUFFICES ASSUME TypeOK, Ring, pc = "advance" PROVE magic[Blk(last)] = FIFO
    BY DEF ReadsClosedBlock
  <2>1. last \in Int /\ head \in Int /\ last < head /\ Layout(magic, tail, last, head)
    BY DEF Ring, Running, TypeOK
  <2>2. last \in last .. head - 1
    BY <2>1
  <2> QED BY <2>1, <2>2 DEF Layout
<1> QED BY <1>1, RingAlways, TypeCorrect, PTL

(* A flash with a layout shows its head's magic in one block at most.      *)
LEMMA LayoutOneHead ==
  ASSUME NEW t \in Int, NEW l \in Int, NEW h \in Int, Layout(magic, t, l, h),
         NEW b \in BlockIds, magic[b] = HEAD
  PROVE  b = Blk(h)
<1>0. Blocks \in Nat /\ t <= l /\ l <= h
  BY GeometryAssumption DEF Layout
<1>1. PICK i \in t .. t + Blocks - 1 : Blk(i) = b
  BY BlkWindow
<1>2. i \in t .. l - 1 \/ i \in l .. h - 1 \/ i = h \/ i \in h + 1 .. t + Blocks - 1
  BY <1>0
<1> QED BY <1>1, <1>2 DEF Layout, TAIL, FIFO, HEAD, ERASED

(* find_fifo: "No multiple heads, sorry".  In every reachable state, in    *)
(* the middle of a call or after a power failure anywhere in one, at most  *)
(* one block carries the magic of an open head.                            *)
THEOREM AtMostOneHead ==
  ASSUME WellUsed
  PROVE  Spec => []OneHead
<1>1. TypeOK /\ Ring => OneHead
  <2> SUFFICES ASSUME TypeOK, Ring PROVE OneHead
    OBVIOUS
  <2> DEFINE Heads == {b \in BlockIds : magic[b] = HEAD}
  <2>1. \E a \in BlockIds : Heads \subseteq {a}
    <3>1. CASE \E t, l, h \in Int : Layout(magic, t, l, h)
      <4>1. PICK t \in Int, l \in Int, h \in Int : Layout(magic, t, l, h)
        BY <3>1
      <4>2. \A b \in Heads : b = Blk(h)
        BY <4>1, LayoutOneHead
      <4> QED BY <4>2, BlkType
    <3>2. CASE ~ \E t, l, h \in Int : Layout(magic, t, l, h)
      <4>1. ~Running /\ pc # "rescan" /\ pc # "dead"
        BY <3>2 DEF Ring, TypeOK
      <4>2. pc \in {"off", "erase", "format"}
        BY <4>1 DEF Running
      <4>3. AllMagic({TAIL, ERASED})
        BY <3>2, <4>2 DEF Ring, AllMagic
      <4>4. Heads = {}
        BY <4>3 DEF AllMagic, TAIL, HEAD, ERASED
      <4> QED BY <4>4, ZeroBlock
    <3> QED BY <3>1, <3>2
  <2>2. PICK a \in BlockIds : Heads \subseteq {a}
    BY <2>1
  <2>3. IsFiniteSet({a}) /\ Cardinality({a}) = 1
    BY FS_Singleton
  <2>4. Cardinality(Heads) <= Cardinality({a})
    BY <2>2, <2>3, FS_Subset
  <2> QED BY <2>3, <2>4 DEF OneHead
<1> QED BY <1>1, RingAlways, TypeCorrect, PTL

-----------------------------------------------------------------------------
(***************************************************************************)
(* Refinement: FlashFifo implements DurableFifo.  While the flash has a    *)
(* layout, the queue that the scan yields is Content of the positions      *)
(* last and head, and it does not matter by how many turns the scan's      *)
(* positions differ from them.                                             *)
(***************************************************************************)
ByteAt(cl, l, k) == cl[Blk(l + (k - 1) \div Cap)][(k - 1) % Cap]
ContentLen(bm, l, h) == Cap * (h - l) + Smaller(Cap, bitmap_to_offset(bm[Blk(h)]))
Content(cl, bm, l, h) == [k \in 1 .. ContentLen(bm, l, h) |-> ByteAt(cl, l, k)]

LEMMA FcnSeq ==
  ASSUME NEW S, NEW n \in Nat, NEW f \in [1 .. n -> S]
  PROVE  f \in Seq(S) /\ Len(f) = n
<1>1. Seq(S) = UNION {[1 .. k -> S] : k \in Nat}
  BY SeqDef
<1>2. f \in Seq(S)
  BY <1>1, Zenon
<1>3. Len(f) \in Nat /\ DOMAIN f = 1 .. Len(f) /\ DOMAIN f = 1 .. n
  BY <1>2, LenProperties
<1>4. 1 .. Len(f) = 1 .. n
  BY <1>3
<1>5. Len(f) = n
  BY <1>3, <1>4
<1> QED BY <1>2, <1>5

(* A byte of the queue lies in one of the blocks from last to head, and in *)
(* the head below its usage.                                               *)
LEMMA ByteWhere ==
  ASSUME NEW n \in Nat, NEW u \in 0 .. Cap, NEW k \in 1 .. Cap * n + u
  PROVE  /\ (k - 1) \div Cap \in 0 .. n
         /\ (k - 1) % Cap \in Offsets
         /\ (k - 1) \div Cap = n => (k - 1) % Cap < u
<1> DEFINE q == (k - 1) \div Cap
           r == (k - 1) % Cap
<1>0. Cap \in Nat \ {0} /\ Cap * n \in Int /\ u \in Nat /\ u <= Cap
  BY CapType
<1>1. k \in Nat /\ k - 1 \in Int /\ 0 <= k - 1 /\ k - 1 < Cap * n + u
  BY <1>0
<1>2. k - 1 = Cap * q + r /\ q \in Int /\ r \in 0 .. Cap - 1
  BY <1>0, <1>1, DivMod
<1> HIDE DEF q, r
<1>3. Cap * q \in Int /\ Cap * (q - n) = Cap * q - Cap * n
  BY <1>0, <1>2
<1>4. q <= n
  BY <1>0, <1>1, <1>2, <1>3, Multiples
<1>5. 0 <= q
  BY <1>0, <1>1, <1>2, <1>3, Multiples
<1>6. q = n => r < u
  BY <1>0, <1>1, <1>2, <1>3
<1>7. q \in 0 .. n /\ r \in Offsets
  BY <1>2, <1>4, <1>5 DEF Offsets
<1> QED BY <1>6, <1>7 DEF q, r

LEMMA NextBlock ==
  ASSUME NEW x \in Int
  PROVE  (x + Cap) \div Cap = (x \div Cap) + 1 /\ (x + Cap) % Cap = x % Cap
<1> DEFINE y == x + Cap
           q == x \div Cap
           r == x % Cap
           p == y \div Cap
           s == y % Cap
<1>0. Cap \in Nat \ {0} /\ y \in Int
  BY CapType
<1>1. x = Cap * q + r /\ q \in Int /\ r \in 0 .. Cap - 1
  BY <1>0, DivMod
<1>2. y = Cap * p + s /\ p \in Int /\ s \in 0 .. Cap - 1
  BY <1>0, DivMod
<1> HIDE DEF q, r, p, s
<1>3. Cap * q \in Int /\ Cap * p \in Int /\ Cap * (q + 1 - p) = Cap * q + Cap - Cap * p
  BY <1>0, <1>1, <1>2
<1>4. Cap * (q + 1 - p) = s - r
  BY <1>0, <1>1, <1>2, <1>3
<1>5. q + 1 - p = 0
  BY <1>0, <1>1, <1>2, <1>4, Multiples
<1>6. Cap * (q + 1 - p) = 0
  BY <1>0, <1>5
<1>7. p = q + 1 /\ s = r
  BY <1>0, <1>1, <1>2, <1>4, <1>5, <1>6
<1> QED BY <1>7 DEF q, r, p, s

LEMMA ContentLenType ==
  ASSUME NEW bm \in [BlockIds -> Nat], NEW l \in Int, NEW h \in Int, l <= h
  PROVE  /\ h - l \in Nat /\ Cap * (h - l) \in Nat
         /\ Smaller(Cap, bitmap_to_offset(bm[Blk(h)])) \in 0 .. Cap
         /\ ContentLen(bm, l, h) \in Nat
<1>1. h - l \in Nat /\ Cap \in Nat
  BY CapType
<1>2. Cap * (h - l) \in Nat
  BY <1>1
<1>3. bm[Blk(h)] \in Nat
  BY BlkType
<1>4. bitmap_to_offset(bm[Blk(h)]) \in Nat
  BY <1>3, OffsetMono
<1>5. Smaller(Cap, bitmap_to_offset(bm[Blk(h)])) \in 0 .. Cap
  BY <1>1, <1>4 DEF Smaller
<1> QED BY <1>1, <1>2, <1>5 DEF ContentLen

LEMMA ContentSeq ==
  ASSUME NEW cl, NEW bm \in [BlockIds -> Nat], NEW l \in Int, NEW h \in Int, l <= h,
         HoldsBytes(cl)
  PROVE  /\ Content(cl, bm, l, h) \in Seq(PayloadBytes)
         /\ Len(Content(cl, bm, l, h)) = ContentLen(bm, l, h)
         /\ \A k \in 1 .. ContentLen(bm, l, h) :
              Content(cl, bm, l, h)[k] = ByteAt(cl, l, k)
<1> DEFINE n == ContentLen(bm, l, h)
           u == Smaller(Cap, bitmap_to_offset(bm[Blk(h)]))
<1>0. h - l \in Nat /\ u \in 0 .. Cap /\ n \in Nat /\ n = Cap * (h - l) + u
  BY ContentLenType DEF ContentLen
<1> HIDE DEF n, u
<1>1. ASSUME NEW k \in 1 .. n PROVE ByteAt(cl, l, k) \in PayloadBytes
  <2>1. (k - 1) \div Cap \in 0 .. h - l /\ (k - 1) % Cap \in Offsets
    BY <1>0, ByteWhere
  <2>2. l + (k - 1) \div Cap \in Int
    BY <1>0, <2>1
  <2> QED BY <2>1, <2>2, BlkType DEF ByteAt, HoldsBytes
<1>2. Content(cl, bm, l, h) = [k \in 1 .. n |-> ByteAt(cl, l, k)]
  BY DEF Content, n
<1>3. Content(cl, bm, l, h) \in [1 .. n -> PayloadBytes]
  BY <1>1, <1>2
<1>4. \A k \in 1 .. n : Content(cl, bm, l, h)[k] = ByteAt(cl, l, k)
  BY <1>2
<1>5. Content(cl, bm, l, h) \in Seq(PayloadBytes) /\ Len(Content(cl, bm, l, h)) = n
  BY <1>0, <1>3, FcnSeq
<1> QED BY <1>4, <1>5 DEF n

(* The bytes of a queue from last to head depend only on the cells there.  *)
LEMMA ContentEqual ==
  ASSUME NEW cl, NEW dl, NEW bm, NEW dm, NEW l, NEW h, NEW g,
         ContentLen(bm, l, h) = ContentLen(dm, l, g),
         \A k \in 1 .. ContentLen(bm, l, h) : ByteAt(cl, l, k) = ByteAt(dl, l, k)
  PROVE  Content(dl, dm, l, g) = Content(cl, bm, l, h)
  BY DEF Content

LEMMA QueueIsContents == Queue = Contents(find_fifo({}))
  BY DEF Queue

LEMMA ContentsAt ==
  ASSUME NEW sc, NEW l, NEW h, sc.ret = "OK", sc.last = l, sc.head = h
  PROVE  Contents(sc) = Content(cells, bitmap, l, h)
  BY DEF Contents, Content, ContentLen, ByteAt

LEMMA QueueIs ==
  \A t, l, h \in Int : Layout(magic, t, l, h) => Queue = Content(cells, bitmap, l, h)
<1> SUFFICES ASSUME NEW t \in Int, NEW l \in Int, NEW h \in Int, Layout(magic, t, l, h)
             PROVE  Queue = Content(cells, bitmap, l, h)
  OBVIOUS
<1>0. Blocks \in Nat /\ Cap \in Nat \ {0} /\ l <= h
  BY GeometryAssumption, CapType DEF Layout
<1>1. PICK k \in Int : find_fifo({}) = ScanResult("OK", h + Blocks * k, l + Blocks * k,
                                                  t + Blocks * k)
  BY ScanLayout
<1> DEFINE K == Blocks * k
<1>2. \A p \in Int : Blk(p + K) = Blk(p)
  BY BlkShift
<1>3. K \in Int
  BY <1>0
<1>4. Contents(find_fifo({})) = Content(cells, bitmap, l + K, h + K)
  <2>1. /\ find_fifo({}).ret = "OK" /\ find_fifo({}).head = h + K
        /\ find_fifo({}).last = l + K
    BY <1>1 DEF ScanResult
  <2> QED BY <2>1, ContentsAt
<1> HIDE DEF K
<1>5. ContentLen(bitmap, l + K, h + K) = ContentLen(bitmap, l, h)
  <2>1. (h + K) - (l + K) = h - l /\ Blk(h + K) = Blk(h)
    BY <1>2, <1>3
  <2> QED BY <2>1 DEF ContentLen
<1>6. ASSUME NEW j \in Int PROVE ByteAt(cells, l + K, j) = ByteAt(cells, l, j)
  <2> DEFINE q == (j - 1) \div Cap
  <2>1. q \in Int
    BY <1>0, DivMod
  <2> HIDE DEF q
  <2>2. (l + K) + q = (l + q) + K /\ l + q \in Int
    BY <1>3, <2>1
  <2>3. Blk((l + K) + q) = Blk(l + q)
    BY <1>2, <2>2
  <2> QED BY <2>3 DEF ByteAt, q
<1>7. Content(cells, bitmap, l + K, h + K) = Content(cells, bitmap, l, h)
  BY <1>5, <1>6 DEF Content
<1> QED BY <1>4, <1>7, QueueIsContents

LEMMA QueueEmpty == AllMagic({TAIL, ERASED}) => Queue = <<>>
<1> SUFFICES ASSUME AllMagic({TAIL, ERASED}) PROVE Queue = <<>>
  OBVIOUS
<1>1. find_fifo({}).ret # "OK"
  BY ScanNothing
<1> QED BY <1>1, QueueIsContents DEF Contents

(* The same two facts about the next state.                                *)
LEMMA QueueIsNext ==
  (\A t, l, h \in Int : Layout(magic, t, l, h) => Queue = Content(cells, bitmap, l, h))'
  BY QueueIs, PTL

LEMMA QueueEmptyNext == AllMagic({TAIL, ERASED})' => Queue' = <<>>
<1>1. (AllMagic({TAIL, ERASED}) => Queue = <<>>)'
  BY QueueEmpty, PTL
<1> QED BY <1>1

(* A step that leaves the flash alone leaves the queue alone.              *)
LEMMA QueueSame ==
  ASSUME Ring, magic' = magic, bitmap' = bitmap, cells' = cells, TypeOK
  PROVE  Queue' = Queue
<1>1. CASE \E t, l, h \in Int : Layout(magic, t, l, h)
  <2>1. PICK t \in Int, l \in Int, h \in Int : Layout(magic, t, l, h)
    BY <1>1
  <2>2. Queue = Content(cells, bitmap, l, h)
    BY <2>1, QueueIs
  <2>3. Queue' = Content(cells', bitmap', l, h)
    BY <2>1, QueueIsNext
  <2> QED BY <2>2, <2>3
<1>2. CASE ~ \E t, l, h \in Int : Layout(magic, t, l, h)
  <2>1. pc \in {"off", "erase", "format"}
    BY <1>2 DEF Ring, Running, TypeOK
  <2>2. AllMagic({TAIL, ERASED})
    BY <1>2, <2>1 DEF Ring, AllMagic
  <2>3. AllMagic({TAIL, ERASED})'
    BY <2>2 DEF AllMagic
  <2> QED BY <2>2, <2>3, QueueEmpty, QueueEmptyNext
<1> QED BY <1>1, <1>2

-----------------------------------------------------------------------------
(* The two moves of a durable FIFO, in terms of lengths and bytes.         *)

LEMMA AppendsBytes ==
  ASSUME NEW a \in Seq(PayloadBytes), NEW b \in Seq(PayloadBytes),
         Len(a) < Len(b), Len(b) <= Cap * (Blocks - 1),
         \A k \in 1 .. Len(a) : b[k] = a[k]
  PROVE  Durable!AppendBytes(a, b)
<1>1. Len(a) \in Nat /\ Len(b) \in Nat
  BY LenProperties
<1>2. \A k \in 1 .. Len(b) : b[k] \in PayloadBytes
  BY ElementOfSeq
<1>3. \A k \in 1 .. Len(a) : b[k] \in PayloadBytes
  BY <1>1, <1>2
<1>4. 1 \in Int /\ Len(a) \in Int
  BY <1>1
<1>5. /\ SubSeq(b, 1, Len(a)) \in Seq(PayloadBytes)
      /\ Len(SubSeq(b, 1, Len(a))) = IF 1 <= Len(a) THEN Len(a) - 1 + 1 ELSE 0
      /\ \A k \in 1 .. Len(a) - 1 + 1 : SubSeq(b, 1, Len(a))[k] = b[1 + k - 1]
  BY <1>3, <1>4, SubSeqProperties
<1> DEFINE s == SubSeq(b, 1, Len(a))
<1> HIDE DEF s
<1>6. s \in Seq(PayloadBytes) /\ Len(s) = Len(a)
  BY <1>1, <1>5 DEF s
<1>7. ASSUME NEW k \in 1 .. Len(s) PROVE s[k] = a[k]
  <2>1. k \in 1 .. Len(a) - 1 + 1 /\ 1 + k - 1 = k /\ k \in 1 .. Len(a)
    BY <1>1, <1>6
  <2>2. s[k] = b[k]
    BY <1>5, <2>1 DEF s
  <2> QED BY <2>1, <2>2
<1>8. s = a
  BY <1>6, <1>7, SeqEqual
<1>9. \A i \in Len(a) + 1 .. Len(b) :
        b[i] \in (IF "crash" \in Faults THEN Corrupt .. Stamps ELSE Blank .. Stamps)
  BY <1>1, <1>2 DEF PayloadBytes
<1> QED BY <1>8, <1>9 DEF Durable!AppendBytes, s

LEMMA DropsChunk ==
  ASSUME NEW a \in Seq(PayloadBytes), NEW b \in Seq(PayloadBytes),
         Len(a) >= Cap, Len(b) = Len(a) - Cap,
         \A k \in 1 .. Len(b) : b[k] = a[k + Cap]
  PROVE  Durable!Remove(a, b)
<1>1. Len(a) \in Nat /\ Len(b) \in Nat /\ Cap \in Nat
  BY LenProperties, CapType
<1>2. \A k \in 1 .. Len(a) : a[k] \in PayloadBytes
  BY ElementOfSeq
<1>3. \A k \in Cap + 1 .. Len(a) : a[k] \in PayloadBytes
  BY <1>1, <1>2
<1>4. Cap + 1 \in Int /\ Len(a) \in Int
  BY <1>1
<1> DEFINE s == SubSeq(a, Cap + 1, Len(a))
<1>5. /\ s \in Seq(PayloadBytes)
      /\ Len(s) = IF Cap + 1 <= Len(a) THEN Len(a) - (Cap + 1) + 1 ELSE 0
      /\ \A k \in 1 .. Len(a) - (Cap + 1) + 1 : s[k] = a[(Cap + 1) + k - 1]
  BY <1>3, <1>4, SubSeqProperties
<1> HIDE DEF s
<1>6. Len(s) = Len(b)
  BY <1>1, <1>5
<1>7. ASSUME NEW k \in 1 .. Len(s) PROVE s[k] = b[k]
  <2>1. k \in 1 .. Len(a) - (Cap + 1) + 1 /\ (Cap + 1) + k - 1 = k + Cap /\ k \in 1 .. Len(b)
    BY <1>1, <1>6
  <2>2. s[k] = a[k + Cap]
    BY <1>5, <2>1
  <2> QED BY <2>1, <2>2
<1>8. s = b
  BY <1>5, <1>6, <1>7, SeqEqual
<1> QED BY <1>8 DEF Durable!Remove, s

-----------------------------------------------------------------------------
(* What the handlers do to the contents.                                   *)

(* Programming beyond the usage of the head, or erasing a removed block,   *)
(* does not touch a byte of the queue.                                     *)
KeepsBytes(cl, dl, bm, l, h) ==
  /\ \A p \in l .. h - 1 : \A i \in Offsets : dl[Blk(p)][i] = cl[Blk(p)][i]
  /\ \A i \in Offsets : i < bitmap_to_offset(bm[Blk(h)]) => dl[Blk(h)][i] = cl[Blk(h)][i]

LEMMA ContentKeeps ==
  ASSUME NEW cl, NEW dl, NEW bm \in [BlockIds -> Nat], NEW dm,
         NEW l \in Int, NEW h \in Int, l <= h,
         dm[Blk(h)] = bm[Blk(h)], KeepsBytes(cl, dl, bm, l, h)
  PROVE  Content(dl, dm, l, h) = Content(cl, bm, l, h)
<1> DEFINE u == Smaller(Cap, bitmap_to_offset(bm[Blk(h)]))
<1>0. h - l \in Nat /\ u \in 0 .. Cap /\ ContentLen(bm, l, h) = Cap * (h - l) + u
  BY ContentLenType DEF ContentLen
<1>1. ContentLen(dm, l, h) = ContentLen(bm, l, h)
  BY DEF ContentLen
<1>2. bitmap_to_offset(bm[Blk(h)]) \in Nat /\ Cap \in Nat
  BY BlkType, OffsetMono, CapType
<1>3. u <= bitmap_to_offset(bm[Blk(h)])
  BY <1>2 DEF Smaller
<1> HIDE DEF u
<1>4. ASSUME NEW k \in 1 .. ContentLen(bm, l, h) PROVE ByteAt(cl, l, k) = ByteAt(dl, l, k)
  <2> DEFINE q == (k - 1) \div Cap
             r == (k - 1) % Cap
  <2>1. q \in 0 .. h - l /\ r \in Offsets /\ (q = h - l => r < u)
    BY <1>0, ByteWhere
  <2> HIDE DEF q, r
  <2>2. r \in Nat
    BY <1>2, <2>1 DEF Offsets
  <2>3. CASE q = h - l
    <3>1. l + q = h
      BY <1>0, <2>3
    <3>2. r < bitmap_to_offset(bm[Blk(h)])
      BY <1>0, <1>2, <1>3, <2>1, <2>2, <2>3
    <3>3. dl[Blk(l + q)][r] = cl[Blk(l + q)][r]
      BY <2>1, <3>1, <3>2 DEF KeepsBytes
    <3> QED BY <3>3 DEF ByteAt, q, r
  <2>4. CASE q # h - l
    <3>1. l + q \in l .. h - 1
      BY <1>0, <2>1, <2>4
    <3>2. dl[Blk(l + q)][r] = cl[Blk(l + q)][r]
      BY <2>1, <3>1 DEF KeepsBytes
    <3> QED BY <3>2 DEF ByteAt, q, r
  <2> QED BY <2>3, <2>4
<1> QED BY <1>1, <1>4, ContentEqual

(* Accounting for more bytes of the head appends them to the queue.        *)
LEMMA ContentAppends ==
  ASSUME NEW cl, NEW bm \in [BlockIds -> Nat], NEW dm \in [BlockIds -> Nat],
         NEW l \in Int, NEW h \in Int, l <= h, h - l < Blocks - 1,
         bm[Blk(h)] <= dm[Blk(h)],
         HoldsBytes(cl)
  PROVE  \/ Content(cl, dm, l, h) = Content(cl, bm, l, h)
         \/ Durable!AppendBytes(Content(cl, bm, l, h), Content(cl, dm, l, h))
<1> DEFINE u == Smaller(Cap, bitmap_to_offset(bm[Blk(h)]))
           v == Smaller(Cap, bitmap_to_offset(dm[Blk(h)]))
           n == ContentLen(bm, l, h)
           m == ContentLen(dm, l, h)
           a == Content(cl, bm, l, h)
           b == Content(cl, dm, l, h)
<1>0. h - l \in Nat /\ Cap * (h - l) \in Nat /\ u \in 0 .. Cap /\ n = Cap * (h - l) + u
  BY ContentLenType DEF ContentLen
<1>1. v \in 0 .. Cap /\ m = Cap * (h - l) + v
  BY ContentLenType DEF ContentLen
<1>2. u <= v
  <2>1. bm[Blk(h)] \in Nat /\ dm[Blk(h)] \in Nat
    BY BlkType
  <2>2. /\ bitmap_to_offset(bm[Blk(h)]) \in Nat /\ bitmap_to_offset(dm[Blk(h)]) \in Nat
        /\ bitmap_to_offset(bm[Blk(h)]) <= bitmap_to_offset(dm[Blk(h)])
    BY <2>1, OffsetMono
  <2> QED BY <2>2, CapType DEF Smaller
<1>3. /\ a \in Seq(PayloadBytes) /\ Len(a) = n
      /\ \A k \in 1 .. n : a[k] = ByteAt(cl, l, k)
  BY ContentSeq
<1>4. /\ b \in Seq(PayloadBytes) /\ Len(b) = m
      /\ \A k \in 1 .. m : b[k] = ByteAt(cl, l, k)
  BY ContentSeq
<1>5. n = m => b = a
  BY ContentEqual
<1> HIDE DEF a, b, n, m, u, v
<1>6. n \in Nat /\ m \in Nat /\ n <= m
  BY <1>0, <1>1, <1>2
<1>7. m <= Cap * (Blocks - 1)
  <2> DEFINE d == Blocks - 1 - (h - l) - 1
  <2>1. Cap \in Nat \ {0} /\ Blocks \in Nat /\ d \in Nat
    BY <1>0, CapType, GeometryAssumption
  <2>2. Blocks - 1 = (h - l) + 1 + d
    BY <1>0, <2>1
  <2>3. Cap * d \in Nat
    BY <2>1
  <2> HIDE DEF d
  <2>4. Cap * ((h - l) + 1 + d) = Cap * (h - l) + Cap + Cap * d
    BY <1>0, <2>1
  <2> QED BY <1>0, <1>1, <2>1, <2>2, <2>3, <2>4
<1>8. \A k \in 1 .. n : b[k] = a[k]
  BY <1>3, <1>4, <1>6
<1>9. n # m => Durable!AppendBytes(a, b)
  <2> SUFFICES ASSUME n # m PROVE Durable!AppendBytes(a, b)
    OBVIOUS
  <2>1. Len(a) < Len(b) /\ Len(b) <= Cap * (Blocks - 1)
    BY <1>3, <1>4, <1>6, <1>7
  <2> QED BY <1>3, <1>4, <1>8, <2>1, AppendsBytes
<1> QED BY <1>5, <1>9 DEF a, b

(* Removing the last block drops its bytes from the front of the queue.    *)
LEMMA ContentDrops ==
  ASSUME NEW cl, NEW bm \in [BlockIds -> Nat], NEW l \in Int, NEW h \in Int, l < h,
         HoldsBytes(cl)
  PROVE  Durable!Remove(Content(cl, bm, l, h), Content(cl, bm, l + 1, h))
<1> DEFINE u == Smaller(Cap, bitmap_to_offset(bm[Blk(h)]))
           n == ContentLen(bm, l, h)
           m == ContentLen(bm, l + 1, h)
           a == Content(cl, bm, l, h)
           b == Content(cl, bm, l + 1, h)
<1>0. Cap \in Nat \ {0} /\ l <= h /\ l + 1 <= h /\ l + 1 \in Int
  BY CapType
<1>1. h - l \in Nat /\ Cap * (h - l) \in Nat /\ u \in 0 .. Cap /\ n = Cap * (h - l) + u
      /\ n \in Nat
  BY <1>0, ContentLenType DEF ContentLen
<1>2. Cap * (h - (l + 1)) \in Nat /\ m = Cap * (h - (l + 1)) + u /\ m \in Nat
  BY <1>0, ContentLenType DEF ContentLen
<1>3. /\ a \in Seq(PayloadBytes) /\ Len(a) = n
      /\ \A k \in 1 .. n : a[k] = ByteAt(cl, l, k)
  BY <1>0, ContentSeq
<1>4. /\ b \in Seq(PayloadBytes) /\ Len(b) = m
      /\ \A k \in 1 .. m : b[k] = ByteAt(cl, l + 1, k)
  BY <1>0, ContentSeq
<1> HIDE DEF a, b, n, m, u
<1>5. Cap * (h - (l + 1)) = Cap * (h - l) - Cap
  BY <1>0
<1>6. m = n - Cap /\ n >= Cap
  BY <1>0, <1>1, <1>2, <1>5
<1>7. ASSUME NEW k \in 1 .. m PROVE b[k] = a[k + Cap]
  <2>1. k + Cap \in 1 .. n /\ k - 1 \in Int /\ (k + Cap) - 1 = (k - 1) + Cap
    BY <1>0, <1>1, <1>2, <1>6
  <2>2. /\ ((k + Cap) - 1) \div Cap = ((k - 1) \div Cap) + 1
        /\ ((k + Cap) - 1) % Cap = (k - 1) % Cap
    BY <2>1, NextBlock
  <2> DEFINE q == (k - 1) \div Cap
  <2>3. q \in Int
    BY <1>0, <2>1, DivMod
  <2> HIDE DEF q
  <2>4. l + (q + 1) = (l + 1) + q
    BY <2>3
  <2>5. ByteAt(cl, l, k + Cap) = ByteAt(cl, l + 1, k)
    BY <2>2, <2>4 DEF ByteAt, q
  <2> QED BY <1>3, <1>4, <2>1, <2>5
<1>8. Durable!Remove(a, b)
  <2>1. Len(a) >= Cap /\ Len(b) = Len(a) - Cap /\ \A k \in 1 .. Len(b) : b[k] = a[k + Cap]
    BY <1>3, <1>4, <1>6, <1>7
  <2> QED BY <1>3, <1>4, <2>1, DropsChunk
<1> QED BY <1>8 DEF a, b

(* A fresh head behind a full block adds nothing.                          *)
LEMMA ContentAdvances ==
  ASSUME NEW cl, NEW bm \in [BlockIds -> Nat], NEW l \in Int, NEW h \in Int, l <= h,
         bitmap_to_offset(bm[Blk(h)]) >= Cap, bm[Blk(h + 1)] = 0
  PROVE  Content(cl, bm, l, h + 1) = Content(cl, bm, l, h)
<1>0. Cap \in Nat \ {0} /\ Unit \in Nat
  BY CapType, GeometryAssumption
<1>1. bitmap_to_offset(bm[Blk(h)]) \in Nat
  BY BlkType, OffsetMono
<1>2. Smaller(Cap, bitmap_to_offset(bm[Blk(h)])) = Cap
  BY <1>0, <1>1 DEF Smaller
<1>3. Smaller(Cap, bitmap_to_offset(bm[Blk(h + 1)])) = 0
  BY <1>0 DEF Smaller, bitmap_to_offset
<1>4. Cap * ((h + 1) - l) = Cap * (h - l) + Cap
  BY <1>0
<1>5. Cap * (h - l) \in Int
  BY <1>0
<1>6. ContentLen(bm, l, h) = ContentLen(bm, l, h + 1)
  BY <1>0, <1>2, <1>3, <1>4, <1>5 DEF ContentLen
<1> QED BY <1>6, ContentEqual

-----------------------------------------------------------------------------
Inv == TypeOK /\ Usage /\ Written /\ Ring

LEMMA InvAlways == ASSUME WellUsed PROVE Spec => []Inv
<1>0. CrashOnly
  BY DEF WellUsed
<1>1. TypeOK /\ Usage /\ Written /\ Ring => Inv
  BY DEF Inv
<1> QED BY <1>0, <1>1, TypeCorrect, UsageAlways, WrittenAlways, RingAlways, PTL

LEMMA DurableInit == ASSUME WellUsed PROVE Init => Queue = <<>>
<1> SUFFICES ASSUME Init PROVE Queue = <<>>
  OBVIOUS
<1>1. Ring /\ TypeOK /\ Written
  BY RingInit, TypeInit, WrittenInit
<1>2. CASE AllMagic({TAIL})
  <2>1. AllMagic({TAIL, ERASED})
    BY <1>2 DEF AllMagic
  <2> QED BY <2>1, QueueEmpty
<1>3. CASE \E t, l, h \in Int : Layout(magic, t, l, h)
  <2>1. PICK kind \in Images : magic = Image(kind)
    BY DEF Init
  <2>2. CASE kind = "dirty"
    <3>1. AllMagic({TAIL})
      BY <2>1, <2>2 DEF Image, AllMagic
    <3> QED BY <3>1, <1>2
  <2>3. CASE kind = "formatted"
    <3>1. magic = [b \in BlockIds |-> IF b = 0 THEN HEAD ELSE ERASED]
      BY <2>1, <2>3 DEF Image
    <3>2. magic[Blk(0)] = HEAD /\ \A b \in BlockIds : b # Blk(0) => magic[b] = ERASED
      BY <3>1, ZeroBlock
    <3>3. Layout(magic, 0, 0, 0)
      BY <3>2, HeadOnlyLayout
    <3>4. Queue = Content(cells, bitmap, 0, 0)
      BY <3>3, QueueIs
    <3>5. ContentLen(bitmap, 0, 0) = 0
      <4>1. bitmap[Blk(0)] = 0
        BY ZeroBlock DEF Init
      <4> QED BY <4>1, CapType, GeometryAssumption DEF ContentLen, Smaller, bitmap_to_offset
    <3>6. Content(cells, bitmap, 0, 0) = <<>>
      BY <3>5 DEF Content
    <3> QED BY <3>4, <3>6
  <2> QED BY <2>2, <2>3 DEF WellUsed
<1> QED BY <1>1, <1>2, <1>3 DEF Init, Ring

(***************************************************************************)
(* Every step of the service, a power failure included, appends to the     *)
(* queue, removes a block's worth from it or leaves it alone.              *)
(***************************************************************************)
LEMMA DurableStep ==
  ASSUME WellUsed, Inv, Inv', [Next]_vars
  PROVE  \/ Queue' = Queue
         \/ Durable!AppendBytes(Queue, Queue')
         \/ Durable!Remove(Queue, Queue')
<1> USE DEF flashVars, ramVars, callVars, ghostVars
<1>w. CrashOnly /\ Disciplined = TRUE
  BY DEF WellUsed
<1>i. TypeOK /\ Usage /\ Written /\ Ring /\ Ring'
  BY DEF Inv
<1>0. /\ magic \in [BlockIds -> Magics] /\ bitmap \in [BlockIds -> Nat]
      /\ bitmap' \in [BlockIds -> Nat] /\ cells \in [BlockIds -> [Offsets -> Int]]
      /\ head \in Int /\ last \in Int /\ tail \in Int
      /\ head' \in Int /\ last' \in Int /\ tail' \in Int
      /\ Cap \in Nat \ {0} /\ Blocks \in Nat
  <2>1. /\ magic \in [BlockIds -> Magics] /\ bitmap \in [BlockIds -> Nat]
        /\ cells \in [BlockIds -> [Offsets -> Int]]
        /\ head \in Int /\ last \in Int /\ tail \in Int
    BY <1>i, Fields
  <2>2. bitmap' \in [BlockIds -> Nat] /\ head' \in Int /\ last' \in Int /\ tail' \in Int
    BY DEF Inv, TypeOK
  <2>3. Cap \in Nat \ {0} /\ Blocks \in Nat
    BY CapType, GeometryAssumption
  <2> QED BY <2>1, <2>2, <2>3
<1>b. Blk(head) \in BlockIds /\ Blk(last) \in BlockIds /\ Blk(tail) \in BlockIds
  BY <1>0, BlkType
<1>h. HoldsBytes(cells)
  BY <1>i DEF Written, Payload, HoldsBytes
<1>r. Running => Layout(magic, tail, last, head) /\ Queue = Content(cells, bitmap, last, head)
  BY <1>0, <1>i, QueueIs DEF Ring
<1>n. Running' => Queue' = Content(cells', bitmap', last', head')
  <2>1. Running' => Layout(magic', tail', last', head')
    BY <1>i DEF Ring
  <2> QED BY <1>0, <2>1, QueueIsNext
<1>s. ASSUME magic' = magic, bitmap' = bitmap, cells' = cells PROVE Queue' = Queue
  BY <1>i, <1>s, QueueSame
<1>1. CASE InitScan
  BY <1>1, <1>s DEF InitScan
<1>2. CASE FormatErase
  <2>1. pc = "erase" /\ pc' \in {"erase", "format"}
    BY <1>2 DEF FormatErase
  <2>2. AllMagic({TAIL, ERASED})
    BY <1>i, <2>1 DEF Ring
  <2>3. AllMagic({TAIL, ERASED})'
    BY <1>i, <2>1 DEF Ring, AllMagic
  <2> QED BY <2>2, <2>3, QueueEmpty, QueueEmptyNext
<1>3. CASE FormatHead
  <2>1. pc = "format" /\ pc' = "rescan" /\ cells' = cells
    BY <1>3 DEF FormatHead
  <2>2. AllMagic({ERASED})
    BY <1>i, <2>1 DEF Ring
  <2>3. AllMagic({TAIL, ERASED})
    BY <2>2 DEF AllMagic
  <2>4. bitmap'[Blk(0)] = 0
    <3>1. bitmap[Blk(0)] = 0
      BY <1>i, <2>2, ZeroBlock DEF AllMagic, Usage, Clean
    <3>2. prepare_head(0, TRUE, TRUE, TRUE)
      BY <1>3, <1>w, FormatHeadStep
    <3>3. bitmap' = bitmap
      <4>1. 0 \in Int
        OBVIOUS
      <4> QED BY <1>i, <3>2, <4>1, PrepareStep, Zenon
    <3> QED BY <3>1, <3>3
  <2>5. Queue' = Content(cells', bitmap', 0, 0)
    <3>1. Layout(magic', 0, 0, 0)
      BY <1>i, <2>1 DEF Ring
    <3> QED BY <3>1, QueueIsNext
  <2>6. ContentLen(bitmap', 0, 0) = 0
    BY <2>4, CapType, GeometryAssumption DEF ContentLen, Smaller, bitmap_to_offset
  <2>7. Content(cells', bitmap', 0, 0) = <<>>
    BY <2>6 DEF Content
  <2> QED BY <2>3, <2>5, <2>7, QueueEmpty
<1>4. CASE InitRescan
  BY <1>4, <1>s DEF InitRescan
<1>5. CASE \E len \in WriteLens : FsWrite(len)
  BY <1>5, <1>s DEF FsWrite
<1>6. CASE WriteData
  <2>1. /\ pc = "data" /\ pc' \in {"data", "usage"} /\ magic' = magic /\ bitmap' = bitmap
        /\ UNCHANGED <<tail, last, head>>
    BY <1>6 DEF WriteData
  <2>2. Running /\ Running'
    BY <2>1 DEF Running
  <2>3. CASE cells' = cells
    BY <1>s, <2>1, <2>3
  <2>4. CASE block_write_data(RangeStart, WriteChunk, TRUE)
    <3>1. RangeStart \in Nat /\ get_block_write_range \in Int
      BY <1>i, RangeType
    <3>2. WriteChunk \in Int
      BY <1>i, <3>1 DEF WriteChunk, Smaller, TypeOK
    <3>3. \A b \in BlockIds : \A i \in Offsets :
            (b # Blk(head) \/ ~(RangeStart <= i)) => cells'[b][i] = cells[b][i]
      BY <1>i, <2>4, <3>1, <3>2, DataCells
    <3>4. last <= head /\ head - last < Blocks
      BY <1>0, <1>r, <2>2 DEF Layout
    <3>5. \A p \in last .. head - 1 : \A i \in Offsets : cells'[Blk(p)][i] = cells[Blk(p)][i]
      <4> SUFFICES ASSUME NEW p \in last .. head - 1, NEW i \in Offsets
                   PROVE  cells'[Blk(p)][i] = cells[Blk(p)][i]
        OBVIOUS
      <4>1. p \in Int /\ p # head /\ p - head < Blocks /\ head - p < Blocks
        BY <1>0, <3>4
      <4>2. Blk(p) # Blk(head) /\ Blk(p) \in BlockIds
        BY <1>0, <4>1, BlkApart, BlkType
      <4> QED BY <3>3, <4>2
    <3>6. \A i \in Offsets : i < bitmap_to_offset(bitmap[Blk(head)]) =>
                               cells'[Blk(head)][i] = cells[Blk(head)][i]
      <4> SUFFICES ASSUME NEW i \in Offsets, i < bitmap_to_offset(bitmap[Blk(head)])
                   PROVE  cells'[Blk(head)][i] = cells[Blk(head)][i]
        OBVIOUS
      <4>0. bitmap[Blk(head)] \in Nat
        BY <1>0, <1>b
      <4>1. bitmap_to_offset(bitmap[Blk(head)]) \in Nat /\ i \in Int
        BY <1>0, <4>0, OffsetMono DEF Offsets
      <4>2. bitmap_to_offset(bitmap[Blk(head)]) <= RangeStart
        BY <1>i, <4>1 DEF RangeStart, Usage, InBlock
      <4>3. ~(RangeStart <= i)
        BY <3>1, <4>1, <4>2
      <4> QED BY <1>b, <3>3, <4>3
    <3>7. bitmap'[Blk(head)] = bitmap[Blk(head)]
      BY <2>1
    <3>8. KeepsBytes(cells, cells', bitmap, last, head)
      BY <3>5, <3>6 DEF KeepsBytes
    <3>9. Content(cells', bitmap', last, head) = Content(cells, bitmap, last, head)
      BY <1>0, <3>4, <3>7, <3>8, ContentKeeps
    <3> QED BY <1>r, <1>n, <2>1, <2>2, <3>9
  <2> QED BY <1>6, <1>w, <2>3, <2>4, DataStep
<1>7. CASE WriteUsage
  <2>1. /\ pc = "usage" /\ pc' \in {"close", "idle"} /\ cells' = cells
        /\ UNCHANGED <<tail, last, head>>
    BY <1>7 DEF WriteUsage
  <2>2. Running /\ Running'
    BY <2>1 DEF Running
  <2>3. bitmap[Blk(head)] <= bitmap'[Blk(head)]
    <3> DEFINE u == offset_to_bitmap(off)
    <3>1. u \in Nat /\ bitmap[Blk(head)] \in Nat
      BY <1>0, <1>b, <1>i, UsageType DEF TypeOK
    <3>2. \/ bitmap' = [bitmap EXCEPT ![Blk(head)] = Larger(bitmap[Blk(head)], u)]
          \/ bitmap' = bitmap
      BY <1>7, <1>i, <1>w, UsageStep
    <3> HIDE DEF u
    <3> QED BY <1>0, <1>b, <3>1, <3>2 DEF Larger
  <2>4. last <= head /\ head - last < Blocks - 1
    BY <1>0, <1>r, <2>2 DEF Layout
  <2>5. \/ Content(cells, bitmap', last, head) = Content(cells, bitmap, last, head)
        \/ Durable!AppendBytes(Content(cells, bitmap, last, head),
                               Content(cells, bitmap', last, head))
    BY <1>0, <1>h, <2>3, <2>4, ContentAppends
  <2>6. /\ Queue = Content(cells, bitmap, last, head)
        /\ Queue' = Content(cells, bitmap', last, head)
    BY <1>r, <1>n, <2>1, <2>2
  <2> QED BY <2>5, <2>6
<1>8. CASE WriteClose
  <2>1. /\ pc = "close" /\ pc' = "prepare" /\ cells' = cells
        /\ UNCHANGED <<tail, last, head>> /\ bitmap' = bitmap
    BY <1>8, <1>i, <1>w, CloseStep DEF WriteClose
  <2>2. Running /\ Running'
    BY <2>1 DEF Running
  <2> QED BY <1>r, <1>n, <2>1, <2>2
<1>9. CASE WritePrepare
  <2>1. pc = "prepare" /\ pc' = "idle" /\ cells' = cells /\ UNCHANGED <<tail, last>>
    BY <1>9 DEF WritePrepare
  <2>2. Running /\ Running'
    BY <2>1 DEF Running
  <2>3. head + 1 \in Int
    BY <1>0
  <2>4. /\ prepare_head(head + 1, TRUE, TRUE, TRUE)
        /\ head' = IF HeadAllowed(head + 1, TRUE, TRUE) THEN head + 1 ELSE head
    BY <1>9, <1>w, PrepareHeadStep, Zenon
  <2>5. CASE HeadAllowed(head + 1, TRUE, TRUE)
    <3>1. magic[Blk(head + 1)] = ERASED /\ bitmap' = bitmap /\ head' = head + 1
      BY <1>i, <2>3, <2>4, <2>5, PrepareStep
    <3>2. bitmap[Blk(head + 1)] = 0
      BY <1>i, <2>3, <3>1, BlkType DEF Usage, Clean
    <3>3. magic[Blk(head)] = FIFO
      BY <1>i, <2>1 DEF Ring
    <3>4. bitmap_to_offset(bitmap[Blk(head)]) >= Cap
      BY <1>b, <1>i, <3>3 DEF Usage, Sealing, SealedFull
    <3>5. last <= head
      BY <1>r, <2>2 DEF Layout
    <3>6. Content(cells, bitmap, last, head + 1) = Content(cells, bitmap, last, head)
      BY <1>0, <3>2, <3>4, <3>5, ContentAdvances
    <3> QED BY <1>r, <1>n, <2>1, <2>2, <3>1, <3>6
  <2>6. CASE ~HeadAllowed(head + 1, TRUE, TRUE)
    <3>1. magic' = magic /\ bitmap' = bitmap
      BY <1>i, <2>3, <2>4, <2>6, PrepareStep
    <3> QED BY <1>s, <2>1, <3>1
  <2> QED BY <2>5, <2>6
<1>10. CASE FsOpen
  BY <1>10, <1>s DEF FsOpen
<1>11. CASE \E len \in ReadLens : FsRead(len)
  BY <1>11, <1>s DEF FsRead
<1>17. CASE ReadRange
  BY <1>17, <1>s DEF ReadRange
<1>18. CASE ReadData
  BY <1>18, <1>s DEF ReadData
<1>12. CASE ReadAdvance
  BY <1>12, <1>s DEF ReadAdvance
<1>13. CASE FsRemove
  <2>1. /\ pc = "idle" /\ pc' = "gc1" /\ last' = last + 1 /\ cells' = cells
        /\ UNCHANGED <<head, tail>> /\ bitmap' = bitmap
    BY <1>13, <1>i, <1>w, RemoveStep DEF FsRemove
  <2>2. Running /\ Running'
    BY <2>1 DEF Running
  <2>3. last < head
    BY <1>13, <1>i, <1>w DEF FsRemove, Ring
  <2>4. Durable!Remove(Content(cells, bitmap, last, head),
                       Content(cells, bitmap, last + 1, head))
    BY <1>0, <1>h, <2>3, ContentDrops
  <2>5. /\ Queue = Content(cells, bitmap, last, head)
        /\ Queue' = Content(cells, bitmap, last + 1, head)
    BY <1>r, <1>n, <2>1, <2>2
  <2> QED BY <2>4, <2>5
<1>14. CASE RemoveGc
  <2>1. pc \in {"gc1", "gc2"} /\ pc' \in {"gc2", "idle"} /\ UNCHANGED <<head, last>>
    BY <1>14 DEF RemoveGc
  <2>2. Running /\ Running'
    BY <2>1 DEF Running
  <2>3. CASE UNCHANGED <<magic, bitmap, cells, tail>>
    BY <1>s, <2>3
  <2>4. CASE magic[Blk(tail)] = TAIL /\ Erase(Blk(tail))
    <3>1. Layout(magic, tail, last, head)
      BY <1>r, <2>2
    <3>2. tail < last /\ last <= head /\ head - tail < Blocks
      <4>1. tail < last
        BY <1>0, <2>4, <3>1, GcLayout
      <4>2. last <= head /\ head - tail < Blocks
        BY <1>0, <3>1 DEF Layout
      <4> QED BY <4>1, <4>2
    <3>3. \A b \in BlockIds : b # Blk(tail) => cells'[b] = cells[b] /\ bitmap'[b] = bitmap[b]
      BY <1>0, <2>4 DEF Erase
    <3>4. \A p \in last .. head : Blk(p) # Blk(tail) /\ Blk(p) \in BlockIds
      <4> SUFFICES ASSUME NEW p \in last .. head
                   PROVE  Blk(p) # Blk(tail) /\ Blk(p) \in BlockIds
        OBVIOUS
      <4>1. p \in Int /\ p # tail /\ p - tail < Blocks /\ tail - p < Blocks
        BY <1>0, <3>2
      <4> QED BY <1>0, <4>1, BlkApart, BlkType
    <3>5. head \in last .. head /\ \A p \in last .. head - 1 : p \in last .. head
      BY <1>0, <3>2
    <3>6. bitmap'[Blk(head)] = bitmap[Blk(head)] /\ cells'[Blk(head)] = cells[Blk(head)]
      BY <3>3, <3>4, <3>5
    <3>7. \A p \in last .. head - 1 : cells'[Blk(p)] = cells[Blk(p)]
      BY <3>3, <3>4, <3>5
    <3>8. KeepsBytes(cells, cells', bitmap, last, head)
      BY <3>6, <3>7 DEF KeepsBytes
    <3>9. Content(cells', bitmap', last, head) = Content(cells, bitmap, last, head)
      BY <1>0, <3>2, <3>6, <3>8, ContentKeeps
    <3> QED BY <1>r, <1>n, <2>1, <2>2, <3>9
  <2> QED BY <1>14, <1>w, <2>3, <2>4, GcStep
<1>15. CASE Crash
  BY <1>15, <1>s DEF Crash
<1>16. CASE UNCHANGED vars
  BY <1>16, <1>s DEF vars
<1> QED BY <1>1, <1>2, <1>3, <1>4, <1>5, <1>6, <1>7, <1>8, <1>9, <1>10, <1>11, <1>12,
           <1>13, <1>14, <1>15, <1>16, <1>17, <1>18 DEF Next

(* The service implements a durable FIFO, for every geometry and every     *)
(* sequence of calls: what the flash holds grows at one end by bytes       *)
(* programmed, shrinks at the other by one block per fs_remove, and is     *)
(* changed by nothing else, wherever power fails and however often the     *)
(* scan starts over.                                                       *)
THEOREM FifoIsDurable ==
  ASSUME WellUsed
  PROVE  Spec => ImplementsDurableFifo
<1>1. Init => Durable!Init
  BY DurableInit DEF Durable!Init
<1>2. Spec => []Inv
  BY InvAlways
<1>3. Inv /\ Inv' /\ [Next]_vars => [Durable!Next]_Queue
  <2> SUFFICES ASSUME Inv, Inv', [Next]_vars PROVE Durable!Next \/ Queue' = Queue
    OBVIOUS
  <2> QED BY DurableStep DEF Durable!Next
<1> QED BY <1>1, <1>2, <1>3, PTL DEF Spec, ImplementsDurableFifo, Durable!Spec

-----------------------------------------------------------------------------
(***************************************************************************)
(* Readers.  flash_fifo_read copies up to the end of the page but reports  *)
(* the length it was asked for, so what a reader gets is the queue only if *)
(* no read crosses a page: here readers ask for one length that divides    *)
(* the page size.                                                          *)
(***************************************************************************)
AlignedBy(n) == n \in Nat \ {0} /\ ReadLens \subseteq {n} /\ \E d \in Nat : PageSize = n * d
AlignedReads == \E n \in Nat \ {0} : AlignedBy(n)

(* From an aligned offset inside the block, n bytes are left of the page,  *)
(* and the page ends inside the block.                                     *)
LEMMA AlignedPage ==
  ASSUME NEW n, AlignedBy(n), NEW c \in Nat, n * c <= Cap, PageEnd(n * c) > n * c
  PROVE  PageEnd(n * c) >= n * c + n /\ PageEnd(n * c) <= Cap
<1>0. n \in Nat \ {0} /\ PageSize \in Nat \ {0} /\ DataPages \in Nat /\ Cap \in Nat
      /\ Cap = PageSize * DataPages
  BY GeometryAssumption, CapType DEF AlignedBy, Cap
<1>1. PICK d \in Nat : PageSize = n * d
  BY DEF AlignedBy
<1> DEFINE o == n * c
           x == o + PageSize
           q == x \div PageSize
           r == x % PageSize
           E == PageEnd(o)
<1>2. o \in Nat /\ x \in Int
  BY <1>0
<1>3. x = PageSize * q + r /\ q \in Int /\ r \in 0 .. PageSize - 1
  BY <1>0, <1>2, DivMod
<1>4. E = IF Cap - o > PageSize \/ Cap < o THEN q * PageSize ELSE Cap
  BY DEF PageEnd
<1>5. E > o /\ o <= Cap
  OBVIOUS
<1>6. q * PageSize = PageSize * q /\ PageSize * q \in Int
  BY <1>0, <1>3
<1> HIDE DEF q, r, E, o
<1>7. E \in Int /\ E <= Cap
  BY <1>0, <1>2, <1>3, <1>4, <1>5, <1>6 DEF o
<1>8. \E f \in Int : E = n * f
  <2>1. n * (d * q) = (n * d) * q /\ n * (d * DataPages) = (n * d) * DataPages
    BY <1>0, <1>1, <1>3
  <2>2. d * q \in Int /\ d * DataPages \in Int
    BY <1>0, <1>1, <1>3
  <2>3. PageSize * q = n * (d * q) /\ Cap = n * (d * DataPages)
    BY <1>0, <1>1, <2>1
  <2> QED BY <1>4, <1>6, <2>2, <2>3
<1>9. PICK f \in Int : E = n * f
  BY <1>8
<1>10. n * (f - c) = n * f - n * c /\ n * f \in Int /\ n * c \in Int
  BY <1>0, <1>9
<1>11. f - c >= 1
  BY <1>0, <1>5, <1>9, <1>10, Multiples DEF o
<1>12. n * (f - c) >= n
  BY <1>0, <1>9, <1>11, Multiples
<1>13. E >= o + n
  BY <1>0, <1>2, <1>7, <1>9, <1>10, <1>12 DEF o
<1> QED BY <1>7, <1>13 DEF E, o

(* The shared read offset stays aligned and in the block, also when        *)
(* fs_open rewinds it while a read is under way.                           *)
Aligned(n, o) == \E c \in Nat : o = n * c

Reads == {"range", "fetch", "advance"}

Reading(n) ==
  /\ Aligned(n, read_offset) /\ read_offset <= Cap
  /\ pc = "range" =>
       /\ rd.reported = n /\ rd.end <= Cap
       /\ (rd.end = read_offset /\ rd.end = Cap) \/ rd.end >= read_offset + n
  /\ pc = "fetch" => rd.reported = n /\ rd.n = n /\ read_offset + n <= Cap
  /\ pc = "advance" =>
       /\ rd.reported = n /\ read_offset + n <= Cap /\ rd.off + n <= Cap
       /\ rd.got = [k \in 1 .. n |-> cells[Blk(last)][rd.off + k - 1]]

LEMMA AlignedSmall == ASSUME NEW n, AlignedBy(n) PROVE n <= Cap
<1>1. PICK d \in Nat : PageSize = n * d
  BY DEF AlignedBy
<1>2. /\ n \in Nat \ {0} /\ PageSize \in Nat \ {0} /\ DataPages \in Nat \ {0}
      /\ Cap = PageSize * DataPages /\ Cap \in Nat
  BY GeometryAssumption, CapType DEF AlignedBy, Cap
<1>3. d >= 1
  BY <1>1, <1>2
<1>4. n * d >= n /\ PageSize * DataPages >= PageSize
  BY <1>2, <1>3, Multiples
<1> QED BY <1>1, <1>2, <1>4

LEMMA AlignedZero == ASSUME NEW n \in Nat PROVE Aligned(n, 0)
<1>1. n * 0 = 0
  OBVIOUS
<1> QED BY <1>1 DEF Aligned

LEMMA ReadingNext ==
  ASSUME NEW n, AlignedBy(n), TypeOK, Reading(n), [Next]_vars
  PROVE  Reading(n)'
<1> USE DEF flashVars, ramVars, callVars, ghostVars
<1>0. n \in Nat \ {0} /\ Cap \in Nat /\ read_offset \in Nat /\ last \in Int
  BY CapType DEF AlignedBy, TypeOK
<1>z. Aligned(n, 0) /\ 0 <= Cap
  BY <1>0, AlignedZero
<1>r. Aligned(n, read_offset) /\ read_offset <= Cap
  BY DEF Reading
<1>s. ASSUME read_offset' = read_offset, pc' \notin Reads PROVE Reading(n)'
  BY <1>r, <1>s DEF Reading, Reads
<1>o. ASSUME read_offset' = 0, pc' \notin Reads PROVE Reading(n)'
  BY <1>z, <1>o DEF Reading, Reads
<1>1. CASE InitScan
  BY <1>1, <1>o DEF InitScan, Reads
<1>2. CASE FormatErase
  BY <1>2, <1>s DEF FormatErase, Reads
<1>3. CASE FormatHead
  BY <1>3, <1>s DEF FormatHead, Reads
<1>4. CASE InitRescan
  BY <1>4, <1>s DEF InitRescan, Reads
<1>5. CASE \E len \in WriteLens : FsWrite(len)
  BY <1>5, <1>s DEF FsWrite, Reads
<1>6. CASE WriteData
  BY <1>6, <1>s DEF WriteData, Reads
<1>7. CASE WriteUsage
  BY <1>7, <1>s DEF WriteUsage, Reads
<1>8. CASE WriteClose
  BY <1>8, <1>s DEF WriteClose, Reads
<1>9. CASE WritePrepare
  BY <1>9, <1>s DEF WritePrepare, Reads
<1>10. CASE FsOpen
  <2>1. /\ read_offset' = 0 /\ pc' = pc
        /\ rd' = rd /\ cells' = cells /\ last' = last
    BY <1>10 DEF FsOpen
  <2>n. 0 + n <= Cap
    BY <1>0, AlignedSmall
  <2>2. pc = "range" => rd.reported = n /\ rd.end <= Cap /\ rd.end >= 0 + n
    <3> SUFFICES ASSUME pc = "range" PROVE rd.reported = n /\ rd.end <= Cap /\ rd.end >= n
      BY <1>0
    <3>1. /\ rd.reported = n /\ rd.end <= Cap /\ rd.end \in Int
          /\ (rd.end = read_offset /\ rd.end = Cap) \/ rd.end >= read_offset + n
      BY DEF Reading, TypeOK
    <3>2. CASE rd.end >= read_offset + n
      BY <1>0, <3>1, <3>2
    <3>3. CASE rd.end = Cap
      BY <2>n, <1>0, <3>1, <3>3
    <3> QED BY <3>1, <3>2, <3>3
  <2>3. pc = "fetch" => rd.reported = n /\ rd.n = n
    BY DEF Reading
  <2>4. pc = "advance" =>
          /\ rd.reported = n /\ rd.off + n <= Cap
          /\ rd.got = [k \in 1 .. n |-> cells[Blk(last)][rd.off + k - 1]]
    BY DEF Reading
  <2> QED BY <1>z, <2>1, <2>n, <2>2, <2>3, <2>4 DEF Reading
<1>11. ASSUME NEW len \in ReadLens, FsRead(len) PROVE Reading(n)'
  <2>1. len = n
    BY DEF AlignedBy
  <2>2. /\ UNCHANGED <<cells, last, read_offset>> /\ pc' = "range"
        /\ rd' = [NoRead EXCEPT !.end = PageEnd(read_offset), !.reported = len]
    BY <1>11 DEF FsRead
  <2>3. PICK c \in Nat : read_offset = n * c
    BY <1>r DEF Aligned
  <2>4. rd'.end = PageEnd(read_offset) /\ rd'.reported = n
    BY <2>1, <2>2 DEF NoRead
  <2>5. CASE PageEnd(read_offset) = read_offset
    <3>1. read_offset = Cap
      BY <1>0, <2>5, PageEndAfter
    <3> QED BY <1>0, <1>r, <2>2, <2>4, <2>5, <3>1 DEF Reading
  <2>6. CASE PageEnd(read_offset) > read_offset
    <3>1. PageEnd(read_offset) >= read_offset + n /\ PageEnd(read_offset) <= Cap
      BY <1>r, <2>3, <2>6, AlignedPage
    <3> QED BY <1>r, <2>2, <2>4, <3>1 DEF Reading
  <2> QED BY <1>0, <2>5, <2>6, PageEndAfter, PageEndType
<1>17. CASE ReadRange
  <2>1. /\ rd.reported = n /\ rd.end <= Cap /\ rd.end \in Int
        /\ rd.end = read_offset \/ rd.end >= read_offset + n
        /\ read_offset' = read_offset
    BY <1>17 DEF ReadRange, Reading, TypeOK
  <2>2. CASE rd.end - read_offset = 0
    BY <1>17, <1>s, <2>1, <2>2 DEF ReadRange, Reads
  <2>3. CASE rd.end - read_offset # 0
    <3>1. rd.end >= read_offset + n
      BY <1>0, <2>1, <2>3
    <3>2. Smaller(rd.reported, rd.end - read_offset) = n /\ read_offset + n <= Cap
      BY <1>0, <2>1, <3>1 DEF Smaller
    <3>3. pc' = "fetch" /\ rd' = [rd EXCEPT !.n = n]
      BY <1>17, <2>3, <3>2 DEF ReadRange
    <3>4. rd'.n = n /\ rd'.reported = n
      BY <2>1, <3>3 DEF TypeOK
    <3> QED BY <1>r, <2>1, <3>2, <3>3, <3>4 DEF Reading
  <2> QED BY <2>2, <2>3
<1>18. CASE ReadData
  <2>1. /\ rd.reported = n /\ rd.n = n /\ read_offset + n <= Cap
        /\ UNCHANGED <<read_offset, cells, last>>
    BY <1>18 DEF ReadData, Reading
  <2>2. CASE pc' = "idle"
    BY <1>s, <2>1, <2>2 DEF Reads
  <2>3. CASE pc' # "idle"
    <3>1. /\ pc' = "advance"
          /\ rd' = [rd EXCEPT !.off = read_offset, !.got = block_read_data(read_offset, n)]
      BY <1>18, <2>1, <2>3 DEF ReadData
    <3>2. block_read_data(read_offset, n) = [k \in 1 .. n |-> cells[Blk(last)][read_offset + k - 1]]
      <4>1. \A k \in 1 .. n : read_offset + k - 1 \in Offsets
        BY <1>0, <2>1 DEF Offsets
      <4> QED BY <4>1 DEF block_read_data
    <3>3. /\ rd'.off = read_offset /\ rd'.reported = n
          /\ rd'.got = [k \in 1 .. n |-> cells[Blk(last)][read_offset + k - 1]]
      BY <2>1, <3>1, <3>2 DEF TypeOK
    <3> QED BY <1>r, <2>1, <3>1, <3>3 DEF Reading
  <2> QED BY <2>2, <2>3
<1>12. CASE ReadAdvance
  <2>1. pc = "advance" /\ pc' = "idle" /\ read_offset' = read_offset + rd.reported
    BY <1>12 DEF ReadAdvance
  <2>2. rd.reported = n /\ read_offset + n <= Cap
    BY <2>1 DEF Reading
  <2>3. PICK c \in Nat : read_offset = n * c
    BY <1>r DEF Aligned
  <2>4. n * c + n = n * (c + 1) /\ c + 1 \in Nat
    BY <1>0
  <2>5. Aligned(n, read_offset + n)
    BY <2>3, <2>4 DEF Aligned
  <2> QED BY <2>1, <2>2, <2>5 DEF Reading
<1>13. CASE FsRemove
  BY <1>13, <1>s DEF FsRemove, Reads
<1>14. CASE RemoveGc
  BY <1>14, <1>s DEF RemoveGc, Reads
<1>15. CASE Crash
  BY <1>15, <1>o DEF Crash, Reads
<1>16. CASE UNCHANGED vars
  BY <1>16 DEF vars, Reading
<1> QED BY <1>1, <1>2, <1>3, <1>4, <1>5, <1>6, <1>7, <1>8, <1>9, <1>10, <1>11, <1>12,
           <1>13, <1>14, <1>15, <1>16, <1>17, <1>18 DEF Next

LEMMA ReadsContent ==
  ASSUME NEW n, AlignedBy(n), Inv, Reading(n)
  PROVE  ReadsQueue
<1> SUFFICES ASSUME pc = "advance"
             PROVE  /\ Len(rd.got) = rd.reported
                    /\ rd.off + rd.reported <= Len(Queue)
                    /\ \A k \in DOMAIN rd.got : rd.got[k] = Queue[rd.off + k]
  BY DEF ReadsQueue
<1>0. /\ n \in Nat /\ Cap \in Nat \ {0} /\ last \in Int /\ head \in Int /\ tail \in Int
      /\ rd.off \in Nat /\ bitmap \in [BlockIds -> Nat]
  BY CapType DEF AlignedBy, Inv, TypeOK
<1>1. /\ rd.reported = n /\ rd.off + n <= Cap
      /\ rd.got = [k \in 1 .. n |-> cells[Blk(last)][rd.off + k - 1]]
  BY DEF Reading
<1>2. last < head /\ Layout(magic, tail, last, head)
  BY DEF Inv, Ring, Running
<1>3. Queue = Content(cells, bitmap, last, head) /\ last <= head
  BY <1>0, <1>2, QueueIs
<1>4. HoldsBytes(cells)
  BY DEF Inv, Written, Payload
<1> DEFINE m == ContentLen(bitmap, last, head)
<1>5. Len(Queue) = m /\ \A k \in 1 .. m : Queue[k] = ByteAt(cells, last, k)
  BY <1>0, <1>3, <1>4, ContentSeq
<1>6. m >= Cap /\ m \in Nat
  <2> DEFINE u == Smaller(Cap, bitmap_to_offset(bitmap[Blk(head)]))
  <2>1. u \in 0 .. Cap /\ m = Cap * (head - last) + u /\ m \in Nat
    BY <1>0, <1>3, ContentLenType DEF ContentLen
  <2>2. Cap * (head - last) >= Cap
    BY <1>0, <1>2, Multiples
  <2> HIDE DEF u, m
  <2>3. Cap * (head - last) \in Int
    BY <1>0
  <2> QED BY <1>0, <2>1, <2>2, <2>3
<1> HIDE DEF m
<1>7. Len(rd.got) = n /\ DOMAIN rd.got = 1 .. n
  <2>1. \A k \in 1 .. n : cells[Blk(last)][rd.off + k - 1] \in PayloadBytes
    <3> TAKE k \in 1 .. n
    <3>1. rd.off + k - 1 \in Offsets
      BY <1>0, <1>1 DEF Offsets
    <3> QED BY <1>0, <1>4, <3>1, BlkType DEF HoldsBytes
  <2>2. rd.got \in [1 .. n -> PayloadBytes]
    BY <1>1, <2>1
  <2> QED BY <1>0, <2>2, FcnSeq
<1>8. ASSUME NEW k \in 1 .. n PROVE rd.got[k] = Queue[rd.off + k]
  <2> DEFINE j == (rd.off + k) - 1
             q == j \div Cap
             r == j % Cap
  <2>0. rd.off \in Nat /\ n \in Nat /\ rd.off + n <= Cap /\ Cap \in Nat /\ m \in Nat /\ Cap <= m
    BY <1>0, <1>1, <1>6
  <2>1. rd.off + k \in 1 .. m /\ j \in 0 .. Cap - 1 /\ j = rd.off + k - 1
    BY <2>0
  <2>3. Queue[rd.off + k] = cells[Blk(last + q)][r]
    BY <1>5, <2>1 DEF ByteAt
  <2> HIDE DEF j
  <2>j. j \in Int
    BY <2>0, <2>1
  <2>2. j = Cap * q + r /\ q \in Int /\ r \in 0 .. Cap - 1
    BY <1>0, <2>j, DivMod
  <2> HIDE DEF q, r
  <2>4. q = 0
    BY <1>0, <2>1, <2>2, Multiples
  <2>5. Cap * q = 0 /\ last + q = last
    BY <1>0, <2>4
  <2>6. r = j
    BY <2>1, <2>2, <2>5
  <2>7. Queue[rd.off + k] = cells[Blk(last)][rd.off + k - 1]
    BY <2>1, <2>3, <2>5, <2>6
  <2>8. rd.got[k] = cells[Blk(last)][rd.off + k - 1]
    BY <1>1
  <2> QED BY <2>7, <2>8
<1>9. Len(rd.got) = rd.reported
  BY <1>1, <1>7
<1>10. rd.off + rd.reported <= Len(Queue)
  <2>1. rd.off + n <= m /\ m = Len(Queue)
    BY <1>0, <1>1, <1>5, <1>6
  <2> QED BY <1>1, <2>1
<1>11. \A k \in DOMAIN rd.got : rd.got[k] = Queue[rd.off + k]
  BY <1>7, <1>8
<1> QED BY <1>9, <1>10, <1>11

(* What fs_read reports is what it copied, and it is the oldest part of    *)
(* the queue, in order, from the offset the reader has reached, however    *)
(* the writer, fs_open and power failures interleave, for every reader     *)
(* whose reads divide the page.                                            *)
THEOREM ReadsAreTheQueue ==
  ASSUME WellUsed, AlignedReads
  PROVE  Spec => []ReadsQueue
<1>1. PICK n \in Nat \ {0} : AlignedBy(n)
  BY DEF AlignedReads
<1>2. Init => Reading(n)
  <2> SUFFICES ASSUME Init PROVE Reading(n)
    OBVIOUS
  <2>1. read_offset = 0 /\ pc = "off" /\ 0 <= Cap
    BY CapType DEF Init
  <2> QED BY <2>1, AlignedZero DEF Reading
<1>3. TypeOK /\ Reading(n) /\ [Next]_vars => Reading(n)'
  BY <1>1, ReadingNext
<1>4. Inv /\ Reading(n) => ReadsQueue
  BY <1>1, ReadsContent
<1> QED BY <1>2, <1>3, <1>4, InvAlways, TypeCorrect, PTL DEF Spec

=============================================================================
