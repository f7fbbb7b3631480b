------------------------------ MODULE FlashFifo ------------------------------
(***************************************************************************)
(* The flash-fifo service: a FIFO of bytes kept in the erase blocks of a   *)
(* NOR flash volume (src/services/flash-fifo).  Every block starts with a  *)
(* header page holding a magic and a usage bitmap; the magic only ever     *)
(* loses bits: erased -> head -> fifo -> tail, and an erase restores it.   *)
(*                                                                         *)
(* One step of this module is one flash operation (page program, header    *)
(* program, block erase), so that a power failure may fall between any     *)
(* two of them.  A service call holds the mutex from its first step to its *)
(* last: pc names the call in progress and "idle" means the mutex is free. *)
(* fs_open takes no mutex and is enabled in the middle of other calls.     *)
(***************************************************************************)
EXTENDS Integers, Sequences, FiniteSets

CONSTANTS
  Blocks,      (* number of erase blocks in the volume                     *)
  PageSize,    (* bytes in a flash page                                    *)
  DataPages,   (* pages of a block after its header page                   *)
  Unit,        (* bytes per bitmap bit: block_size / FLASH_FIFO_BITMAP_SIZE *)
  WriteLens,   (* lengths that callers pass to fs_write                    *)
  ReadLens,    (* lengths that callers pass to fs_read                     *)
  Stamps,      (* payload bytes are stamped 1..Stamps, cyclically          *)
  MaxPos,      (* bound: no write starts once head has reached it          *)
  Images,      (* initial flash contents: "blank", "dirty", "formatted"    *)
  Faults,      (* kinds of fault: "crash", "read", "write"                 *)
  Disciplined  (* TRUE: callers remove a block only after reading from it  *)

ASSUME GeometryAssumption ==
  /\ Blocks \in Nat /\ Blocks >= 2
  /\ PageSize \in Nat \ {0}
  /\ DataPages \in Nat \ {0}
  /\ Unit \in Nat \ {0}

ASSUME ClientAssumption ==
  /\ WriteLens \subseteq Nat
  /\ ReadLens \subseteq Nat \ {0}
  /\ Stamps \in Nat \ {0}
  /\ MaxPos \in Nat
  /\ Images \subseteq {"blank", "dirty", "formatted"}
  /\ Disciplined \in BOOLEAN

VARIABLES
  magic,       (* header magic of each block                               *)
  bitmap,      (* cleared bits of each block's usage bitmap                *)
  cells,       (* payload bytes of each block                              *)
  pc,          (* service call in progress and its next flash operation    *)
  head, last, tail, read_offset,    (* struct FlashFifo, lost on a crash    *)
  rem, off,    (* locals of flash_fifo_write: bytes left, write offset     *)
  idx,         (* block counter of the format erase loop                   *)
  stamp,       (* ghost: stamp of the next payload byte                    *)
  rd,          (* locals of flash_fifo_read, and what it has copied        *)
  sawData      (* ghost: a read succeeded since the last remove            *)

flashVars == <<magic, bitmap, cells>>
ramVars == <<head, last, tail, read_offset>>
callVars == <<rem, off, idx>>
ghostVars == <<stamp, rd, sawData>>
vars == <<flashVars, pc, ramVars, callVars, ghostVars>>

(***************************************************************************)
(* Header magics as levels: programming can only clear bits, and           *)
(* 0xffffffff & 0x77777777 & 0x33333333 & 0 is a chain, so programming     *)
(* magic m over magic n leaves the smaller level.                          *)
(***************************************************************************)
TAIL == 0
FIFO == 1
HEAD == 2
ERASED == 3
Magics == TAIL .. ERASED

Blank == 0       (* an erased payload byte, 0xff                           *)
Corrupt == -1    (* a byte programmed twice, or not payload at all         *)

BlockIds == 0 .. Blocks - 1
Cap == PageSize * DataPages
Offsets == 0 .. Cap - 1
Smaller(a, b) == IF a <= b THEN a ELSE b
Larger(a, b) == IF a <= b THEN b ELSE a

Blk(pos) == pos % Blocks

(* A call that may fail does so only when that kind of fault is enabled.   *)
Outcomes(kind) == IF kind \in Faults THEN BOOLEAN ELSE {TRUE}

(***************************************************************************)
(* read_header: on an error the caller's zeroed struct is left alone, and  *)
(* a zeroed header reads as TAIL; none of the callers below looks at the   *)
(* returned status.                                                        *)
(***************************************************************************)
read_header(pos, ok) == IF ok THEN magic[Blk(pos)] ELSE TAIL

(* find_block: first position at or after start whose magic matches.       *)
Matches(start, m) == {i \in start .. start + Blocks - 1 : magic[Blk(i)] = m}
find_block(start, m) == CHOOSE i \in Matches(start, m) :
                          \A j \in Matches(start, m) : i <= j

(***************************************************************************)
(* find_fifo, the scan that rebuilds head, last and tail.  broken is the   *)
(* set of find_block calls (numbered in source order) that fail because a  *)
(* read in them fails.                                                     *)
(***************************************************************************)
Found(call, start, m, broken) == call \notin broken /\ Matches(start, m) # {}

ScanResult(ret, h, l, t) == [ret |-> ret, head |-> h, last |-> l, tail |-> t]

FindHead_OffByOne(l, t, broken) ==
  IF Found(5, l, HEAD, broken) THEN ScanResult("OK", find_block(l, HEAD), l, t)
  ELSE IF Found(6, l, ERASED, broken) THEN ScanResult("OK", find_block(l, ERASED), l, t)
  ELSE ScanResult("FAILED", 0, 0, 0)
FindHead(l, t, broken) ==
  IF Found(5, l, HEAD, broken) THEN ScanResult("OK", find_block(l, HEAD), l, t)
  ELSE IF Found(6, l, ERASED, broken) THEN ScanResult("OK", find_block(l, ERASED) - 1, l, t)
  ELSE ScanResult("FAILED", 0, 0, 0)

FindLast(s, broken) ==
  IF Found(3, s, FIFO, broken) THEN find_block(s, FIFO) ELSE find_block(s, HEAD)

find_fifo(broken) ==
  LET e == find_block(0, ERASED)
      hasTail == Found(2, e, TAIL, broken)
      s == IF hasTail THEN find_block(e, TAIL) ELSE e
      l == FindLast(s, broken)
  IN IF ~Found(1, 0, ERASED, broken) THEN ScanResult("FAILED", 0, 0, 0)
     ELSE IF ~Found(3, s, FIFO, broken) /\ ~Found(4, s, HEAD, broken)
     THEN ScanResult(IF hasTail THEN "FAILED" ELSE "EMPTY", 0, 0, 0)
     ELSE FindHead(l, IF hasTail THEN s ELSE l, broken)

BrokenScans == IF "read" \in Faults THEN SUBSET (1 .. 6) ELSE {{}}

-----------------------------------------------------------------------------
(* Flash operations: program a header, program payload bytes, erase.       *)

write_header(pos, m, bits, ok) ==
  IF ok
  THEN /\ magic' = [magic EXCEPT ![Blk(pos)] = Smaller(@, m)]
       /\ bitmap' = [bitmap EXCEPT ![Blk(pos)] = Larger(@, bits)]
  ELSE UNCHANGED <<magic, bitmap>>

StampAt(k) == ((stamp - 1 + k) % Stamps) + 1

block_write_data(o, n, ok) ==
  IF ok
  THEN cells' = [cells EXCEPT ![Blk(head)] =
                   [i \in Offsets |->
                      IF i \notin o .. o + n - 1 THEN @[i]
                      ELSE IF @[i] = Blank THEN StampAt(i - o) ELSE Corrupt]]
  ELSE UNCHANGED cells

Erase(b) ==
  /\ magic' = [magic EXCEPT ![b] = ERASED]
  /\ bitmap' = [bitmap EXCEPT ![b] = 0]
  /\ cells' = [cells EXCEPT ![b] = [i \in Offsets |-> Blank]]

(***************************************************************************)
(* prepare_head: both pos and its successor must read as erased; a failing *)
(* second read leaves the erased magic of the first one in the struct.     *)
(***************************************************************************)
HeadAllowed_NoSpare(pos, ok1, ok2) == ok2 => read_header(pos, TRUE) = ERASED
HeadAllowed(pos, ok1, ok2) ==
  /\ read_header(pos + 1, ok1) = ERASED
  /\ ok2 => read_header(pos, TRUE) = ERASED

prepare_head(pos, ok1, ok2, wok) ==
  IF HeadAllowed(pos, ok1, ok2)
  THEN write_header(pos, HEAD, 0, wok)
  ELSE UNCHANGED <<magic, bitmap>>

close_head_Skipped(pos, ok, wok) == UNCHANGED <<magic, bitmap>>
close_head(pos, ok, wok) ==
  IF read_header(pos, ok) = HEAD
  THEN write_header(pos, FIFO, 0, wok)
  ELSE UNCHANGED <<magic, bitmap>>

-----------------------------------------------------------------------------
(* flash_fifo_init and flash_fifo_format.                                  *)

Image(kind) ==
  CASE kind = "blank" -> [b \in BlockIds |-> ERASED]
    [] kind = "dirty" -> [b \in BlockIds |-> TAIL]
    [] kind = "formatted" -> [b \in BlockIds |-> IF b = 0 THEN HEAD ELSE ERASED]

NoRead == [end |-> 0, n |-> 0, off |-> 0, got |-> <<>>, reported |-> 0]

Init ==
  /\ \E kind \in Images : magic = Image(kind)
  /\ bitmap = [b \in BlockIds |-> 0]
  /\ cells = [b \in BlockIds |-> [i \in Offsets |-> Blank]]
  /\ pc = "off"
  /\ head = 0 /\ last = 0 /\ tail = 0 /\ read_offset = 0
  /\ rem = 0 /\ off = 0 /\ idx = 0
  /\ stamp = 1 /\ rd = NoRead
  /\ sawData = FALSE

Adopt(scan) ==
  head' = scan.head /\ last' = scan.last /\ tail' = scan.tail

(* First scan: FAILED formats, EMPTY is taken for a usable FIFO.           *)
InitScan ==
  /\ pc = "off"
  /\ \E broken \in BrokenScans :
       LET scan == find_fifo(broken)
       IN /\ Adopt(scan)
          /\ pc' = IF scan.ret = "FAILED" THEN "erase" ELSE "idle"
  /\ idx' = 0
  /\ read_offset' = 0
  /\ UNCHANGED <<flashVars, rem, off, ghostVars>>

(* The volume is erased block by block.  An erase that fails ends there,   *)
(* and flash_fifo_format goes on: it does not look at the result.          *)
FormatErase ==
  /\ pc = "erase"
  /\ \E ok \in Outcomes("write") :
       /\ IF ok THEN Erase(idx) ELSE UNCHANGED flashVars
       /\ idx' = IF ok THEN (idx + 1) % Blocks ELSE 0
       /\ pc' = IF ok /\ idx < Blocks - 1 THEN "erase" ELSE "format"
  /\ UNCHANGED <<ramVars, rem, off, ghostVars>>

FormatHead ==
  /\ pc = "format"
  /\ \E ok1, ok2 \in Outcomes("read"), wok \in Outcomes("write") :
       prepare_head(0, ok1, ok2, wok)
  /\ pc' = "rescan"
  /\ UNCHANGED <<cells, ramVars, callVars, ghostVars>>

(* Second scan: anything but OK makes flash_fifo_init fail for good.       *)
InitRescan ==
  /\ pc = "rescan"
  /\ \E broken \in BrokenScans :
       LET scan == find_fifo(broken)
       IN /\ Adopt(scan)
          /\ pc' = IF scan.ret = "OK" THEN "idle" ELSE "dead"
  /\ UNCHANGED <<flashVars, read_offset, callVars, ghostVars>>

-----------------------------------------------------------------------------
(* fs_write -> flash_fifo_write                                            *)

bitmap_to_offset(bits) == bits * Unit
offset_to_bitmap_Floor(o) == o \div Unit
offset_to_bitmap(o) == (o - 1 + Unit) \div Unit

FsWrite(len) ==
  /\ pc = "idle"
  /\ head < MaxPos
  /\ pc' = "data" /\ rem' = len /\ off' = 0
  /\ UNCHANGED <<flashVars, ramVars, idx, ghostVars>>

(***************************************************************************)
(* get_block_write_range: an offset of 0 asks the bitmap of the head.  The *)
(* range ends at the next page boundary.                                   *)
(***************************************************************************)
RangeOK(ok) == off < Cap + PageSize /\ (off = 0 => read_header(head, ok) = HEAD)
RangeStart == IF off = 0 THEN bitmap_to_offset(bitmap[Blk(head)]) ELSE off
PageEnd(o) == IF Cap - o > PageSize \/ Cap < o THEN ((o + PageSize) \div PageSize) * PageSize
                                               ELSE Cap
get_block_write_range == PageEnd(RangeStart) - RangeStart

WriteChunk == Smaller(rem, get_block_write_range)

(* One turn of the write loop: program one page, or leave the loop.        *)
WriteData ==
  /\ pc = "data"
  /\ \E ok \in Outcomes("read"), wok \in Outcomes("write") :
       LET n == WriteChunk
       IN \/ /\ RangeOK(ok) /\ n > 0
             /\ block_write_data(RangeStart, n, wok)
             /\ stamp' = StampAt(n)
             /\ rem' = rem - n
             /\ off' = RangeStart + n
             /\ UNCHANGED pc
          \/ /\ ~(RangeOK(ok) /\ n > 0)
             /\ off' = IF RangeOK(ok) THEN RangeStart ELSE off
             /\ pc' = "usage"
             /\ UNCHANGED <<cells, stamp, rem>>
  /\ UNCHANGED <<magic, bitmap, ramVars, idx, rd, sawData>>

set_block_write_usage_Skipped(ok, wok) == UNCHANGED <<magic, bitmap>>
set_block_write_usage(ok, wok) ==
  IF read_header(head, ok) = HEAD
  THEN write_header(head, HEAD, offset_to_bitmap(off), wok)
  ELSE UNCHANGED <<magic, bitmap>>

(* Account for the bytes in the bitmap; what did not fit closes the head.  *)
WriteUsage ==
  /\ pc = "usage"
  /\ \E ok \in Outcomes("read"), wok \in Outcomes("write") : set_block_write_usage(ok, wok)
  /\ pc' = IF rem > 0 THEN "close" ELSE "idle"
  /\ off' = 0
  /\ UNCHANGED <<cells, ramVars, rem, idx, ghostVars>>

WriteClose ==
  /\ pc = "close"
  /\ \E ok \in Outcomes("read"), wok \in Outcomes("write") : close_head(head, ok, wok)
  /\ pc' = "prepare"
  /\ UNCHANGED <<cells, ramVars, callVars, ghostVars>>

WritePrepare ==
  /\ pc = "prepare"
  /\ \E ok1, ok2 \in Outcomes("read"), wok \in Outcomes("write") :
       /\ prepare_head(head + 1, ok1, ok2, wok)
       /\ head' = IF HeadAllowed(head + 1, ok1, ok2) /\ wok THEN head + 1 ELSE head
  /\ pc' = "idle"
  /\ rem' = 0
  /\ UNCHANGED <<cells, last, tail, read_offset, off, idx, ghostVars>>

-----------------------------------------------------------------------------
(* fs_open for reading: rewinds the shared read offset, without the mutex. *)

Running == pc \notin {"off", "erase", "format", "rescan", "dead"}

FsOpen ==
  /\ Running
  /\ read_offset' = 0
  /\ UNCHANGED <<flashVars, pc, head, last, tail, callVars, ghostVars>>

(***************************************************************************)
(* fs_read -> flash_fifo_read.  read_len bytes are copied, the caller's    *)
(* len is what read_offset advances by and what is reported.  The loop of  *)
(* fs_read runs once, because the reported length is all it asked for.     *)
(* read_offset is read for the end of the range, for read_len, for the     *)
(* flash address and for the sum, and fs_open may rewind it in between.    *)
(***************************************************************************)
FsRead_NoEmptyCheck(len) ==
  /\ pc = "idle"
  /\ rd' = [NoRead EXCEPT !.end = PageEnd(read_offset), !.reported = len]
  /\ pc' = "range"
  /\ UNCHANGED <<flashVars, ramVars, callVars, stamp, sawData>>
FsRead(len) ==
  /\ pc = "idle"
  /\ head # last
  /\ rd' = [NoRead EXCEPT !.end = PageEnd(read_offset), !.reported = len]
  /\ pc' = "range"
  /\ UNCHANGED <<flashVars, ramVars, callVars, stamp, sawData>>

(* read_len; with nothing left of the block the call returns EMPTY.        *)
ReadRange ==
  /\ pc = "range"
  /\ LET left == rd.end - read_offset
     IN IF left = 0
        THEN rd' = NoRead /\ pc' = "idle"
        ELSE rd' = [rd EXCEPT !.n = Smaller(rd.reported, left)] /\ pc' = "fetch"
  /\ UNCHANGED <<flashVars, ramVars, callVars, stamp, sawData>>

block_read_data(o, n) ==
  [k \in 1 .. n |-> IF o + k - 1 \in Offsets THEN cells[Blk(last)][o + k - 1] ELSE Corrupt]

ReadData ==
  /\ pc = "fetch"
  /\ \E ok \in Outcomes("read") :
       IF ok
       THEN /\ rd' = [rd EXCEPT !.off = read_offset, !.got = block_read_data(read_offset, rd.n)]
            /\ pc' = "advance"
       ELSE rd' = NoRead /\ pc' = "idle"
  /\ UNCHANGED <<flashVars, ramVars, callVars, stamp, sawData>>

(* A rewind that falls between the load and the store of this addition is  *)
(* lost: the state is then that of a run without it.                       *)
ReadAdvance ==
  /\ pc = "advance"
  /\ read_offset' = read_offset + rd.reported
  /\ sawData' = TRUE
  /\ rd' = NoRead
  /\ pc' = "idle"
  /\ UNCHANGED <<flashVars, head, last, tail, callVars, stamp>>

-----------------------------------------------------------------------------
(* fs_remove: the last block joins the tail, then two blocks are collected. *)

FsRemove ==
  /\ pc = "idle"
  /\ Disciplined => sawData
  /\ \E ok \in Outcomes("read"), wok \in Outcomes("write") :
       /\ read_header(last, ok) = FIFO
       /\ write_header(last, TAIL, 0, wok)
  /\ last' = last + 1
  /\ sawData' = FALSE
  /\ pc' = "gc1"
  /\ UNCHANGED <<cells, head, tail, read_offset, callVars, stamp, rd>>

(* flash_fifo_gc_single                                                    *)
flash_fifo_gc_single_Unchecked == Erase(Blk(tail)) /\ tail' = tail + 1
flash_fifo_gc_single_Never == UNCHANGED <<flashVars, tail>>
flash_fifo_gc_single ==
  \E ok \in Outcomes("read"), wok \in Outcomes("write") :
    IF read_header(tail, ok) = TAIL /\ wok
    THEN Erase(Blk(tail)) /\ tail' = tail + 1
    ELSE UNCHANGED <<flashVars, tail>>

RemoveGc ==
  /\ pc \in {"gc1", "gc2"}
  /\ flash_fifo_gc_single
  /\ pc' = IF pc = "gc1" THEN "gc2" ELSE "idle"
  /\ UNCHANGED <<head, last, read_offset, callVars, ghostVars>>

-----------------------------------------------------------------------------
(* Power failure: RAM is lost, the flash stays as the last operation left  *)
(* it.  Without the fault kind "crash" power fails only between calls, or  *)
(* once flash_fifo_init has given up.                                      *)

Crash ==
  /\ pc # "off"
  /\ pc \in {"idle", "dead"} \/ "crash" \in Faults
  /\ pc' = "off"
  /\ head' = 0 /\ last' = 0 /\ tail' = 0 /\ read_offset' = 0
  /\ rem' = 0 /\ off' = 0 /\ idx' = 0
  /\ rd' = NoRead
  /\ sawData' = FALSE
  /\ UNCHANGED <<flashVars, stamp>>

Next ==
  \/ InitScan \/ FormatErase \/ FormatHead \/ InitRescan
  \/ \E len \in WriteLens : FsWrite(len)
  \/ WriteData \/ WriteUsage \/ WriteClose \/ WritePrepare
  \/ FsOpen
  \/ \E len \in ReadLens : FsRead(len)
  \/ ReadRange \/ ReadData \/ ReadAdvance
  \/ FsRemove \/ RemoveGc
  \/ Crash

Spec == Init /\ [][Next]_vars

(***************************************************************************)
(* The producer finishes and repeats its calls, the consumer reads on and  *)
(* removes what it has read; nothing forces power to fail.                 *)
(***************************************************************************)
Service ==
  \/ InitScan \/ FormatErase \/ FormatHead \/ InitRescan
  \/ WriteData \/ WriteUsage \/ WriteClose \/ WritePrepare
  \/ ReadRange \/ ReadData \/ ReadAdvance \/ RemoveGc

FairSpec ==
  /\ Spec
  /\ WF_vars(Service)
  /\ \A len \in WriteLens : SF_vars(FsWrite(len))
  /\ \A len \in ReadLens : SF_vars(FsRead(len))
  /\ SF_vars(FsOpen)
  /\ SF_vars(FsRemove)

-----------------------------------------------------------------------------
(* Properties                                                              *)

Pcs == {"off", "erase", "format", "rescan", "dead", "idle", "data", "usage",
        "close", "prepare", "range", "fetch", "advance", "gc1", "gc2"}

(* Every variable keeps the type its C counterpart has.                    *)
TypeOK ==
  /\ magic \in [BlockIds -> Magics]
  /\ bitmap \in [BlockIds -> Nat]
  /\ cells \in [BlockIds -> [Offsets -> Int]]
  /\ pc \in Pcs
  /\ head \in Int /\ last \in Nat /\ tail \in Nat /\ read_offset \in Nat
  /\ rem \in Nat /\ off \in Nat /\ idx \in BlockIds
  /\ stamp \in Nat /\ sawData \in BOOLEAN
  /\ rd \in [end : Int, n : Int, off : Nat, got : Seq(Int), reported : Nat]

(***************************************************************************)
(* "We have to maintain at least one erased block" (find_fifo): whenever   *)
(* the service runs there is one, so the ring keeps a place where the scan *)
(* after the next power failure can start.                                 *)
(***************************************************************************)
OneErased == Running => \E b \in BlockIds : magic[b] = ERASED

(***************************************************************************)
(* A power failure between two calls changes nothing: the scan would find  *)
(* the same head, last and tail blocks that the RAM copy names.            *)
(***************************************************************************)
RecoveryAgrees ==
  pc = "idle" =>
    LET scan == find_fifo({})
    IN /\ scan.ret = "OK"
       /\ Blk(scan.head) = Blk(head)
       /\ Blk(scan.last) = Blk(last)
       /\ Blk(scan.tail) = Blk(tail)

(***************************************************************************)
(* flash_fifo_read takes a closed block for full without looking at its    *)
(* bitmap ("We assume it is full, because it is full"): no call sequence   *)
(* and no power failure closes a block that still has room.                *)
(***************************************************************************)
SealedFull == \A b \in BlockIds : magic[b] = FIFO => bitmap_to_offset(bitmap[b]) >= Cap

(***************************************************************************)
(* The FIFO's contents, as the flash alone determines them: what the scan  *)
(* finds, from the last block up to the bytes accounted for in the head.   *)
(***************************************************************************)
Contents(scan) ==
  LET len == Cap * (scan.head - scan.last)
               + Smaller(Cap, bitmap_to_offset(bitmap[Blk(scan.head)]))
  IN IF scan.ret # "OK" THEN <<>>
     ELSE [k \in 1 .. len |-> cells[Blk(scan.last + (k - 1) \div Cap)][(k - 1) % Cap]]

Queue == CHOOSE q \in {Contents(scan) : scan \in {find_fifo({})}} : TRUE

(***************************************************************************)
(* The service implements a durable FIFO: in spite of restarts the         *)
(* contents only ever grow at one end, by bytes programmed once, and       *)
(* shrink at the other by one whole block per fs_remove.                   *)
(***************************************************************************)
Durable == INSTANCE DurableFifo WITH
             queue <- Queue, Chunk <- Cap, Capacity <- Cap * (Blocks - 1),
             Bytes <- IF "crash" \in Faults THEN Corrupt .. Stamps ELSE Blank .. Stamps

ImplementsDurableFifo == Durable!Spec

(***************************************************************************)
(* flash_fifo_read: "Compute the actual number of bytes to read": fs_read  *)
(* reports as many bytes as it copied, and they are the FIFO's oldest ones *)
(* in order, also when fs_open rewinds or a writer runs ahead.             *)
(***************************************************************************)
ReadsQueue ==
  pc = "advance" =>
    /\ Len(rd.got) = rd.reported
    /\ rd.off + rd.reported <= Len(Queue)
    /\ \A k \in DOMAIN rd.got : rd.got[k] = Queue[rd.off + k]

(***************************************************************************)
(* flash_fifo_read: "Now we are reading at the last position. We assume it *)
(* is full, because it is full": whatever fs_read returns comes from a     *)
(* block that was closed and not yet removed.                              *)
(***************************************************************************)
ReadsClosedBlock == pc = "advance" => magic[Blk(last)] = FIFO

(***************************************************************************)
(* get_block_write_range reads the bitmap to "determine range of the data  *)
(* already written": between calls every programmed byte of the head is    *)
(* below the offset the bitmap gives, so no byte is programmed twice.      *)
(***************************************************************************)
BitmapCovers ==
  (pc = "idle" /\ magic[Blk(head)] = HEAD) =>
    \A i \in Offsets : cells[Blk(head)][i] # Blank =>
                         i < bitmap_to_offset(bitmap[Blk(head)])

(***************************************************************************)
(* tail, last and head keep their order and never lap each other, so that  *)
(* the unsigned head - tail of fs_info does not wrap and size_used stays   *)
(* below size_total.                                                       *)
(***************************************************************************)
RingOrder == Running => tail <= last /\ last <= head /\ head - tail < Blocks

(***************************************************************************)
(* find_fifo: "No multiple heads, sorry": wherever the power fails, the    *)
(* flash never shows two heads.                                            *)
(***************************************************************************)
OneHead == Cardinality({b \in BlockIds : magic[b] = HEAD}) <= 1

(***************************************************************************)
(* A full FIFO does not stay full: once the head is closed and the next    *)
(* block is taken, the consumer's removes free blocks and a later fs_write *)
(* opens a new head (up to MaxPos).                                        *)
(***************************************************************************)
HeadClosed == pc = "idle" /\ magic[Blk(head)] # HEAD
WriterUnblocked == (HeadClosed /\ head < MaxPos) ~> (Running /\ magic[Blk(head)] = HEAD)

=============================================================================
