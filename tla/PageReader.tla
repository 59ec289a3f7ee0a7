----------------------------- MODULE PageReader -----------------------------
(***************************************************************************)
(* How main goes through the bytes of one page: BTreeReader reads its      *)
(* header and the array of cell pointers, one RecordHeaderReader reads     *)
(* every cell.  It is what makes the cells of WalParser out of bytes.      *)
(*                                                                         *)
(* A variable length integer is read in one step (module VarInt has the    *)
(* steps).  What a record is presented with, main formats (WalParser).     *)
(***************************************************************************)
EXTENDS Bytes, ColumnValue, Ranks

CONSTANT PageBytes  \* the pages of a log, each as its bytes

ASSUME PagesAssumption == PageBytes \subseteq Seq(Byte)

VARIABLES
  page,       \* frameData
  index,      \* outputIndexes
  pc,         \* where main is, or how the page ended
  type,       \* _btreeHeader.type
  cellCount,  \* _btreeHeader.cellCount
  pointers,   \* _pointerArray
  ci,         \* the pointer the cell loop is at
  dataIt,     \* main's it, then its ptrPos
  startPos,   \* where the record header starts
  headerSize, \* the size it says it has
  formats,    \* headerFormats
  columns,    \* _headerData; at, for the properties, is where a column's bytes are
  rowid,      \* _rowid
  presented   \* the records headerData() returned, in order

headerVars == <<page, index, type, cellCount>>
recordVars == <<startPos, headerSize, formats>>
readerVars == <<columns, rowid>>
vars == <<page, index, pc, type, cellCount, pointers, ci, dataIt, startPos, headerSize,
          formats, columns, rowid, presented>>

-----------------------------------------------------------------------------
(* sizeof(BTreePageHeader), packed; one byte of type, the cell count at 3. *)
HeaderSize  == 8
PointerSize == 2

LeafTable == 13
LeafIndex == 10
Interior  == {2, 5}

(* A byte of the buffer the header is copied to, which nothing initialises *)
(* where the page is shorter than the header.                              *)
Buffered(k) == IF k <= Len(page) THEN {page[k]} ELSE Byte

(* The two bytes of an uint16_t, read as readPointerArray does. *)
Word(bytes) == bytes[1] * 2 * Radix + bytes[2]

ReadHeader ==
  /\ pc = "header"
  /\ page # <<>>
  /\ type' = page[1]
  /\ \E high \in Buffered(4), low \in Buffered(5) : cellCount' = Word(<<high, low>>)
  /\ dataIt' = Plus(page, dataIt, HeaderSize)
  /\ pc' = "pointers"
  /\ UNCHANGED <<page, index, pointers, ci, recordVars, readerVars, presented>>

(* begin() of an empty array is not null: its first byte is read. *)
HeaderOverrun ==
  /\ pc = "header"
  /\ page = <<>>
  /\ pc' = "aborted"
  /\ UNCHANGED <<headerVars, pointers, ci, dataIt, recordVars, readerVars, presented>>

NodeSkipped ==
  \/ type \in Interior
  \/ type = LeafIndex /\ ~index
  \/ type = LeafTable /\ index

SkipPage ==
  /\ pc = "pointers"
  /\ NodeSkipped
  /\ pc' = "done"
  /\ UNCHANGED <<headerVars, pointers, ci, dataIt, recordVars, readerVars, presented>>

MorePointers == pc = "pointers" /\ ~NodeSkipped /\ Len(pointers) < cellCount

ReadPointer ==
  /\ MorePointers
  /\ Fits(page, dataIt, PointerSize)
  /\ pointers' = Append(pointers, Word(Slice(page, dataIt, PointerSize)))
  /\ dataIt' = Plus(page, dataIt, PointerSize)
  /\ UNCHANGED <<headerVars, pc, ci, recordVars, readerVars, presented>>

DefectPointersCutOff ==   \* what fits in the page is enough
  /\ MorePointers
  /\ ~Fits(page, dataIt, PointerSize)
  /\ pc' = "cell"
  /\ UNCHANGED <<headerVars, pointers, ci, dataIt, recordVars, readerVars, presented>>

PointersCutOff ==
  /\ MorePointers
  /\ ~Fits(page, dataIt, PointerSize)
  /\ pc' = "thrown"
  /\ UNCHANGED <<headerVars, pointers, ci, dataIt, recordVars, readerVars, presented>>

PointersRead ==
  /\ pc = "pointers"
  /\ ~NodeSkipped
  /\ Len(pointers) = cellCount
  /\ pc' = "cell"
  /\ UNCHANGED <<headerVars, pointers, ci, dataIt, recordVars, readerVars, presented>>

-----------------------------------------------------------------------------
DefectSeekCell ==   \* a RecordHeaderReader of its own for every cell
  /\ pc = "cell"
  /\ ci \in DOMAIN pointers
  /\ dataIt' = Plus(page, 1, pointers[ci])
  /\ columns' = <<>>
  /\ rowid' = 0
  /\ pc' = "payload"
  /\ UNCHANGED <<headerVars, pointers, ci, recordVars, presented>>

(* main's loop: begin() + ptr, with no look at what is there. *)
SeekCell ==
  /\ pc = "cell"
  /\ ci \in DOMAIN pointers
  /\ dataIt' = Plus(page, 1, pointers[ci])
  /\ pc' = "payload"
  /\ UNCHANGED <<headerVars, pointers, ci, recordVars, readerVars, presented>>

PageDone ==
  /\ pc = "cell"
  /\ ci \notin DOMAIN pointers
  /\ pc' = "done"
  /\ UNCHANGED <<headerVars, pointers, ci, dataIt, recordVars, readerVars, presented>>

(***************************************************************************)
(* RecordHeaderReader::read.  The payload's size is read for the log only. *)
(***************************************************************************)
DefectHeaderGoesOn == Distance(page, startPos, dataIt) + 1 < headerSize

HeaderGoesOn == Distance(page, startPos, dataIt) < headerSize

ReadsVarInt == pc \in {"payload", "rowid", "size"} \/ (pc = "types" /\ HeaderGoesOn)

DefectAdvance ==   \* the loop over the types gives readVarInt a copy
  dataIt' = IF pc = "types" THEN dataIt ELSE NextOf(page, dataIt)

Advance == dataIt' = NextOf(page, dataIt)

(* An uint64_t. *)
Decoded == {ValueOf(page, dataIt)} \cap 0 .. Modulus - 1

ReadPayloadSize ==
  /\ pc = "payload"
  /\ Complete(page, dataIt)
  /\ Advance
  /\ pc' = IF type = LeafTable THEN "rowid" ELSE "size"
  /\ UNCHANGED <<headerVars, pointers, ci, recordVars, readerVars, presented>>

ReadRowid ==
  /\ pc = "rowid"
  /\ Complete(page, dataIt)
  /\ rowid' \in Decoded
  /\ Advance
  /\ pc' = "size"
  /\ UNCHANGED <<headerVars, pointers, ci, recordVars, columns, presented>>

DefectReadHeaderSize ==   \* the bytes of the size itself are not counted
  /\ pc = "size"
  /\ Complete(page, dataIt)
  /\ startPos' = NextOf(page, dataIt)
  /\ headerSize' \in Decoded
  /\ formats' = <<>>
  /\ Advance
  /\ pc' = IF headerSize' < 2 THEN "present" ELSE "types"
  /\ UNCHANGED <<headerVars, pointers, ci, readerVars, presented>>

(* A header of less than two bytes ends the call; the columns stay.        *)
ReadHeaderSize ==
  /\ pc = "size"
  /\ Complete(page, dataIt)
  /\ startPos' = dataIt
  /\ headerSize' \in Decoded
  /\ formats' = <<>>
  /\ Advance
  /\ pc' = IF headerSize' < 2 THEN "present" ELSE "types"
  /\ UNCHANGED <<headerVars, pointers, ci, readerVars, presented>>

DefectReadType ==   \* the iterator stays, the loop's condition with it
  /\ pc = "types"
  /\ HeaderGoesOn
  /\ Complete(page, dataIt)
  /\ UNCHANGED vars

ReadType ==
  /\ pc = "types"
  /\ HeaderGoesOn
  /\ Complete(page, dataIt)
  /\ formats' \in {Append(formats, FormatOf(v)) : v \in Decoded}
  /\ Advance
  /\ UNCHANGED <<headerVars, pc, pointers, ci, startPos, headerSize, readerVars, presented>>

(* readHeader clears what the cell before has left. *)
TypesRead ==
  /\ pc = "types"
  /\ ~HeaderGoesOn
  /\ columns' = <<>>
  /\ pc' = "columns"
  /\ UNCHANGED <<headerVars, pointers, ci, dataIt, recordVars, rowid, presented>>

Format == formats[Len(columns) + 1]

MoreColumns == pc = "columns" /\ Len(columns) < Len(formats)

EmptyColumn ==
  /\ MoreColumns
  /\ Format.size = 0
  /\ columns' = Append(columns, [type |-> Format.type, data |-> <<>>, at |-> dataIt])
  /\ UNCHANGED <<headerVars, pc, pointers, ci, dataIt, recordVars, rowid, presented>>

DefectReadColumn ==   \* copies what there is
  /\ MoreColumns
  /\ Format.size > 0
  /\ dataIt # Null
  /\ columns' = Append(columns, [type |-> Format.type, at |-> dataIt, data |->
       IF Fits(page, dataIt, Format.size) THEN Slice(page, dataIt, Format.size)
       ELSE SubSeq(page, dataIt, Len(page))])
  /\ dataIt' = Plus(page, dataIt, Format.size)
  /\ UNCHANGED <<headerVars, pc, pointers, ci, recordVars, rowid, presented>>

ReadColumn ==
  /\ MoreColumns
  /\ Format.size > 0
  /\ Fits(page, dataIt, Format.size)
  /\ columns' = Append(columns, [type |-> Format.type, at |-> dataIt,
                                 data |-> Slice(page, dataIt, Format.size)])
  /\ dataIt' = Plus(page, dataIt, Format.size)
  /\ UNCHANGED <<headerVars, pc, pointers, ci, recordVars, rowid, presented>>

(* copy_n meets the end, if there was memory for the copy at all: neither  *)
(* bad_alloc nor out_of_range is caught.                                   *)
ColumnCutOff ==
  /\ MoreColumns
  /\ Format.size > 0
  /\ ~Fits(page, dataIt, Format.size)
  /\ pc' = "thrown"
  /\ UNCHANGED <<headerVars, pointers, ci, dataIt, recordVars, readerVars, presented>>

ColumnsRead ==
  /\ pc = "columns"
  /\ Len(columns) = Len(formats)
  /\ pc' = "present"
  /\ UNCHANGED <<headerVars, pointers, ci, dataIt, recordVars, readerVars, presented>>

(* headerData(), and the conversions of printOut and generateOutput. *)
Present ==
  /\ pc = "present"
  /\ presented' = Append(presented, [cell |-> ci, columns |-> columns, rowid |-> rowid])
  /\ IF \A k \in DOMAIN columns : Converts(columns[k])
     THEN pc' = "cell" /\ ci' = ci + 1
     ELSE pc' = "thrown" /\ UNCHANGED ci
  /\ UNCHANGED <<headerVars, pointers, dataIt, recordVars, readerVars>>

OutOfRange ==
  /\ ReadsVarInt
  /\ dataIt = Null
  /\ pc' = "thrown"
  /\ UNCHANGED <<headerVars, pointers, ci, dataIt, recordVars, readerVars, presented>>

Overrun ==
  /\ ReadsVarInt
  /\ dataIt # Null
  /\ ~Complete(page, dataIt)
  /\ pc' = "aborted"
  /\ UNCHANGED <<headerVars, pointers, ci, dataIt, recordVars, readerVars, presented>>

Stopped ==
  /\ pc \in {"done", "thrown", "aborted"}
  /\ UNCHANGED vars

Init ==
  /\ page \in PageBytes
  /\ index \in BOOLEAN
  /\ pc = "header"
  /\ type = 0
  /\ cellCount = 0
  /\ pointers = <<>>
  /\ ci = 1
  /\ dataIt = 1
  /\ startPos = Null
  /\ headerSize = 0
  /\ formats = <<>>
  /\ columns = <<>>
  /\ rowid = 0
  /\ presented = <<>>

ReadPage == ReadHeader \/ HeaderOverrun \/ SkipPage \/ ReadPointer \/ PointersCutOff \/ PointersRead

ReadRecord ==
  \/ ReadPayloadSize \/ ReadRowid \/ ReadHeaderSize \/ ReadType \/ TypesRead
  \/ EmptyColumn \/ ReadColumn \/ ColumnCutOff \/ ColumnsRead \/ OutOfRange \/ Overrun

Next == ReadPage \/ SeekCell \/ ReadRecord \/ Present \/ PageDone \/ Stopped

Safe == Init /\ [][Next]_vars

(* Straight-line code and loops over bytes that are there. *)
Spec == Safe /\ WF_vars(Next)

-----------------------------------------------------------------------------
Column == [type: SerialTypes, data: Seq(Byte), at: Nat]

InRecord == pc \in {"payload", "rowid", "size", "types", "columns", "present"}

(***************************************************************************)
(* The types: iterators are null or at a byte of the page, but for the     *)
(* page without bytes; a record is read only for a pointer that is there.  *)
(***************************************************************************)
TypeOK ==
  /\ page \in Seq(Byte) /\ index \in BOOLEAN
  /\ pc \in {"header", "pointers", "cell", "done", "thrown", "aborted"} \/ InRecord
  /\ type \in Byte /\ cellCount \in Nat
  /\ pointers \in Seq(Nat) /\ ci \in Nat \ {0}
  /\ dataIt \in {Null} \cup DOMAIN page \/ (pc \in {"header", "aborted"} /\ dataIt = 1)
  /\ startPos \in {Null} \cup DOMAIN page
  /\ headerSize \in Nat
  /\ formats \in Seq([type: SerialTypes, size: Nat])
  /\ columns \in Seq(Column) /\ rowid \in Nat
  /\ presented \in Seq([cell: Nat, columns: Seq(Column), rowid: Nat])
  /\ InRecord => ci \in DOMAIN pointers
  /\ pc = "types" => startPos # Null

(***************************************************************************)
(* No cell is looked at before the whole array of pointers has been found  *)
(* in the page: a page that says it has more cells than it has room for    *)
(* (page 1, read at offset 0, does) yields none, not those that fit.       *)
(***************************************************************************)
PointersFit ==
  pc = "cell" \/ InRecord =>
    /\ Len(pointers) = cellCount
    /\ \A k \in DOMAIN pointers :
         LET at == HeaderSize + PointerSize * (k - 1) + 1 IN
         /\ at + 1 <= Len(page)
         /\ pointers[k] = Word(<<page[at], page[at + 1]>>)

-----------------------------------------------------------------------------
(* Column k has its type and its bytes, and starts where the one before it *)
(* ends.                                                                   *)
Contiguous(k) ==
  /\ columns[k].type = formats[k].type
  /\ formats[k].size > 0 => Fits(page, columns[k].at, formats[k].size)
  /\ columns[k].data = Slice(page, columns[k].at, formats[k].size)
  /\ k > 1 => columns[k].at = Plus(page, columns[k - 1].at, formats[k - 1].size)

(***************************************************************************)
(* Of any record, well formed or not, every column has as many bytes as    *)
(* its type announces, and all columns together are one run of bytes of    *)
(* the page: what runs off the page is not cut off but refused, while the  *)
(* bytes of a record that goes on in overflow pages may be those of the    *)
(* cell next to it.                                                        *)
(***************************************************************************)
NeverTruncated ==
  pc = "present" /\ headerSize >= 2 =>
    Len(columns) = Len(formats) /\ \A k \in DOMAIN columns : Contiguous(k)

(***************************************************************************)
(* The first column starts behind the record header, for any size the      *)
(* header claims: also if its last integer reaches over its end, or if the *)
(* header and the page end together and nothing is left for columns.       *)
(***************************************************************************)
ColumnsBehindHeader ==
  pc \in {"columns", "present"} /\ headerSize >= 2 =>
    LET first == IF columns = <<>> THEN dataIt ELSE columns[1].at IN
    first # Null => first >= startPos + headerSize

(* The numbers the formatters print of what is presented to them.          *)
NumbersShown ==
  \A r \in Range(presented) : \A k \in DOMAIN r.columns :
    r.columns[k].type \in Numbers => ShownAsExpected(r.columns[k])

(* No page, whatever sizes it claims, is read for ever. *)
Termination == <>(pc \in {"done", "thrown", "aborted"})

(***************************************************************************)
(* How far a page is from its end: what is left to be read of it, of the   *)
(* pointers or the cells, of the record and of the loop within the record. *)
(***************************************************************************)
Stage == CASE pc = "header" -> 3 [] pc = "pointers" -> 2 [] pc = "cell" \/ InRecord -> 1 [] OTHER -> 0

RecordSteps == [cell |-> 6, payload |-> 5, rowid |-> 4, size |-> 3, types |-> 2, columns |-> 1]

EntriesLeft ==
  CASE pc = "pointers" -> cellCount - Len(pointers)
    [] pc = "cell" \/ InRecord -> Len(pointers) + 1 - ci
    [] OTHER -> 0

StepsLeft == IF pc \in DOMAIN RecordSteps THEN RecordSteps[pc] ELSE 0

LoopLeft ==
  CASE pc = "types" -> IF dataIt = Null THEN 0 ELSE Len(page) + 1 - dataIt
    [] pc = "columns" -> Len(formats) - Len(columns)
    [] OTHER -> 0

Rank == <<Stage, EntriesLeft, StepsLeft, LoopLeft>>

(***************************************************************************)
(* Every step comes nearer to the end of the page, in an order that has no *)
(* endless descent: neither a page of any length, nor a cell count, header *)
(* size or record type in it, keeps one of the nested loops going.         *)
(***************************************************************************)
AlwaysNearer == [][Lower(Rank', Rank)]_vars

=============================================================================
