-------------------------- MODULE PageReaderProofs --------------------------
(***************************************************************************)
(* What reading a page keeps, for every radix, every length of integers    *)
(* and every set of pages.                                                 *)
(***************************************************************************)
EXTENDS PageReader, SequenceTheorems, NatProofs

FormatType == [type: SerialTypes, size: Nat]

Presented == [cell: Nat, columns: Seq(Column), rowid: Nat]

LEMMA ByteNat == Byte \subseteq Nat /\ 0 \in Byte
BY RadixAssumption DEF Byte

LEMMA DecodedNat == Decoded \subseteq Nat
BY ModulusAssumption DEF Decoded

LEMMA FormatOfType == ASSUME NEW n \in Nat PROVE FormatOf(n) \in FormatType
<1>1. Sizes \in [SerialTypes -> Nat]
  BY DEF Sizes, SerialTypes, String, SixBytesIntBE, EightBytesIntBE, FloatBE
<1>2. CASE n > String
  BY <1>2 DEF FormatOf, FormatType, SerialTypes, String, Blob
<1>3. CASE ~(n > String)
  <2>1. n \in SerialTypes
    BY <1>3 DEF SerialTypes, String
  <2>. QED  BY <1>1, <1>3, <2>1 DEF FormatOf, FormatType
<1>. QED  BY <1>2, <1>3

(* Iterators stay in the page.                                             *)
LEMMA PlusType ==
  ASSUME page \in Seq(Byte), NEW it \in {Null} \cup DOMAIN page, NEW n \in Nat
  PROVE  Plus(page, it, n) \in {Null} \cup DOMAIN page
<1>1. Len(page) \in Nat /\ DOMAIN page = 1 .. Len(page)
  OBVIOUS
<1>. QED  BY <1>1 DEF Plus, Null

LEMMA NextType ==
  ASSUME page \in Seq(Byte), NEW it \in {Null} \cup DOMAIN page, Complete(page, it)
  PROVE  NextOf(page, it) \in {Null} \cup DOMAIN page
<1>1. Len(page) \in Nat /\ DOMAIN page = 1 .. Len(page)
  OBVIOUS
<1>2. SizeOf(page, it) \in 1 .. MaxSize
  BY DEF Complete, SizeOf
<1>3. it \in Nat
  BY <1>1 DEF Null
<1>4. \A m \in Nat \ {0} : Behind(page, it, m) \in {Null} \cup DOMAIN page
  BY <1>1, <1>3 DEF Behind, Null
<1>5. SizeOf(page, it) \in Nat \ {0} /\ SizeOf(page, it) + 1 \in Nat \ {0}
  BY <1>2, MaxSizeAssumption
<1>. QED  BY <1>4, <1>5 DEF NextOf

LEMMA SliceType ==
  ASSUME page \in Seq(Byte), NEW it \in {Null} \cup DOMAIN page, NEW n \in Nat \ {0}, Fits(page, it, n)
  PROVE  /\ Slice(page, it, n) \in Seq(Byte)
         /\ \A j \in 1..n : Slice(page, it, n)[j] = page[it + j - 1]
<1>1. Len(page) \in Nat /\ DOMAIN page = 1 .. Len(page)
  OBVIOUS
<1>2. it \in 1 .. Len(page) + 1 /\ it + n - 1 \in it - 1 .. Len(page) /\ it + n - 1 - it + 1 = n
  BY <1>1 DEF Fits, Null
<1>. QED  BY <1>1, <1>2, SubSeqProperties DEF Slice

LEMMA SliceLength ==
  ASSUME page \in Seq(Byte), NEW it \in {Null} \cup DOMAIN page, NEW n \in Nat \ {0}, Fits(page, it, n)
  PROVE  Len(Slice(page, it, n)) = n
<1>1. Len(page) \in Nat /\ DOMAIN page = 1 .. Len(page)
  OBVIOUS
<1>2. it \in Int /\ it + n - 1 \in Int /\ it <= it + n - 1 /\ it + n - 1 - it + 1 = n
  BY <1>1 DEF Fits, Null
<1>3. \A i \in it .. it + n - 1 : page[i] \in Byte
  BY <1>1 DEF Fits, Null
<1>. QED  BY <1>2, <1>3, SubSeqProperties DEF Slice

LEMMA WordType == ASSUME NEW a \in Byte, NEW b \in Byte PROVE Word(<<a, b>>) \in Nat
BY ByteNat, RadixAssumption DEF Word

-----------------------------------------------------------------------------
LEMMA InitType == Init => TypeOK
<1>. SUFFICES ASSUME Init PROVE TypeOK
  OBVIOUS
<1>1. page \in Seq(Byte)
  BY PagesAssumption DEF Init
<1>. QED  BY <1>1, ByteNat DEF Init, TypeOK, InRecord, Null

LEMMA ReadPageType == ASSUME TypeOK, ReadPage PROVE TypeOK'
<1>1. page \in Seq(Byte) /\ Len(page) \in Nat /\ DOMAIN page = 1 .. Len(page)
  BY DEF TypeOK
<1>2. CASE ReadHeader
  <2>1. 1 \in DOMAIN page /\ dataIt \in {Null} \cup DOMAIN page
    <3>1. page # <<>>
      BY <1>2 DEF ReadHeader
    <3>2. Len(page) # 0
      BY <1>1, <3>1
    <3>. QED  BY <1>1, <3>2 DEF TypeOK
  <2>2. \A j \in 1..8 : Buffered(j) \subseteq Byte
    BY <1>1 DEF Buffered
  <2>3. cellCount' \in Nat
    BY <1>2, <2>2, WordType DEF ReadHeader
  <2>4. type' \in Byte
    BY <1>1, <1>2, <2>1 DEF ReadHeader
  <2>5. dataIt' \in {Null} \cup DOMAIN page
    BY <1>1, <1>2, <2>1, PlusType DEF ReadHeader, HeaderSize
  <2>. QED  BY <1>2, <2>3, <2>4, <2>5
            DEF ReadHeader, TypeOK, InRecord, recordVars, readerVars
<1>3. CASE ReadPointer
  <2>1. dataIt \in {Null} \cup DOMAIN page /\ pc = "pointers" /\ PointerSize \in Nat \ {0}
    BY <1>3 DEF ReadPointer, MorePointers, TypeOK, PointerSize
  <2>2. Slice(page, dataIt, PointerSize) \in Seq(Byte)
    BY <1>1, <1>3, <2>1, SliceType DEF ReadPointer
  <2>3. Word(Slice(page, dataIt, PointerSize)) \in Nat
    <3>1. /\ Slice(page, dataIt, PointerSize)[1] = page[dataIt]
          /\ Slice(page, dataIt, PointerSize)[2] = page[dataIt + 1]
      <4>1. \A j \in 1..2 : Slice(page, dataIt, PointerSize)[j] = page[dataIt + j - 1]
        BY <1>1, <1>3, <2>1, SliceType DEF ReadPointer, PointerSize
      <4>. QED  BY <1>1, <2>1, <4>1 DEF Null
    <3>2. dataIt \in DOMAIN page /\ dataIt + 1 \in DOMAIN page
      BY <1>1, <1>3, <2>1 DEF ReadPointer, Fits, PointerSize, Null
    <3>3. page[dataIt] \in Byte /\ page[dataIt + 1] \in Byte
      BY <1>1, <3>2
    <3>4. Word(Slice(page, dataIt, PointerSize)) = Word(<<page[dataIt], page[dataIt + 1]>>)
      BY <3>1 DEF Word
    <3>. QED  BY <3>3, <3>4, WordType
  <2>4. pointers' \in Seq(Nat)
    BY <1>3, <2>3 DEF ReadPointer, TypeOK
  <2>5. dataIt' \in {Null} \cup DOMAIN page
    BY <1>1, <1>3, <2>1, PlusType DEF ReadPointer
  <2>. QED  BY <1>3, <2>1, <2>4, <2>5
            DEF ReadPointer, TypeOK, InRecord, headerVars, recordVars, readerVars
<1>4. CASE HeaderOverrun
  BY <1>4 DEF HeaderOverrun, TypeOK, InRecord, headerVars, recordVars, readerVars
<1>5. CASE SkipPage
  BY <1>5 DEF SkipPage, TypeOK, InRecord, headerVars, recordVars, readerVars
<1>6. CASE PointersCutOff
  BY <1>6 DEF PointersCutOff, MorePointers, TypeOK, InRecord, headerVars, recordVars, readerVars
<1>7. CASE PointersRead
  BY <1>7 DEF PointersRead, TypeOK, InRecord, headerVars, recordVars, readerVars
<1>. QED  BY <1>2, <1>3, <1>4, <1>5, <1>6, <1>7 DEF ReadPage

(* The iterator of a call of readVarInt that returns.                      *)
LEMMA AdvanceType ==
  ASSUME TypeOK, ReadsVarInt, Complete(page, dataIt), Advance
  PROVE  dataIt \in DOMAIN page /\ dataIt' \in {Null} \cup DOMAIN page
<1>1. page \in Seq(Byte) /\ dataIt \in {Null} \cup DOMAIN page
  BY DEF TypeOK, InRecord, ReadsVarInt
<1>2. dataIt # Null
  BY DEF Complete
<1>. QED  BY <1>1, <1>2, NextType DEF Advance

LEMMA ReadRecordType == ASSUME TypeOK, ReadRecord PROVE TypeOK'
<1>. USE DEF headerVars, recordVars, readerVars
<1>1. CASE ReadPayloadSize
  <2>1. dataIt' \in {Null} \cup DOMAIN page
    BY <1>1, AdvanceType DEF ReadPayloadSize, ReadsVarInt
  <2>. QED  BY <1>1, <2>1 DEF ReadPayloadSize, TypeOK, InRecord
<1>2. CASE ReadRowid
  <2>1. dataIt' \in {Null} \cup DOMAIN page
    BY <1>2, AdvanceType DEF ReadRowid, ReadsVarInt
  <2>2. rowid' \in Nat
    BY <1>2, DecodedNat DEF ReadRowid
  <2>. QED  BY <1>2, <2>1, <2>2 DEF ReadRowid, TypeOK, InRecord
<1>3. CASE ReadHeaderSize
  <2>1. dataIt \in DOMAIN page /\ dataIt' \in {Null} \cup DOMAIN page
    BY <1>3, AdvanceType DEF ReadHeaderSize, ReadsVarInt
  <2>2. headerSize' \in Nat
    BY <1>3, DecodedNat DEF ReadHeaderSize
  <2>3. dataIt # Null
    BY <1>3 DEF ReadHeaderSize, Complete
  <2>. QED  BY <1>3, <2>1, <2>2, <2>3 DEF ReadHeaderSize, TypeOK, InRecord
<1>4. CASE ReadType
  <2>1. dataIt' \in {Null} \cup DOMAIN page
    BY <1>4, AdvanceType DEF ReadType, ReadsVarInt
  <2>2. PICK v \in Decoded : formats' = Append(formats, FormatOf(v))
    BY <1>4 DEF ReadType
  <2>3. FormatOf(v) \in FormatType
    BY DecodedNat, FormatOfType
  <2>4. formats' \in Seq(FormatType)
    BY <2>2, <2>3 DEF TypeOK, FormatType
  <2>. QED  BY <1>4, <2>1, <2>4 DEF ReadType, TypeOK, InRecord, FormatType
<1>5. CASE TypesRead
  BY <1>5 DEF TypesRead, TypeOK, InRecord
<1>6. CASE EmptyColumn \/ ReadColumn
  <2>1. pc = "columns" /\ page \in Seq(Byte) /\ columns \in Seq(Column) /\ formats \in Seq(FormatType)
        /\ dataIt \in {Null} \cup DOMAIN page /\ Len(columns) < Len(formats)
    BY <1>6 DEF EmptyColumn, ReadColumn, MoreColumns, TypeOK, InRecord, FormatType
  <2>2. Format \in FormatType
    <3>1. Len(columns) + 1 \in 1 .. Len(formats)
      BY <2>1
    <3>. QED  BY <2>1, <3>1 DEF Format
  <2>3. Format.type \in SerialTypes /\ Format.size \in Nat /\ dataIt \in Nat
    BY <2>1, <2>2 DEF FormatType, Null
  <2>4. CASE EmptyColumn
    <3>1. [type |-> Format.type, data |-> <<>>, at |-> dataIt] \in Column
      BY <2>3 DEF Column
    <3>2. columns' \in Seq(Column)
      BY <2>1, <2>4, <3>1 DEF EmptyColumn
    <3>. QED  BY <2>4, <3>2 DEF EmptyColumn, TypeOK, InRecord, MoreColumns
  <2>5. CASE ReadColumn
    <3>1. Slice(page, dataIt, Format.size) \in Seq(Byte)
      BY <2>1, <2>3, <2>5, SliceType DEF ReadColumn
    <3>2. [type |-> Format.type, at |-> dataIt, data |-> Slice(page, dataIt, Format.size)] \in Column
      BY <2>3, <3>1 DEF Column
    <3>3. columns' \in Seq(Column)
      BY <2>1, <2>5, <3>2 DEF ReadColumn
    <3>4. dataIt' \in {Null} \cup DOMAIN page
      BY <2>1, <2>3, <2>5, PlusType DEF ReadColumn
    <3>. QED  BY <2>5, <3>3, <3>4 DEF ReadColumn, TypeOK, InRecord, MoreColumns
  <2>. QED  BY <1>6, <2>4, <2>5
<1>7. CASE ColumnCutOff
  BY <1>7 DEF ColumnCutOff, MoreColumns, TypeOK, InRecord
<1>8. CASE ColumnsRead
  BY <1>8 DEF ColumnsRead, TypeOK, InRecord
<1>9. CASE OutOfRange
  BY <1>9 DEF OutOfRange, ReadsVarInt, TypeOK, InRecord
<1>10. CASE Overrun
  BY <1>10 DEF Overrun, ReadsVarInt, TypeOK, InRecord
<1>. QED  BY <1>1, <1>2, <1>3, <1>4, <1>5, <1>6, <1>7, <1>8, <1>9, <1>10 DEF ReadRecord

LEMMA NextTypeOK == TypeOK /\ [Next]_vars => TypeOK'
<1>. SUFFICES ASSUME TypeOK, [Next]_vars PROVE TypeOK'
  OBVIOUS
<1>. USE DEF headerVars, recordVars, readerVars
<1>1. CASE SeekCell
  <2>1. page \in Seq(Byte) /\ pointers \in Seq(Nat) /\ pc = "cell"
    BY <1>1 DEF SeekCell, TypeOK
  <2>2. pointers[ci] \in Nat
    BY <1>1, <2>1 DEF SeekCell
  <2>3. dataIt' \in {Null} \cup DOMAIN page
    <3>1. CASE 1 \in DOMAIN page
      BY <1>1, <2>1, <2>2, <3>1, PlusType DEF SeekCell
    <3>2. CASE 1 \notin DOMAIN page
      <4>1. Len(page) = 0
        BY <2>1, <3>2
      <4>. QED  BY <1>1, <2>2, <4>1 DEF SeekCell, Plus, Null
    <3>. QED  BY <3>1, <3>2
  <2>. QED  BY <1>1, <2>1, <2>3 DEF SeekCell, TypeOK, InRecord
<1>2. CASE Present
  <2>1. ci \in DOMAIN pointers /\ ci \in Nat \ {0} /\ columns \in Seq(Column) /\ rowid \in Nat
    BY <1>2 DEF Present, TypeOK, InRecord
  <2>2. [cell |-> ci, columns |-> columns, rowid |-> rowid] \in [cell: Nat, columns: Seq(Column), rowid: Nat]
    BY <2>1
  <2>3. presented' \in Seq([cell: Nat, columns: Seq(Column), rowid: Nat])
    <3>1. presented \in Seq([cell: Nat, columns: Seq(Column), rowid: Nat])
      BY DEF TypeOK
    <3>. QED  BY <1>2, <2>2, <3>1, AppendProperties DEF Present
  <2>4. ci' \in Nat \ {0} /\ pc' \in {"cell", "thrown"}
    BY <1>2, <2>1 DEF Present
  <2>. QED  BY <1>2, <2>3, <2>4 DEF Present, TypeOK, InRecord
<1>3. CASE PageDone
  BY <1>3 DEF PageDone, TypeOK, InRecord
<1>4. CASE UNCHANGED vars
  BY <1>4 DEF vars, TypeOK, InRecord
<1>. QED  BY <1>1, <1>2, <1>3, <1>4, ReadPageType, ReadRecordType DEF Next, Stopped

(* Iterators never leave the page, on any page; columns have types the     *)
(* switches know.                                                          *)
THEOREM TypeCorrect == Safe => []TypeOK
BY InitType, NextTypeOK, PTL DEF Safe

-----------------------------------------------------------------------------
(* The pointers read so far are those of the page, the iterator is behind  *)
(* them, and the loop over the cells starts only with all of them.         *)
PointerAt(n) ==
  LET at == HeaderSize + PointerSize * (n - 1) + 1 IN
  at + 1 <= Len(page) /\ pointers[n] = Word(<<page[at], page[at + 1]>>)

PointersInv ==
  /\ \A n \in DOMAIN pointers : PointerAt(n)
  /\ pc = "header" => pointers = <<>> /\ dataIt = 1
  /\ pc = "pointers" => dataIt \in {Null, HeaderSize + PointerSize * Len(pointers) + 1}
  /\ pc = "cell" \/ InRecord => Len(pointers) = cellCount

LEMMA PointersInit == Init => PointersInv
BY DEF Init, PointersInv, InRecord

LEMMA PointersNext == TypeOK /\ PointersInv /\ [Next]_vars => PointersInv'
<1>. SUFFICES ASSUME TypeOK, PointersInv, [Next]_vars PROVE PointersInv'
  OBVIOUS
<1>. USE DEF headerVars, recordVars, readerVars
<1>1. page \in Seq(Byte) /\ Len(page) \in Nat /\ DOMAIN page = 1 .. Len(page) /\ pointers \in Seq(Nat)
  BY DEF TypeOK
<1>2. CASE ReadHeader
  <2>1. pointers' = <<>> /\ pc' = "pointers"
    BY <1>2 DEF ReadHeader, PointersInv
  <2>2. dataIt' \in {Null, HeaderSize + 1}
    BY <1>1, <1>2 DEF ReadHeader, PointersInv, Plus, HeaderSize, Null
  <2>3. dataIt' \in {Null, HeaderSize + PointerSize * Len(pointers') + 1}
    BY <2>1, <2>2 DEF HeaderSize, PointerSize
  <2>. QED  BY <2>1, <2>3 DEF PointersInv, InRecord
<1>3. CASE ReadPointer
  <2>. DEFINE n == Len(pointers) + 1
              at == HeaderSize + PointerSize * Len(pointers) + 1
  <2>1. pc = "pointers" /\ pc' = "pointers" /\ page' = page /\ Len(pointers) \in Nat
    BY <1>1, <1>3 DEF ReadPointer, MorePointers
  <2>2. dataIt = at /\ at + 1 <= Len(page) /\ at \in DOMAIN page
    BY <1>1, <1>3, <2>1 DEF ReadPointer, PointersInv, Fits, HeaderSize, PointerSize, Null
  <2>3. \A j \in 1..2 : Slice(page, dataIt, PointerSize)[j] = page[dataIt + j - 1]
    BY <1>1, <1>3, <2>2, SliceType DEF ReadPointer, PointerSize
  <2>4. Word(Slice(page, dataIt, PointerSize)) = Word(<<page[at], page[at + 1]>>)
    BY <1>1, <2>2, <2>3 DEF Word
  <2>5. Word(<<page[at], page[at + 1]>>) \in Nat
    BY <1>1, <2>2, WordType
  <2>6. pointers' = Append(pointers, Word(<<page[at], page[at + 1]>>))
    BY <1>3, <2>4 DEF ReadPointer
  <2>7. /\ Len(pointers') = n /\ DOMAIN pointers' = 1..n /\ pointers'[n] = Word(<<page[at], page[at + 1]>>)
        /\ \A m \in DOMAIN pointers : pointers'[m] = pointers[m]
    BY <1>1, <2>1, <2>5, <2>6
  <2>8. at = HeaderSize + PointerSize * (n - 1) + 1
    BY <2>1 DEF HeaderSize, PointerSize
  <2>9. ASSUME NEW m \in DOMAIN pointers' PROVE PointerAt(m)'
    <3>1. CASE m = n
      BY <2>1, <2>2, <2>7, <2>8, <3>1 DEF PointerAt
    <3>2. CASE m # n
      <4>1. m \in DOMAIN pointers
        BY <1>1, <2>1, <2>7, <3>2
      <4>2. PointerAt(m)
        BY <4>1 DEF PointersInv
      <4>. QED  BY <2>1, <2>7, <4>1, <4>2 DEF PointerAt
    <3>. QED  BY <3>1, <3>2
  <2>10. dataIt' \in {Null, at + 2}
    BY <1>1, <1>3, <2>2 DEF ReadPointer, Plus, PointerSize
  <2>11. at + 2 = HeaderSize + PointerSize * Len(pointers') + 1
    BY <2>1, <2>7 DEF HeaderSize, PointerSize
  <2>. QED  BY <2>1, <2>9, <2>10, <2>11 DEF PointersInv, InRecord
<1>4. CASE PointersRead
  BY <1>4 DEF PointersRead, PointersInv, PointerAt, InRecord
<1>5. ASSUME UNCHANGED <<page, pointers, cellCount>>, pc # "header", pc' # "pointers", pc' # "header",
             pc' = "cell" \/ InRecord' => pc = "cell" \/ InRecord
      PROVE  PointersInv'
  BY <1>5 DEF PointersInv, PointerAt
<1>6. CASE HeaderOverrun
  BY <1>6 DEF HeaderOverrun, PointersInv, PointerAt, InRecord
<1>7. CASE SkipPage \/ PointersCutOff
  BY <1>5, <1>7 DEF SkipPage, PointersCutOff, MorePointers, InRecord
<1>8. CASE SeekCell \/ PageDone \/ Present
  BY <1>5, <1>8 DEF SeekCell, PageDone, Present, InRecord
<1>9. CASE ReadPayloadSize \/ ReadRowid \/ ReadHeaderSize \/ ReadType \/ TypesRead
  BY <1>5, <1>9 DEF ReadPayloadSize, ReadRowid, ReadHeaderSize, ReadType, TypesRead, InRecord
<1>10. CASE EmptyColumn \/ ReadColumn \/ ColumnCutOff \/ ColumnsRead
  BY <1>5, <1>10 DEF EmptyColumn, ReadColumn, ColumnCutOff, ColumnsRead, MoreColumns, InRecord
<1>11. CASE OutOfRange \/ Overrun
  BY <1>5, <1>11 DEF OutOfRange, Overrun, ReadsVarInt, InRecord
<1>12. CASE UNCHANGED vars
  BY <1>12 DEF vars, PointersInv, PointerAt, InRecord
<1>. QED  BY <1>2, <1>3, <1>4, <1>6, <1>7, <1>8, <1>9, <1>10, <1>11, <1>12
          DEF Next, ReadPage, ReadRecord, Stopped

(* No cell is looked at before all the pointers the page's header counts   *)
(* are read, each from its own two bytes of the page.                      *)
THEOREM PointersComplete == Safe => []PointersFit
<1>1. TypeOK /\ PointersInv => PointersFit
  BY DEF PointersInv, PointersFit, PointerAt
<1>. QED  BY <1>1, TypeCorrect, PointersInit, PointersNext, PTL DEF Safe

-----------------------------------------------------------------------------
(* While a record's columns are read they are contiguous, and the iterator *)
(* is at the end of the last one.                                          *)
ReadingColumns == pc = "columns" \/ (pc = "present" /\ headerSize >= 2)

FirstAt == IF columns = <<>> THEN dataIt ELSE columns[1].at

ColumnsInv ==
  /\ pc \in {"types", "columns"} => headerSize >= 2
  /\ ReadingColumns =>
       /\ \A n \in DOMAIN columns : Contiguous(n)
       /\ Len(columns) <= Len(formats)
       /\ pc = "present" => Len(columns) = Len(formats)
       /\ columns # <<>> =>
            dataIt = Plus(page, columns[Len(columns)].at, formats[Len(columns)].size)
       /\ FirstAt # Null => FirstAt >= startPos + headerSize

LEMMA ColumnsInit == Init => ColumnsInv
BY DEF Init, ColumnsInv, ReadingColumns

(* A column at the iterator, taken with the bytes of its type.             *)
LEMMA AppendColumn ==
  ASSUME TypeOK, ColumnsInv, MoreColumns, NEW col, columns' = Append(columns, col), col \in Column,
         col.type = Format.type, col.at = dataIt, col.data = Slice(page, dataIt, Format.size),
         Format.size > 0 => Fits(page, dataIt, Format.size),
         dataIt' = Plus(page, dataIt, Format.size),
         UNCHANGED <<page, pc, formats, startPos, headerSize>>
  PROVE  ColumnsInv'
<1>. PICK n : n = Len(columns) + 1
  OBVIOUS
<1>1. /\ columns \in Seq(Column) /\ Len(columns) \in Nat /\ DOMAIN columns = 1 .. Len(columns)
      /\ pc = "columns" /\ Len(columns) < Len(formats) /\ Len(formats) \in Nat
  BY DEF TypeOK, MoreColumns
<1>2. /\ Len(columns') = n /\ DOMAIN columns' = 1..n /\ columns'[n] = col /\ columns' # <<>>
      /\ \A m \in DOMAIN columns : columns'[m] = columns[m]
  BY <1>1
<1>3. Format = formats[n]
  BY DEF Format
<1>4. ASSUME NEW m \in DOMAIN columns PROVE Contiguous(m)'
  <2>1. Contiguous(m)
    BY <1>1 DEF ColumnsInv, ReadingColumns
  <2>2. m > 1 => m - 1 \in DOMAIN columns
    BY <1>1
  <2>. QED  BY <1>2, <2>1, <2>2 DEF Contiguous
<1>5. Contiguous(n)'
  <2>1. n > 1 => columns # <<>> /\ n - 1 = Len(columns) /\ n - 1 \in DOMAIN columns
    BY <1>1
  <2>2. n > 1 => dataIt = Plus(page, columns[n - 1].at, formats[n - 1].size)
    BY <1>1, <2>1 DEF ColumnsInv, ReadingColumns
  <2>. QED  BY <1>2, <1>3, <2>1, <2>2 DEF Contiguous
<1>6. \A m \in DOMAIN columns' : Contiguous(m)'
  <2>1. \A m \in DOMAIN columns' : m = n \/ m \in DOMAIN columns
    BY <1>1, <1>2
  <2>. QED  BY <1>4, <1>5, <2>1
<1>7. FirstAt' = FirstAt
  <2>1. CASE columns = <<>>
    BY <1>1, <1>2, <2>1 DEF FirstAt
  <2>2. CASE columns # <<>>
    <3>1. 1 \in DOMAIN columns
      BY <1>1, <2>2
    <3>. QED  BY <1>2, <2>2, <3>1 DEF FirstAt
  <2>. QED  BY <2>1, <2>2
<1>8. dataIt' = Plus(page, columns'[Len(columns')].at, formats[Len(columns')].size)
  BY <1>2, <1>3
<1>9. FirstAt # Null => FirstAt >= startPos + headerSize
  BY <1>1 DEF ColumnsInv, ReadingColumns
<1>10. Len(columns') <= Len(formats)
  BY <1>1, <1>2
<1>. QED  BY <1>1, <1>6, <1>7, <1>8, <1>9, <1>10 DEF ColumnsInv, ReadingColumns

LEMMA ColumnsNext == TypeOK /\ ColumnsInv /\ [Next]_vars => ColumnsInv'
<1>. SUFFICES ASSUME TypeOK, ColumnsInv, [Next]_vars PROVE ColumnsInv'
  OBVIOUS
<1>. USE DEF headerVars, recordVars, readerVars
<1>1. CASE TypesRead
  <2>1. pc = "types" /\ headerSize \in Nat /\ headerSize >= 2 /\ ~(Distance(page, startPos, dataIt) < headerSize)
    BY <1>1 DEF TypesRead, TypeOK, ColumnsInv, HeaderGoesOn
  <2>2. page \in Seq(Byte) /\ dataIt \in {Null} \cup DOMAIN page /\ startPos \in DOMAIN page
    BY <2>1 DEF TypeOK, InRecord
  <2>3. dataIt # Null => dataIt >= startPos + headerSize
    <3>1. dataIt \in Nat /\ startPos \in Nat
      BY <2>2 DEF Null
    <3>. QED  BY <2>1, <3>1 DEF Distance, Null
  <2>. QED  BY <1>1, <2>1, <2>3 DEF TypesRead, ColumnsInv, ReadingColumns, FirstAt, TypeOK
<1>2. CASE EmptyColumn \/ ReadColumn
  <2>1. pc = "columns" /\ page \in Seq(Byte) /\ formats \in Seq(FormatType) /\ columns \in Seq(Column)
        /\ dataIt \in {Null} \cup DOMAIN page /\ Len(columns) < Len(formats) /\ MoreColumns
    BY <1>2 DEF EmptyColumn, ReadColumn, MoreColumns, TypeOK, InRecord, FormatType
  <2>2. Format \in FormatType
    <3>1. Len(columns) + 1 \in 1 .. Len(formats)
      BY <2>1
    <3>. QED  BY <2>1, <3>1 DEF Format
  <2>3. Format.type \in SerialTypes /\ Format.size \in Nat /\ dataIt \in Nat
    BY <2>1, <2>2 DEF FormatType, Null
  <2>4. PICK col \in {[type |-> Format.type, data |-> <<>>, at |-> dataIt],
                      [type |-> Format.type, at |-> dataIt, data |-> Slice(page, dataIt, Format.size)]} :
          /\ columns' = Append(columns, col)
          /\ Format.size = 0 => col.data = <<>>
          /\ Format.size > 0 => col.data = Slice(page, dataIt, Format.size)
    BY <1>2 DEF EmptyColumn, ReadColumn
  <2>5. col.data = Slice(page, dataIt, Format.size)
    <3>1. CASE Format.size > 0
      BY <2>4, <3>1
    <3>2. CASE Format.size = 0
      <4>1. Slice(page, dataIt, 0) = <<>>
        BY <2>3, SubSeqEmpty DEF Slice
      <4>. QED  BY <2>4, <3>2, <4>1
    <3>. QED  BY <2>3, <3>1, <3>2
  <2>6. Format.size > 0 => Fits(page, dataIt, Format.size)
    BY <1>2 DEF EmptyColumn, ReadColumn
  <2>7. dataIt' = Plus(page, dataIt, Format.size)
    <3>1. CASE EmptyColumn
      <4>1. Plus(page, dataIt, 0) = dataIt
        BY <2>1, <2>3 DEF Plus, Null
      <4>. QED  BY <3>1, <4>1 DEF EmptyColumn
    <3>2. CASE ReadColumn
      BY <3>2 DEF ReadColumn
    <3>. QED  BY <1>2, <3>1, <3>2
  <2>8. UNCHANGED <<page, pc, formats, startPos, headerSize>>
    BY <1>2 DEF EmptyColumn, ReadColumn
  <2>9. col \in Column
    <3>1. <<>> \in Seq(Byte) /\ (Format.size > 0 => Slice(page, dataIt, Format.size) \in Seq(Byte))
      BY <2>1, <2>3, <2>6, SliceType
    <3>2. col.data \in Seq(Byte)
      <4>1. CASE Format.size > 0
        BY <2>4, <3>1, <4>1
      <4>2. CASE Format.size = 0
        BY <2>4, <3>1, <4>2
      <4>. QED  BY <2>3, <4>1, <4>2
    <3>3. CASE col = [type |-> Format.type, data |-> <<>>, at |-> dataIt]
      BY <2>3, <3>2, <3>3 DEF Column
    <3>4. CASE col = [type |-> Format.type, at |-> dataIt, data |-> Slice(page, dataIt, Format.size)]
      BY <2>3, <3>2, <3>4 DEF Column
    <3>. QED  BY <3>3, <3>4
  <2>10. col.type = Format.type /\ col.at = dataIt
    BY <2>4
  <2>. QED  BY <2>1, <2>4, <2>5, <2>6, <2>7, <2>8, <2>9, <2>10, AppendColumn
<1>3. CASE ColumnsRead
  BY <1>3 DEF ColumnsRead, ColumnsInv, ReadingColumns, Contiguous, FirstAt
<1>4. CASE ReadHeaderSize
  <2>1. headerSize' \in Nat
    BY <1>4, DecodedNat DEF ReadHeaderSize
  <2>. QED  BY <1>4, <2>1 DEF ReadHeaderSize, ColumnsInv, ReadingColumns
<1>5. CASE ReadType
  BY <1>5 DEF ReadType, ColumnsInv, ReadingColumns
<1>6. CASE UNCHANGED vars
  BY <1>6 DEF vars, ColumnsInv, ReadingColumns, Contiguous, FirstAt
<1>7. ASSUME pc' \notin {"types", "columns", "present"} PROVE ColumnsInv'
  BY <1>7 DEF ColumnsInv, ReadingColumns
<1>8. CASE ReadPage
  BY <1>7, <1>8 DEF ReadPage, ReadHeader, HeaderOverrun, SkipPage, ReadPointer, PointersCutOff, PointersRead, MorePointers
<1>9. CASE SeekCell \/ PageDone \/ Present
  BY <1>7, <1>9 DEF SeekCell, PageDone, Present
<1>10. CASE ReadPayloadSize \/ ReadRowid \/ ColumnCutOff \/ OutOfRange \/ Overrun
  BY <1>7, <1>10 DEF ReadPayloadSize, ReadRowid, ColumnCutOff, OutOfRange, Overrun
<1>. QED  BY <1>1, <1>2, <1>3, <1>4, <1>5, <1>6, <1>8, <1>9, <1>10 DEF Next, ReadRecord, Stopped

LEMMA ColumnsInvariant == Safe => [](TypeOK /\ ColumnsInv)
BY TypeCorrect, ColumnsInit, ColumnsNext, PTL DEF Safe

(* No record is presented with less than its types announce, or with a gap *)
(* between its columns, on any page.                                       *)
THEOREM NothingTruncated == Safe => []NeverTruncated
<1>1. TypeOK /\ ColumnsInv => NeverTruncated
  BY DEF ColumnsInv, ReadingColumns, NeverTruncated
<1>. QED  BY <1>1, ColumnsInvariant, PTL

(* No byte of a record header is taken for one of a column.                *)
THEOREM ColumnsAreBehind == Safe => []ColumnsBehindHeader
<1>1. TypeOK /\ ColumnsInv => ColumnsBehindHeader
  BY DEF ColumnsInv, ReadingColumns, ColumnsBehindHeader, FirstAt
<1>. QED  BY <1>1, ColumnsInvariant, PTL
-----------------------------------------------------------------------------
(***************************************************************************)
(* AlwaysNearer.  Counted keeps the differences in a rank from becoming    *)
(* negative.                                                               *)
(***************************************************************************)
Counted ==
  /\ pc \in {"header", "pointers"} => ci = 1
  /\ pc = "pointers" => Len(pointers) <= cellCount
  /\ pc = "cell" => ci <= Len(pointers) + 1

LEMMA CountedInit == Init => Counted
BY DEF Init, Counted

LEMMA CountedNext == TypeOK /\ PointersInv /\ Counted /\ [Next]_vars => Counted'
<1>. SUFFICES ASSUME TypeOK, PointersInv, Counted, [Next]_vars PROVE Counted'
  OBVIOUS
<1>. USE DEF headerVars, recordVars, readerVars
<1>1. pointers \in Seq(Nat) /\ Len(pointers) \in Nat /\ cellCount \in Nat /\ ci \in Nat \ {0}
  BY DEF TypeOK
<1>2. CASE ReadHeader
  <2>1. pointers' = <<>> /\ ci' = 1 /\ cellCount' \in Nat /\ pc' = "pointers"
    BY <1>2, NextTypeOK DEF ReadHeader, PointersInv, Counted, TypeOK
  <2>. QED  BY <2>1 DEF Counted
<1>3. CASE ReadPointer
  <2>1. Len(pointers') = Len(pointers) + 1
    BY <1>1, <1>3 DEF ReadPointer
  <2>. QED  BY <1>1, <1>3, <2>1 DEF ReadPointer, MorePointers, Counted
<1>4. CASE PointersRead
  BY <1>1, <1>4 DEF PointersRead, Counted
<1>5. CASE Present
  <2>1. ci \in DOMAIN pointers
    BY <1>5 DEF Present, TypeOK, InRecord
  <2>. QED  BY <1>1, <1>5, <2>1 DEF Present, Counted
<1>6. CASE HeaderOverrun \/ SkipPage \/ PointersCutOff \/ SeekCell \/ PageDone
  BY <1>6 DEF HeaderOverrun, SkipPage, PointersCutOff, MorePointers, SeekCell, PageDone, Counted
<1>7. CASE ReadRecord
  BY <1>7 DEF ReadRecord, ReadPayloadSize, ReadRowid, ReadHeaderSize, ReadType, TypesRead, EmptyColumn,
              ReadColumn, ColumnCutOff, ColumnsRead, MoreColumns, OutOfRange, Overrun, ReadsVarInt, Counted
<1>8. CASE UNCHANGED vars
  BY <1>8 DEF vars, Counted
<1>. QED  BY <1>2, <1>3, <1>4, <1>5, <1>6, <1>7, <1>8 DEF Next, ReadPage, Stopped

LEMMA RankType ==
  ASSUME TypeOK, ColumnsInv, Counted
  PROVE  Stage \in 0..3 /\ EntriesLeft \in Nat /\ StepsLeft \in 0..6 /\ LoopLeft \in Nat
<1>1. Stage \in 0..3 /\ StepsLeft \in 0..6
  BY DEF Stage, StepsLeft, RecordSteps
<1>2. EntriesLeft \in Nat
  <2>1. Len(pointers) \in Nat /\ cellCount \in Nat /\ ci \in Nat /\ (InRecord => ci <= Len(pointers))
    BY DEF TypeOK
  <2>. QED  BY <2>1 DEF EntriesLeft, Counted
<1>3. LoopLeft \in Nat
  <2>1. Len(page) \in Nat /\ (pc = "types" => dataIt = Null \/ dataIt \in 1 .. Len(page))
    BY DEF TypeOK, InRecord
  <2>2. Len(formats) \in Nat /\ Len(columns) \in Nat /\ (pc = "columns" => Len(columns) <= Len(formats))
    BY DEF TypeOK, ColumnsInv, ReadingColumns
  <2>. QED  BY <2>1, <2>2 DEF LoopLeft
<1>. QED  BY <1>1, <1>2, <1>3

(* One of the two loops within a record goes round. *)
LEMMA LoopLower ==
  ASSUME TypeOK, ColumnsInv, Counted, ReadType \/ EmptyColumn \/ ReadColumn
  PROVE  Stage' = Stage /\ EntriesLeft' = EntriesLeft /\ StepsLeft' = StepsLeft /\ LoopLeft' < LoopLeft
<1>. USE DEF headerVars, recordVars, readerVars
<1>1. UNCHANGED <<page, pc, pointers, ci>> /\ InRecord
  BY DEF ReadType, EmptyColumn, ReadColumn, MoreColumns, InRecord
<1>2. Stage' = Stage /\ EntriesLeft' = EntriesLeft /\ StepsLeft' = StepsLeft
  BY <1>1 DEF Stage, EntriesLeft, StepsLeft, InRecord
<1>3. CASE ReadType
  <2>1. pc = "types" /\ pc' = "types" /\ dataIt' = NextOf(page, dataIt) /\ Complete(page, dataIt)
    BY <1>3 DEF ReadType, Advance
  <2>2. dataIt \in 1 .. Len(page) /\ Len(page) \in Nat /\ page \in Seq(Byte)
    BY <1>3, AdvanceType DEF ReadType, ReadsVarInt, TypeOK
  <2>3. SizeOf(page, dataIt) \in 1..MaxSize
    BY <2>1 DEF Complete, SizeOf
  <2>4. PICK n \in Nat \ {0} : dataIt' = Behind(page, dataIt, n)
    <3>1. SizeOf(page, dataIt) \in Nat \ {0} /\ SizeOf(page, dataIt) + 1 \in Nat \ {0}
      BY <2>3, MaxSizeAssumption
    <3>. QED  BY <2>1, <3>1 DEF NextOf
  <2>5. dataIt' = Null \/ (dataIt' \in Nat /\ dataIt' > dataIt)
    BY <2>2, <2>4 DEF Behind
  <2>6. LoopLeft = Len(page) + 1 - dataIt
    BY <2>1, <2>2 DEF LoopLeft, Null
  <2>7. LoopLeft' = IF dataIt' = Null THEN 0 ELSE Len(page) + 1 - dataIt'
    BY <1>1, <2>1 DEF LoopLeft
  <2>. QED  BY <1>2, <2>2, <2>5, <2>6, <2>7
<1>4. CASE EmptyColumn \/ ReadColumn
  <2>1. pc = "columns" /\ pc' = "columns" /\ formats' = formats /\ \E col : columns' = Append(columns, col)
    BY <1>4 DEF EmptyColumn, ReadColumn, MoreColumns
  <2>2. columns \in Seq(Column) /\ Len(columns) \in Nat /\ Len(formats) \in Nat
    BY DEF TypeOK
  <2>3. Len(columns') = Len(columns) + 1
    BY <2>1, <2>2
  <2>4. LoopLeft = Len(formats) - Len(columns) /\ LoopLeft' = Len(formats) - Len(columns')
    BY <2>1 DEF LoopLeft
  <2>. QED  BY <1>2, <2>2, <2>3, <2>4
<1>. QED  BY <1>3, <1>4

LEMMA StepLower ==
  ASSUME TypeOK, ColumnsInv, Counted, Next, ~Stopped
  PROVE  \/ Stage' < Stage
         \/ Stage' = Stage /\ EntriesLeft' < EntriesLeft
         \/ Stage' = Stage /\ EntriesLeft' = EntriesLeft /\ StepsLeft' < StepsLeft
         \/ Stage' = Stage /\ EntriesLeft' = EntriesLeft /\ StepsLeft' = StepsLeft /\ LoopLeft' < LoopLeft
<1>. USE DEF headerVars, recordVars, readerVars
<1>1. CASE ReadHeader \/ HeaderOverrun
  BY <1>1 DEF ReadHeader, HeaderOverrun, Stage, InRecord
<1>2. CASE SkipPage \/ PointersCutOff \/ PointersRead
  BY <1>2 DEF SkipPage, PointersCutOff, PointersRead, MorePointers, Stage, InRecord
<1>3. CASE ReadPointer
  <2>1. pc = "pointers" /\ pc' = pc /\ cellCount' = cellCount
    BY <1>3 DEF ReadPointer, MorePointers
  <2>2. Len(pointers') = Len(pointers) + 1 /\ Len(pointers) \in Nat /\ cellCount \in Nat
    BY <1>3 DEF ReadPointer, TypeOK
  <2>. QED  BY <2>1, <2>2 DEF Stage, EntriesLeft, InRecord
<1>4. CASE PageDone \/ ColumnCutOff \/ OutOfRange \/ Overrun
  BY <1>4 DEF PageDone, ColumnCutOff, MoreColumns, OutOfRange, Overrun, ReadsVarInt, Stage, InRecord
<1>5. CASE ReadType \/ EmptyColumn \/ ReadColumn
  BY <1>5, LoopLower
<1>6. CASE SeekCell \/ ReadPayloadSize \/ ReadRowid \/ ReadHeaderSize \/ TypesRead \/ ColumnsRead
  <2>1. UNCHANGED <<pointers, ci>> /\ (pc = "cell" \/ InRecord) /\ InRecord'
    BY <1>6 DEF SeekCell, ReadPayloadSize, ReadRowid, ReadHeaderSize, TypesRead, ColumnsRead, InRecord
  <2>2. Stage' = Stage /\ EntriesLeft' = EntriesLeft
    BY <2>1 DEF Stage, EntriesLeft, InRecord
  <2>3. StepsLeft' < StepsLeft
    BY <1>6 DEF SeekCell, ReadPayloadSize, ReadRowid, ReadHeaderSize, TypesRead, ColumnsRead, StepsLeft, RecordSteps
  <2>. QED  BY <2>2, <2>3
<1>7. CASE Present
  <2>1. CASE pc' = "thrown"
    BY <1>7, <2>1 DEF Present, Stage, InRecord
  <2>2. CASE pc' = "cell" /\ ci' = ci + 1
    <3>1. pc = "present" /\ pointers' = pointers /\ ci \in Nat /\ Len(pointers) \in Nat
      BY <1>7 DEF Present, TypeOK
    <3>. QED  BY <2>2, <3>1 DEF Stage, EntriesLeft, InRecord
  <2>. QED  BY <1>7, <2>1, <2>2 DEF Present
<1>. QED  BY <1>1, <1>2, <1>3, <1>4, <1>5, <1>6, <1>7 DEF Next, ReadPage, ReadRecord

(* Whatever a page says of itself, and however long it is, every step on   *)
(* it lowers its rank, so that the loops of main, read and readHeader come *)
(* to an end: the part of Termination that is no question of fairness.     *)
THEOREM PageEnds == Safe => AlwaysNearer
<1>1. ASSUME TypeOK, ColumnsInv, Counted, [Next]_vars PROVE [Lower(Rank', Rank)]_vars
  <2>1. CASE Next /\ ~Stopped
    <3>1. /\ Stage \in Nat /\ EntriesLeft \in Nat /\ StepsLeft \in Nat /\ LoopLeft \in Nat
      BY <1>1, RankType
    <3>2. Lower(<<Stage', EntriesLeft', StepsLeft', LoopLeft'>>, <<Stage, EntriesLeft, StepsLeft, LoopLeft>>)
      BY <1>1, <2>1, <3>1, StepLower, Lowers
    <3>. QED  BY <3>2 DEF Rank
  <2>2. CASE Stopped \/ UNCHANGED vars
    BY <2>2 DEF Stopped
  <2>. QED  BY <1>1, <2>1, <2>2
<1>. QED  BY <1>1, TypeCorrect, PointersInit, PointersNext, ColumnsInit, ColumnsNext, CountedInit, CountedNext, PTL
          DEF Safe, AlwaysNearer

-----------------------------------------------------------------------------
(***************************************************************************)
(* NumbersShown: the conversions of a column of any of the types that are  *)
(* shown as numbers, for all bytes it can have.                            *)
(***************************************************************************)
LEMMA NotRounded == ASSUME NEW w, Len(w) # 9 PROVE w # Rounded
<1>1. Len(Rounded) = 9
  BY DEF Rounded, Zeros
<1>. QED  BY <1>1

LEMMA ZerosType == ASSUME NEW n \in Nat PROVE Zeros(n) \in Seq(Nat) /\ Len(Zeros(n)) = n /\ \A j \in 1..n : Zeros(n)[j] = 0
<1>1. Zeros(n) \in [1..n -> Nat]
  BY DEF Zeros
<1>2. Zeros(n) \in Seq(Nat)
  BY <1>1, SeqDef
<1>. QED  BY <1>1, <1>2 DEF Zeros

(* The bytes from the first one that is not zero. *)
LEMMA MagnitudeFrom ==
  ASSUME NEW w \in Seq(Nat), w # Rounded, NEW m \in DOMAIN w, w[m] # 0, \A j \in 1 .. m - 1 : w[j] = 0
  PROVE  Magnitude(w) = SubSeq(w, m, Len(w))
<1>. DEFINE lead == {k \in DOMAIN w : w[k] # 0}
<1>1. m \in lead /\ m \in Nat /\ \A j \in lead : j \in Nat /\ m <= j
  <2>1. DOMAIN w = 1 .. Len(w) /\ Len(w) \in Nat
    OBVIOUS
  <2>. QED  BY <2>1
<1>2. (CHOOSE k \in lead : \A j \in lead : k <= j) = m
  BY <1>1
<1>. QED  BY <1>1, <1>2 DEF Magnitude

LEMMA MagnitudeOfZeros ==
  ASSUME NEW w \in Seq(Nat), w # Rounded, \A j \in DOMAIN w : w[j] = 0
  PROVE  Magnitude(w) = <<>>
BY DEF Magnitude

LEMMA LeadingZeros ==
  ASSUME NEW w \in Seq(Nat), NEW n \in Nat, n + Len(w) < 9
  PROVE  Magnitude(Zeros(n) \o w) = Magnitude(w)
<1>. DEFINE v == Zeros(n) \o w
<1>1. /\ v \in Seq(Nat) /\ Len(v) = n + Len(w) /\ Len(w) \in Nat
      /\ \A j \in 1..n : v[j] = 0
      /\ \A j \in 1 .. Len(w) : v[n + j] = w[j]
  <2>1. Zeros(n) \in Seq(Nat) /\ Len(Zeros(n)) = n /\ \A j \in 1..n : Zeros(n)[j] = 0
    BY ZerosType
  <2>. QED  BY <2>1
<1>. HIDE DEF v
<1>2. w # Rounded /\ v # Rounded
  <2>1. Len(w) # 9 /\ Len(v) # 9
    <3>1. PICK size : size = Len(w)
      OBVIOUS
    <3>2. size \in Nat /\ n + size < 9 /\ Len(v) = n + size
      BY <1>1, <3>1
    <3>3. size # 9 /\ n + size # 9
      BY <3>2
    <3>. QED  BY <3>1, <3>2, <3>3
  <2>. QED  BY <2>1, NotRounded
<1>3. CASE \A j \in 1 .. Len(w) : w[j] = 0
  <2>1. ASSUME NEW j \in DOMAIN v PROVE v[j] = 0
    <3>1. j \in 1..n \/ (j - n \in 1 .. Len(w) /\ n + (j - n) = j)
      BY <1>1
    <3>. QED  BY <1>1, <1>3, <3>1
  <2>2. \A j \in DOMAIN w : w[j] = 0
    BY <1>3
  <2>. QED  BY <1>1, <1>2, <2>1, <2>2, MagnitudeOfZeros DEF v
<1>4. CASE \E j \in 1 .. Len(w) : w[j] # 0
  <2>1. PICK m \in {j \in 1 .. Len(w) : w[j] # 0} : \A j \in {i \in 1 .. Len(w) : w[i] # 0} : m <= j
    BY <1>4, Least
  <2>2. m \in DOMAIN w /\ m \in Nat /\ w[m] # 0 /\ \A j \in 1 .. m - 1 : w[j] = 0
    BY <1>1, <2>1
  <2>3. Magnitude(w) = SubSeq(w, m, Len(w))
    BY <1>2, <2>1, <2>2, MagnitudeFrom
  <2>. PICK p : p = n + m
    OBVIOUS
  <2>4. p \in DOMAIN v /\ v[p] # 0
    BY <1>1, <2>1
  <2>5. ASSUME NEW j \in 1 .. p - 1 PROVE v[j] = 0
    <3>1. j \in 1..n \/ (j - n \in 1 .. m - 1 /\ j - n \in 1 .. Len(w) /\ n + (j - n) = j)
      BY <1>1, <2>1
    <3>. QED  BY <1>1, <2>2, <3>1
  <2>6. Magnitude(v) = SubSeq(v, p, Len(v))
    BY <1>1, <1>2, <2>4, <2>5, MagnitudeFrom
  <2>7. SubSeq(v, p, Len(v)) = SubSeq(w, m, Len(w))
    BY <1>1, <2>1
  <2>. QED  BY <2>3, <2>6, <2>7 DEF v
<1>. QED  BY <1>3, <1>4

(* What an index of a concatenation is one of. *)
LEMMA Concatenated ==
  ASSUME NEW s \in Seq(Nat), NEW t \in Seq(Nat)
  PROVE  /\ s \o t \in Seq(Nat) /\ Len(s \o t) = Len(s) + Len(t)
         /\ \A j \in 1 .. Len(s) : (s \o t)[j] = s[j]
         /\ \A j \in 1 .. Len(t) : (s \o t)[Len(s) + j] = t[j]
<1>. PICK st : st = s \o t
  OBVIOUS
<1>. PICK m \in Nat : m = Len(s)
  OBVIOUS
<1>. PICK n \in Nat : n = Len(t)
  OBVIOUS
<1>1. /\ st \in Seq(Nat) /\ Len(st) = m + n
      /\ \A i \in 1 .. m + n : st[i] = IF i <= m THEN s[i] ELSE t[i - m]
  BY ConcatProperties, Zenon
<1>2. ASSUME NEW j \in 1..m PROVE st[j] = s[j]
  <2>1. j \in 1 .. m + n /\ j <= m
    OBVIOUS
  <2>. QED  BY <1>1, <2>1
<1>3. ASSUME NEW j \in 1..n PROVE st[m + j] = t[j]
  <2>1. m + j \in 1 .. m + n /\ ~(m + j <= m) /\ (m + j) - m = j
    OBVIOUS
  <2>. QED  BY <1>1, <2>1
<1>. QED  BY <1>1, <1>2, <1>3

(* An integer read into its own size, or into a larger one, and reversed.  *)
LEMMA Reversed ==
  ASSUME NEW data \in Seq(Nat), NEW n \in Nat, Len(data) = n,
         NEW more \in Nat, NEW width \in Nat, width = n + more
  PROVE  FromBig(ToThis(data, n, width)) = data \o Zeros(more)
<1>. PICK r : r = Reverse(data)
  OBVIOUS
<1>. PICK z : z = Zeros(more)
  OBVIOUS
<1>1. SubSeq(data, 1, n) = data
  BY SubSeqFull
<1>2. r \in Seq(Nat) /\ Len(r) = n /\ \A j \in 1..n : r[j] = data[n - j + 1]
  BY DEF Reverse
<1>3. z \in Seq(Nat) /\ Len(z) = more /\ \A j \in 1..more : z[j] = 0
  BY ZerosType
<1>. PICK word : word = z \o r
  OBVIOUS
<1>. PICK big : big = data \o z
  OBVIOUS
<1>4. ToThis(data, n, width) = word
  <2>1. width - Len(r) = more
    BY <1>2
  <2>. QED  BY <1>1, <2>1 DEF ToThis, Widen
<1>5. /\ word \in Seq(Nat) /\ Len(word) = width
      /\ \A j \in 1..more : word[j] = z[j]
      /\ \A j \in 1..n : word[more + j] = r[j]
  <2>1. width = more + n
    OBVIOUS
  <2>2. /\ z \o r \in Seq(Nat) /\ Len(z \o r) = more + n
        /\ \A j \in 1..more : (z \o r)[j] = z[j]
        /\ \A j \in 1..n : (z \o r)[more + j] = r[j]
    <3>1. z \in Seq(Nat) /\ r \in Seq(Nat)
      BY <1>2, <1>3
    <3>2. /\ z \o r \in Seq(Nat) /\ Len(z \o r) = Len(z) + Len(r)
          /\ \A j \in 1 .. Len(z) : (z \o r)[j] = z[j]
          /\ \A j \in 1 .. Len(r) : (z \o r)[Len(z) + j] = r[j]
      BY <3>1, Concatenated, Zenon
    <3>. QED  BY <1>2, <1>3, <3>2
  <2>. QED  BY <2>1, <2>2
<1>6. /\ big \in Seq(Nat) /\ Len(big) = width
      /\ \A j \in 1..n : big[j] = data[j]
      /\ \A j \in 1..more : big[n + j] = z[j]
  <2>1. /\ data \o z \in Seq(Nat) /\ Len(data \o z) = n + more
        /\ \A j \in 1..n : (data \o z)[j] = data[j]
        /\ \A j \in 1..more : (data \o z)[n + j] = z[j]
    <3>1. data \in Seq(Nat) /\ z \in Seq(Nat)
      BY <1>3
    <3>2. /\ data \o z \in Seq(Nat) /\ Len(data \o z) = Len(data) + Len(z)
          /\ \A j \in 1 .. Len(data) : (data \o z)[j] = data[j]
          /\ \A j \in 1 .. Len(z) : (data \o z)[Len(data) + j] = z[j]
      BY <3>1, Concatenated, Zenon
    <3>. QED  BY <1>3, <3>2
  <2>. QED  BY <2>1
<1>7. ASSUME NEW j \in 1..width PROVE word[width - j + 1] = big[j]
  <2>1. CASE j <= n
    <3>. PICK i : i = n - j + 1
      OBVIOUS
    <3>1. width - j + 1 = more + i /\ i \in 1..n /\ n - i + 1 = j /\ j \in 1..n
      BY <2>1
    <3>2. word[more + i] = r[i] /\ r[i] = data[n - i + 1]
      BY <1>2, <1>5, <3>1
    <3>. QED  BY <1>6, <3>1, <3>2
  <2>2. CASE ~(j <= n)
    <3>. PICK i : i = j - n
      OBVIOUS
    <3>1. width - j + 1 \in 1..more /\ i \in 1..more /\ n + i = j
      BY <2>2
    <3>2. word[width - j + 1] = 0 /\ big[n + i] = 0
      BY <1>3, <1>5, <1>6, <3>1
    <3>. QED  BY <3>1, <3>2
  <2>. QED  BY <2>1, <2>2
<1>8. FromBig(word) = [j \in 1..width |-> word[width - j + 1]]
  BY <1>5 DEF FromBig, Reverse
<1>9. big = [j \in 1..width |-> big[j]]
  <2>1. big \in [1..width -> Nat]
    BY <1>6, LenProperties, Zenon
  <2>. QED  BY <2>1
<1>. QED  BY <1>4, <1>7, <1>8, <1>9

LEMMA Unchanged ==
  ASSUME NEW data \in Seq(Nat), NEW n \in Nat, Len(data) = n
  PROVE  FromBig(ToThis(data, n, n)) = data
<1>1. 0 \in Nat /\ n = n + 0
  OBVIOUS
<1>3. FromBig(ToThis(data, n, n)) = data \o Zeros(0)
  BY <1>1, Reversed, Zenon
<1>2. Zeros(0) = <<>>
  BY DEF Zeros
<1>. QED  BY <1>2, <1>3, ConcatEmptySeq

LEMMA Widened ==
  ASSUME NEW word \in Seq(Nat), NEW m \in Nat, Len(word) = m,
         NEW width \in Nat, m <= width, width < 9
  PROVE  /\ Widen(word, width) \in Seq(Nat) /\ Len(Widen(word, width)) = width
         /\ Magnitude(Widen(word, width)) = Magnitude(word)
<1>. PICK n : n = width - Len(word)
  OBVIOUS
<1>1. n \in Nat /\ n + Len(word) = width
  OBVIOUS
<1>2. Zeros(n) \in Seq(Nat) /\ Len(Zeros(n)) = n
  BY <1>1, ZerosType
<1>3. Widen(word, width) = Zeros(n) \o word
  BY DEF Widen
<1>4. Zeros(n) \o word \in Seq(Nat) /\ Len(Zeros(n) \o word) = n + Len(word)
  <2>1. Len(word) \in Nat
    OBVIOUS
  <2>. QED  BY <1>1, <1>2, <2>1, Concatenated
<1>5. n + Len(word) < 9
  BY <1>1
<1>6. Magnitude(Zeros(n) \o word) = Magnitude(word)
  BY <1>1, <1>5, LeadingZeros, Zenon
<1>. QED  BY <1>1, <1>3, <1>4, <1>6

(* A one, a zero or a byte in a word of four bytes. *)
LEMMA WideByte ==
  ASSUME NEW byte \in Nat
  PROVE  Magnitude(Widen(Widen(<<byte>>, 2), 4)) = Magnitude(<<byte>>)
<1>. PICK word : word = <<byte>>
  OBVIOUS
<1>1. word \in Seq(Nat) /\ Len(word) = 1
  OBVIOUS
<1>2. 1 \in Nat /\ 2 \in Nat /\ 4 \in Nat /\ 1 <= 2 /\ 2 <= 4 /\ 2 < 9 /\ 4 < 9
  OBVIOUS
<1>. PICK wide : wide = Widen(word, 2)
  OBVIOUS
<1>3. wide \in Seq(Nat) /\ Len(wide) = 2 /\ Magnitude(wide) = Magnitude(word)
  BY <1>1, <1>2, Widened, Zenon
<1>4. Magnitude(Widen(wide, 4)) = Magnitude(wide)
  BY <1>2, <1>3, Widened, Zenon
<1>. QED  BY <1>3, <1>4

LEMMA OneByte == Magnitude(<<0>>) = <<>> /\ Magnitude(<<1>>) = <<1>>
<1>1. <<0>> # Rounded /\ <<1>> # Rounded
  <2>1. Len(<<0>>) # 9 /\ Len(<<1>>) # 9
    OBVIOUS
  <2>. QED  BY <2>1, NotRounded
<1>2. Magnitude(<<0>>) = <<>>
  <2>1. <<0>> \in Seq(Nat) /\ \A j \in DOMAIN <<0>> : <<0>>[j] = 0
    OBVIOUS
  <2>. QED  BY <1>1, <2>1, MagnitudeOfZeros, Zenon
<1>3. Magnitude(<<1>>) = SubSeq(<<1>>, 1, 1)
  <2>. PICK w : w = <<1>>
    OBVIOUS
  <2>1. w \in Seq(Nat) /\ 1 \in DOMAIN w /\ Len(w) = 1 /\ w[1] # 0
    OBVIOUS
  <2>2. \A j \in 1 .. 1 - 1 : w[j] = 0
    OBVIOUS
  <2>3. Magnitude(w) = SubSeq(w, 1, Len(w))
    BY <1>1, <2>1, <2>2, MagnitudeFrom
  <2>. QED  BY <2>1, <2>3
<1>. QED  BY <1>2, <1>3

(* The integers of one to four bytes, and the two that have none. *)
LEMMA ShortWords ==
  ASSUME NEW col, NEW data \in Seq(Nat), data = col.data, Len(data) = Sizes[col.type],
         col.type \in {1, 2, 3, 4, 8, 9}
  PROVE  Magnitude(NumberOf(col)) = Expected(col)
<1>. USE DEF SixBytesIntBE, EightBytesIntBE, FloatBE, ThreeBytesIntBE, FourBytesIntBE,
         TwoBytesIntBE, ByteInt, One
<1>1. NumberOf(col) = AsUInt32(col)
  BY DEF NumberOf
<1>2. col.type \in 1..4 => Len(data) = col.type
  BY DEF Sizes, SerialTypes, String
<1>3. CASE col.type = 4
  <2>1. Len(data) = 4
    BY <1>2, <1>3
  <2>2. FromBig(ToThis(data, 4, 4)) = data
    BY <2>1, Unchanged
  <2>. QED  BY <1>1, <1>3, <2>2 DEF AsUInt32, Expected
<1>4. CASE col.type = 3
  <2>1. Len(data) = 3
    BY <1>2, <1>4
  <2>2. FromBig(ToThis(data, 3, 4)) = data \o Zeros(1)
    <3>1. 3 \in Nat /\ 1 \in Nat /\ 4 \in Nat /\ 4 = 3 + 1
      OBVIOUS
    <3>. QED  BY <2>1, <3>1, Reversed, Zenon
  <2>3. Zeros(1) = <<0>>
    BY DEF Zeros
  <2>4. NumberOf(col) = data \o <<0>>
    BY <1>1, <1>4, <2>2, <2>3 DEF AsUInt32
  <2>. QED  BY <1>4, <2>4 DEF Expected
<1>5. CASE col.type = 2
  <2>1. Len(data) = 2
    BY <1>2, <1>5
  <2>2. FromBig(ToThis(data, 2, 2)) = data
    BY <2>1, Unchanged
  <2>3. NumberOf(col) = Widen(data, 4)
    BY <1>1, <1>5, <2>2 DEF AsUInt32, AsUInt16
  <2>4. 2 \in Nat /\ 4 \in Nat /\ 2 <= 4 /\ 4 < 9
    OBVIOUS
  <2>5. Magnitude(Widen(data, 4)) = Magnitude(data)
    BY <2>1, <2>4, Widened, Zenon
  <2>. QED  BY <1>5, <2>3, <2>5 DEF Expected
<1>6. CASE col.type \in {1, 8, 9}
  <2>1. NumberOf(col) = Widen(Widen(AsUInt8(col), 2), 4)
    BY <1>1, <1>6 DEF AsUInt32, AsUInt16
  <2>2. CASE col.type = 8
    BY <2>1, <2>2, WideByte, OneByte DEF AsUInt8, Expected
  <2>3. CASE col.type = 9
    BY <2>1, <2>3, WideByte, OneByte DEF AsUInt8, Expected
  <2>4. CASE col.type = 1
    <3>1. Len(data) = 1
      BY <1>2, <2>4
    <3>2. data[1] \in Nat /\ data = <<data[1]>>
      BY <3>1
    <3>3. NumberOf(col) = Widen(Widen(<<data[1]>>, 2), 4)
      BY <2>1, <2>4 DEF AsUInt8
    <3>4. Magnitude(NumberOf(col)) = Magnitude(data)
      BY <3>2, <3>3, WideByte
    <3>. QED  BY <2>4, <3>4 DEF Expected
  <2>. QED  BY <1>6, <2>2, <2>3, <2>4
<1>. QED  BY <1>3, <1>4, <1>5, <1>6

(* Six bytes are a number a double has, whatever they are. *)
LEMMA SixBytes ==
  ASSUME NEW data \in Seq(Nat), Len(data) = 6
  PROVE  ToDouble(data \o Zeros(2)) = data \o Zeros(2)
<1>1. Zeros(2) \in Seq(Nat) /\ Len(Zeros(2)) = 2 /\ \A j \in 1..2 : Zeros(2)[j] = 0
  BY ZerosType
<1>. PICK word : word = data \o Zeros(2)
  OBVIOUS
<1>2. word \in Seq(Nat) /\ Len(word) = 6 + 2 /\ \A j \in 1..2 : word[6 + j] = Zeros(2)[j]
  <2>1. 6 \in Nat /\ 2 \in Nat
    OBVIOUS
  <2>2. /\ data \o Zeros(2) \in Seq(Nat) /\ Len(data \o Zeros(2)) = 6 + 2
        /\ \A j \in 1..2 : (data \o Zeros(2))[6 + j] = Zeros(2)[j]
    <3>1. data \in Seq(Nat) /\ Zeros(2) \in Seq(Nat)
      BY <1>1
    <3>2. /\ data \o Zeros(2) \in Seq(Nat) /\ Len(data \o Zeros(2)) = Len(data) + Len(Zeros(2))
          /\ \A j \in 1 .. Len(data) : (data \o Zeros(2))[j] = data[j]
          /\ \A j \in 1 .. Len(Zeros(2)) : (data \o Zeros(2))[Len(data) + j] = Zeros(2)[j]
      BY <3>1, Concatenated, Zenon
    <3>. QED  BY <1>1, <3>2
  <2>. QED  BY <2>2
<1>3. \A k \in DOMAIN word : k \in 0+1 .. 0+6 \/ word[k] = 0
  <2>1. word[6 + 1] = 0 /\ word[6 + 2] = 0
    <3>1. 1 \in 1..2 /\ 2 \in 1..2
      OBVIOUS
    <3>. QED  BY <1>1, <1>2, <3>1, Zenon
  <2>2. DOMAIN word = 1 .. 8
    <3>1. DOMAIN word = 1 .. 6 + 2
      BY <1>2, LenProperties, Zenon
    <3>2. 6 + 2 = 8
      OBVIOUS
    <3>. QED  BY <3>1, <3>2, Zenon
  <2>3. \A k \in 1..8 : k \in 0+1 .. 0+6 \/ k = 6 + 1 \/ k = 6 + 2
    OBVIOUS
  <2>. QED  BY <2>1, <2>2, <2>3, Zenon
<1>4. \E a \in 0..2 : \A k \in DOMAIN word : k \in a+1 .. a+6 \/ word[k] = 0
  BY <1>3
<1>. QED  BY <1>4 DEF ToDouble

(* Six and eight bytes, which become floating point numbers. *)
LEMMA LongWords ==
  ASSUME NEW col, NEW data \in Seq(Nat), data = col.data, Len(data) = Sizes[col.type],
         col.type \in {5, 6, 7}
  PROVE  ShownAsExpected(col)
<1>. USE DEF SixBytesIntBE, EightBytesIntBE, FloatBE, ThreeBytesIntBE, FourBytesIntBE,
         TwoBytesIntBE, ByteInt, One
<1>1. NumberOf(col) = AsFloat64(col)
  BY DEF NumberOf
<1>2. Sizes[5] = 6 /\ Sizes[6] = 8 /\ Sizes[7] = 8
  BY DEF Sizes, SerialTypes, String
<1>3. \A word : ToDouble(word) \in {word, Rounded}
  BY DEF ToDouble
<1>4. Magnitude(Rounded) = Rounded
  BY DEF Magnitude
<1>5. CASE col.type = 5
  <2>1. Len(data) = 6
    BY <1>2, <1>5
  <2>2. FromBig(ToThis(data, 6, 8)) = data \o Zeros(2)
    <3>1. 6 \in Nat /\ 2 \in Nat /\ 8 \in Nat /\ 8 = 6 + 2
      OBVIOUS
    <3>. QED  BY <2>1, <3>1, Reversed, Zenon
  <2>3. NumberOf(col) = data \o Zeros(2)
    <3>1. AsUInt64(col) = data \o Zeros(2)
      BY <1>5, <2>2 DEF AsUInt64
    <3>2. NumberOf(col) = ToDouble(AsUInt64(col))
      BY <1>1, <1>5 DEF AsFloat64
    <3>. QED  BY <2>1, <3>1, <3>2, SixBytes
  <2>4. Zeros(2) = <<0, 0>>
    BY DEF Zeros
  <2>5. NumberOf(col) = data \o <<0, 0>>
    BY <2>3, <2>4, Zenon
  <2>6. Expected(col) = Magnitude(data \o <<0, 0>>)
    BY <1>5 DEF Expected
  <2>. QED  BY <2>5, <2>6 DEF ShownAsExpected
<1>6. CASE col.type \in {6, 7}
  <2>1. Len(data) = 8
    BY <1>2, <1>6
  <2>2. FromBig(ToThis(data, 8, 8)) = data
    BY <2>1, Unchanged
  <2>3. NumberOf(col) \in {data, Rounded}
    <3>1. CASE col.type = 6
      BY <1>1, <1>3, <2>2, <3>1 DEF AsFloat64, AsUInt64
    <3>2. CASE col.type = 7
      <4>. PICK little : little = ToDouble(ToThis(data, 8, 8))
        OBVIOUS
      <4>1. CASE little = Rounded
        BY <1>1, <3>2, <4>1 DEF AsFloat64
      <4>2. CASE little # Rounded
        <5>1. little = ToThis(data, 8, 8)
          BY <1>3, <4>2
        <5>2. NumberOf(col) = ToDouble(data)
          BY <1>1, <2>2, <3>2, <4>2, <5>1 DEF AsFloat64
        <5>. QED  BY <1>3, <5>2
      <4>. QED  BY <4>1, <4>2
    <3>. QED  BY <1>6, <3>1, <3>2
  <2>4. Expected(col) = Magnitude(data) /\ Sizes[col.type] = 8
    BY <1>2, <1>6 DEF Expected
  <2>. QED  BY <1>4, <2>3, <2>4 DEF ShownAsExpected
<1>. QED  BY <1>5, <1>6

LEMMA AllTypes ==
  ASSUME NEW col, NEW data \in Seq(Nat), data = col.data, Len(data) = Sizes[col.type],
         col.type \in Numbers
  PROVE  ShownAsExpected(col)
<1>1. CASE col.type \in {1, 2, 3, 4, 8, 9}
  BY <1>1, ShortWords DEF ShownAsExpected
<1>2. CASE col.type \in {5, 6, 7}
  BY <1>2, LongWords
<1>. QED  BY <1>1, <1>2 DEF Numbers

(* A column of a type shown as a number has as many bytes as the type has, *)
(* also where a record is presented with the columns of the one before.    *)
Sized(cols) == \A k \in DOMAIN cols : cols[k].type \in Numbers => Len(cols[k].data) = Sizes[cols[k].type]

NumbersInv ==
  /\ \A n \in DOMAIN formats : formats[n].type \in Numbers => formats[n].size = Sizes[formats[n].type]
  /\ Sized(columns)
  /\ \A n \in DOMAIN presented : Sized(presented[n].columns)

LEMMA NumbersInit == Init => NumbersInv
BY DEF Init, NumbersInv, Sized

LEMMA FormatOfSized ==
  ASSUME NEW n \in Nat, FormatOf(n).type \in Numbers PROVE FormatOf(n).size = Sizes[FormatOf(n).type]
BY DEF FormatOf, Numbers, String, Blob

LEMMA NumbersNext == TypeOK /\ NumbersInv /\ [Next]_vars => NumbersInv'
<1>. SUFFICES ASSUME TypeOK, NumbersInv, [Next]_vars PROVE NumbersInv'
  OBVIOUS
<1>. USE DEF headerVars, recordVars, readerVars
<1>1. CASE ReadType
  <2>1. PICK v \in Decoded : formats' = Append(formats, FormatOf(v))
    BY <1>1 DEF ReadType
  <2>2. v \in Nat /\ FormatOf(v) \in FormatType /\ formats \in Seq(FormatType)
    BY DecodedNat, FormatOfType DEF TypeOK, FormatType
  <2>3. ASSUME NEW n \in DOMAIN formats', formats'[n].type \in Numbers
        PROVE  formats'[n].size = Sizes[formats'[n].type]
    <3>1. CASE n \in DOMAIN formats
      BY <2>1, <2>2, <2>3, <3>1 DEF NumbersInv
    <3>2. CASE n \notin DOMAIN formats
      <4>1. formats'[n] = FormatOf(v)
        BY <2>1, <2>2, <3>2
      <4>. QED  BY <2>2, <2>3, <4>1, FormatOfSized
    <3>. QED  BY <3>1, <3>2
  <2>. QED  BY <1>1, <2>3 DEF ReadType, NumbersInv
<1>2. CASE EmptyColumn \/ ReadColumn
  <2>1. page \in Seq(Byte) /\ formats \in Seq(FormatType) /\ columns \in Seq(Column)
        /\ dataIt \in {Null} \cup DOMAIN page /\ Len(columns) + 1 \in DOMAIN formats
    BY <1>2 DEF EmptyColumn, ReadColumn, MoreColumns, TypeOK, InRecord, FormatType
  <2>2. Format.size \in Nat /\ (Format.type \in Numbers => Format.size = Sizes[Format.type])
    <3>1. Format = formats[Len(columns) + 1] /\ Format \in FormatType
      BY <2>1 DEF Format
    <3>. QED  BY <2>1, <3>1 DEF NumbersInv, FormatType
  <2>3. PICK col : /\ columns' = Append(columns, col)
                   /\ col.type = Format.type
                   /\ Len(col.data) = Format.size
    <3>1. CASE EmptyColumn
      BY <3>1 DEF EmptyColumn
    <3>2. CASE ReadColumn
      <4>1. Format.size \in Nat \ {0} /\ Fits(page, dataIt, Format.size)
        BY <2>2, <3>2 DEF ReadColumn
      <4>2. Len(Slice(page, dataIt, Format.size)) = Format.size
        BY <2>1, <4>1, SliceLength
      <4>. QED  BY <3>2, <4>2 DEF ReadColumn
    <3>. QED  BY <1>2, <3>1, <3>2
  <2>4. ASSUME NEW k \in DOMAIN columns', columns'[k].type \in Numbers
        PROVE  Len(columns'[k].data) = Sizes[columns'[k].type]
    <3>1. CASE k \in DOMAIN columns
      BY <2>1, <2>3, <2>4, <3>1 DEF NumbersInv, Sized
    <3>2. CASE k \notin DOMAIN columns
      <4>1. columns'[k] = col
        BY <2>1, <2>3, <3>2
      <4>. QED  BY <2>2, <2>3, <2>4, <4>1
    <3>. QED  BY <3>1, <3>2
  <2>. QED  BY <1>2, <2>4 DEF EmptyColumn, ReadColumn, NumbersInv, Sized
<1>3. CASE Present
  <2>1. presented' = Append(presented, [cell |-> ci, columns |-> columns, rowid |-> rowid])
    BY <1>3 DEF Present
  <2>2. presented \in Seq(Presented)
    BY DEF TypeOK, Presented
  <2>3. ASSUME NEW n \in DOMAIN presented' PROVE Sized(presented'[n].columns)
    <3>1. (n \in DOMAIN presented /\ presented'[n] = presented[n]) \/ presented'[n].columns = columns
      BY <2>1, <2>2
    <3>. QED  BY <3>1 DEF NumbersInv
  <2>. QED  BY <1>3, <2>3 DEF Present, NumbersInv, Sized
<1>4. CASE TypesRead
  BY <1>4 DEF TypesRead, NumbersInv, Sized
<1>5. CASE ReadHeaderSize
  BY <1>5 DEF ReadHeaderSize, NumbersInv
<1>6. ASSUME UNCHANGED <<formats, columns, presented>> PROVE NumbersInv'
  BY <1>6 DEF NumbersInv
<1>7. CASE ReadPage
  BY <1>6, <1>7 DEF ReadPage, ReadHeader, HeaderOverrun, SkipPage, ReadPointer, PointersCutOff, PointersRead
<1>8. CASE SeekCell \/ PageDone
  BY <1>6, <1>8 DEF SeekCell, PageDone
<1>9. CASE ReadPayloadSize \/ ReadRowid \/ ColumnCutOff \/ ColumnsRead \/ OutOfRange \/ Overrun
  BY <1>6, <1>9 DEF ReadPayloadSize, ReadRowid, ColumnCutOff, ColumnsRead, OutOfRange, Overrun
<1>10. CASE UNCHANGED vars
  BY <1>6, <1>10 DEF vars
<1>. QED  BY <1>1, <1>2, <1>3, <1>4, <1>5, <1>7, <1>8, <1>9, <1>10 DEF Next, ReadRecord, Stopped

(* Of every record of every page, each column of a type that is shown as a *)
(* number is shown as its bytes say: for the integers of 3 and 6 bytes     *)
(* that is what the test of all types expects of them.                     *)
THEOREM NumbersAreShown == Safe => []NumbersShown
<1>1. TypeOK /\ NumbersInv => NumbersShown
  <2>. SUFFICES ASSUME TypeOK, NumbersInv, NEW n \in DOMAIN presented, NEW k \in DOMAIN presented[n].columns,
                       presented[n].columns[k].type \in Numbers
                PROVE  ShownAsExpected(presented[n].columns[k])
    BY DEF NumbersShown, Range
  <2>. PICK cols : cols = presented[n].columns
    OBVIOUS
  <2>1. cols \in Seq(Column)
    <3>1. presented \in Seq(Presented)
      BY DEF TypeOK, Presented
    <3>2. presented[n] \in Presented
      BY <3>1
    <3>. QED  BY <3>2 DEF Presented
  <2>. PICK col : col = cols[k]
    OBVIOUS
  <2>. PICK data : data = col.data
    OBVIOUS
  <2>2. col \in Column
    BY <2>1
  <2>3. data \in Seq(Nat)
    BY <2>2, ByteNat, SeqMonotonic DEF Column
  <2>4. Len(data) = Sizes[col.type]
    BY DEF NumbersInv, Sized
  <2>. QED  BY <2>3, <2>4, AllTypes
<1>2. Safe => []NumbersInv
  BY TypeCorrect, NumbersInit, NumbersNext, PTL DEF Safe
<1>. QED  BY <1>1, <1>2, TypeCorrect, PTL

=============================================================================
