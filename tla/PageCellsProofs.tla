--------------------------- MODULE PageCellsProofs ---------------------------
(***************************************************************************)
(* What reading a sound cell does, for every radix, every length of        *)
(* integers and every set of pages.                                        *)
(***************************************************************************)
EXTENDS PageCells, PageReaderProofs, FiniteSetTheorems

(* At a position there is at most one integer. *)
LEMMA NotLonger ==
  ASSUME NEW arr \in Seq(Byte), NEW p \in Nat, NEW n \in 1..MaxSize, NEW m \in 1..MaxSize,
         Ends(arr, p, n), Ends(arr, p, m), n < m
  PROVE  FALSE
<1>1. n \in Nat /\ m \in Nat /\ n - 1 \in 0 .. m - 2 /\ n < MaxSize /\ p + (n - 1) = p + n - 1
  BY MaxSizeAssumption
<1>2. arr[p + (n - 1)] >= Radix
  BY <1>1 DEF Ends
<1>3. arr[p + n - 1] < Radix /\ p + n - 1 \in DOMAIN arr
  BY <1>1 DEF Ends
<1>4. arr[p + n - 1] \in Nat
  BY <1>3, RadixAssumption DEF Byte
<1>. QED  BY <1>1, <1>2, <1>3, <1>4, RadixAssumption

LEMMA OneSize ==
  ASSUME NEW arr \in Seq(Byte), NEW p \in Nat \ {0}, NEW n \in 1..MaxSize, Encoded(arr, p, n)
  PROVE  Complete(arr, p) /\ SizeOf(arr, p) = n
<1>1. ASSUME NEW m \in 1..MaxSize, Encoded(arr, p, m) PROVE m = n
  <2>1. ~(n < m) /\ ~(m < n)
    BY <1>1, NotLonger DEF Encoded
  <2>. QED  BY <2>1, MaxSizeAssumption
<1>2. SizeOf(arr, p) \in 1..MaxSize /\ Encoded(arr, p, SizeOf(arr, p))
  BY DEF SizeOf
<1>. QED  BY <1>1, <1>2 DEF Complete, Null

(* A short integer is whole, and the next byte is the one behind it.       *)
LEMMA ShortRead ==
  ASSUME page \in Seq(Byte), NEW p \in Nat \ {0}, Short(p)
  PROVE  /\ Complete(page, p) /\ p <= Len(page) /\ SizeOf(page, p) \in Nat \ {0}
         /\ Ends(page, p, SizeOf(page, p)) /\ SizeOf(page, p) < MaxSize
         /\ p + SizeOf(page, p) - 1 <= Len(page)
         /\ NextOf(page, p) = IF p + SizeOf(page, p) <= Len(page) THEN p + SizeOf(page, p) ELSE Null
<1>1. PICK n \in 1 .. MaxSize - 1 : Encoded(page, p, n)
  BY DEF Short
<1>2. n \in 1..MaxSize /\ n < MaxSize /\ n \in Nat \ {0}
  BY MaxSizeAssumption
<1>3. Complete(page, p) /\ SizeOf(page, p) = n
  BY <1>1, <1>2, OneSize
<1>4. Ends(page, p, n)
  BY <1>1 DEF Encoded
<1>5. p + n - 1 \in 1 .. Len(page) /\ Len(page) \in Nat
  BY <1>4 DEF Ends
<1>. QED  BY <1>2, <1>3, <1>4, <1>5 DEF NextOf, Behind

-----------------------------------------------------------------------------
(* The k-th of some positions is the one with k of them up to it. *)
UpTo(T, q) == {r \in T : r <= q}

Before(T, q) == {r \in T : r < q}

LEMMA FinitePart ==
  ASSUME NEW n \in Nat, NEW T \in SUBSET (1..n), NEW q
  PROVE  /\ IsFiniteSet(T) /\ Cardinality(T) \in Nat
         /\ IsFiniteSet(UpTo(T, q)) /\ Cardinality(UpTo(T, q)) \in Nat
         /\ IsFiniteSet(Before(T, q)) /\ Cardinality(Before(T, q)) \in Nat
<1>1. IsFiniteSet(1..n)
  BY FS_Interval
<1>2. ASSUME NEW U \in SUBSET (1..n) PROVE IsFiniteSet(U) /\ Cardinality(U) \in Nat
  BY <1>1, FS_Subset, FS_CardinalityType
<1>3. UpTo(T, q) \in SUBSET (1..n) /\ Before(T, q) \in SUBSET (1..n)
  BY DEF UpTo, Before
<1>. QED  BY <1>2, <1>3

LEMMA NthIs ==
  ASSUME NEW n \in Nat, NEW T \in SUBSET (1..n), NEW q \in T
  PROVE  Nth(T, Cardinality(UpTo(T, q))) = q
<1>1. ASSUME NEW a \in T, NEW b \in T, Cardinality(UpTo(T, a)) = Cardinality(UpTo(T, b)), a < b
      PROVE  FALSE
  <2>1. a \in Nat /\ b \in Nat
    OBVIOUS
  <2>2. UpTo(T, a) \in SUBSET UpTo(T, b)
    <3>1. ASSUME NEW r \in T, r <= a PROVE r <= b
      <4>1. r \in Nat
        OBVIOUS
      <4>. QED  BY <1>1, <2>1, <3>1, <4>1
    <3>. QED  BY <3>1 DEF UpTo
  <2>3. UpTo(T, a) = UpTo(T, b)
    BY <1>1, <2>2, FinitePart, FS_Subset
  <2>4. b \in UpTo(T, b) /\ b \notin UpTo(T, a)
    BY <1>1, <2>1 DEF UpTo
  <2>. QED  BY <2>3, <2>4
<1>2. ASSUME NEW r \in T, Cardinality(UpTo(T, r)) = Cardinality(UpTo(T, q)) PROVE r = q
  <2>1. ~(r < q) /\ ~(q < r)
    BY <1>1, <1>2
  <2>2. r \in Nat /\ q \in Nat
    OBVIOUS
  <2>. QED  BY <2>1, <2>2
<1>. QED  BY <1>2 DEF Nth, UpTo

LEMMA OneMore ==
  ASSUME NEW n \in Nat, NEW T \in SUBSET (1..n), NEW q \in T
  PROVE  Cardinality(UpTo(T, q)) = Cardinality(Before(T, q)) + 1
<1>1. UpTo(T, q) = Before(T, q) \cup {q}
  <2>1. ASSUME NEW r \in T PROVE r <= q <=> r < q \/ r = q
    <3>1. r \in Nat /\ q \in Nat
      OBVIOUS
    <3>. QED  BY <3>1
  <2>2. q \in UpTo(T, q)
    BY <2>1 DEF UpTo
  <2>. QED  BY <2>1, <2>2 DEF UpTo, Before
<1>2. q \notin Before(T, q)
  <2>1. q \in Nat
    OBVIOUS
  <2>. QED  BY <2>1 DEF Before
<1>. QED  BY <1>1, <1>2, FinitePart, FS_AddElement

-----------------------------------------------------------------------------
(* The bytes of some columns are those of the columns before, and more.    *)
IsSizes(fs, s) == s = [k \in 0 .. Len(fs) |-> IF k = 0 THEN 0 ELSE s[k - 1] + fs[k].size]

LEMMA SizesStep ==
  ASSUME NEW fs \in Seq(FormatType), NEW s, IsSizes(fs, s)
  PROVE  s[0] = 0 /\ \A k \in 1 .. Len(fs) : s[k] = s[k - 1] + fs[k].size
<1>. PICK n \in Nat : n = Len(fs)
  OBVIOUS
<1>1. s = [k \in 0..n |-> IF k = 0 THEN 0 ELSE s[k - 1] + fs[k].size]
  BY DEF IsSizes
<1>2. s[0] = 0
  BY <1>1
<1>3. ASSUME NEW k \in 1..n PROVE s[k] = s[k - 1] + fs[k].size
  BY <1>1
<1>. QED  BY <1>2, <1>3

LEMMA SizesExist ==
  ASSUME NEW fs \in Seq(FormatType)
  PROVE  \E s : IsSizes(fs, s)
<1>. PICK n \in Nat : n = Len(fs)
  OBVIOUS
<1>. DEFINE step == [x \in (1..n) \X Nat |-> x[2] + fs[x[1]].size]
<1>1. \A k \in 1..n, m \in Nat : step[<<k, m>>] = m + fs[k].size
  OBVIOUS
<1>2. step \in [(1..n) \X Nat -> Nat]
  <2>1. ASSUME NEW k \in 1..n, NEW m \in Nat PROVE m + fs[k].size \in Nat
    <3>1. fs[k] \in FormatType
      OBVIOUS
    <3>. QED  BY <3>1 DEF FormatType
  <2>. QED  BY <2>1
<1>3. PICK f \in [0..n -> Nat] : f[0] = 0 /\ \A k \in 1..n : f[k] = step[<<k, f[k-1]>>]
  <2>1. 0 \in Nat
    OBVIOUS
  <2>. HIDE DEF step
  <2>2. \E f \in [0..n -> Nat] : Follows(f, n, 0, step)
    BY <1>2, <2>1, BoundedRecursion
  <2>. QED  BY <2>2 DEF Follows
<1>4. ASSUME NEW k \in 0..n PROVE f[k] = IF k = 0 THEN 0 ELSE f[k - 1] + fs[k].size
  <2>1. k # 0 => k \in 1..n /\ f[k - 1] \in Nat
    OBVIOUS
  <2>2. k # 0 => step[<<k, f[k-1]>>] = f[k - 1] + fs[k].size
    BY <1>1, <2>1
  <2>3. IF k = 0 THEN f[k] = 0 ELSE f[k] = step[<<k, f[k-1]>>]
    BY <1>3, <2>1
  <2>. QED  BY <2>2, <2>3
<1>5. f = [k \in 0..n |-> IF k = 0 THEN 0 ELSE f[k - 1] + fs[k].size]
  BY <1>3, <1>4
<1>6. IsSizes(fs, f)
  BY <1>5 DEF IsSizes
<1>. QED  BY <1>6

LEMMA SizeStep ==
  ASSUME NEW fs \in Seq(FormatType)
  PROVE  /\ SizeUpTo(fs, 0) = 0
         /\ \A k \in 1 .. Len(fs) : SizeUpTo(fs, k) = SizeUpTo(fs, k - 1) + fs[k].size
<1>. PICK s : s = CHOOSE r : IsSizes(fs, r)
  OBVIOUS
<1>1. IsSizes(fs, s)
  BY SizesExist
<1>2. \A k : SizeUpTo(fs, k) = s[k]
  BY DEF SizeUpTo, IsSizes
<1>. QED  BY <1>1, <1>2, SizesStep

LEMMA SizesGrow ==
  ASSUME NEW fs \in Seq(FormatType), NEW m \in 0 .. Len(fs)
  PROVE  SizeUpTo(fs, m) \in Nat /\ \A k \in 0..m : SizeUpTo(fs, k) \in Nat /\ SizeUpTo(fs, k) <= SizeUpTo(fs, m)
<1>. DEFINE S == {j \in Nat : j <= Len(fs) =>
                    SizeUpTo(fs, j) \in Nat /\ \A k \in 0..j : SizeUpTo(fs, k) \in Nat /\ SizeUpTo(fs, k) <= SizeUpTo(fs, j)}
<1>1. 0 \in S
  BY SizeStep
<1>2. ASSUME NEW j \in Nat, j \in S PROVE j + 1 \in S
  <2>. SUFFICES ASSUME j + 1 <= Len(fs)
                PROVE  /\ SizeUpTo(fs, j + 1) \in Nat
                       /\ \A k \in 0 .. j + 1 : SizeUpTo(fs, k) \in Nat /\ SizeUpTo(fs, k) <= SizeUpTo(fs, j + 1)
    OBVIOUS
  <2>1. j + 1 \in 1 .. Len(fs) /\ (j + 1) - 1 = j /\ j <= Len(fs)
    OBVIOUS
  <2>2. fs[j + 1].size \in Nat
    <3>1. fs[j + 1] \in FormatType
      BY <2>1
    <3>. QED  BY <3>1 DEF FormatType
  <2>3. PICK size \in Nat : size = fs[j + 1].size
    BY <2>2
  <2>4. PICK u \in Nat : u = SizeUpTo(fs, j)
    BY <1>2, <2>1
  <2>5. \A k \in 0..j : SizeUpTo(fs, k) \in Nat /\ SizeUpTo(fs, k) <= u
    BY <1>2, <2>1, <2>4
  <2>6. SizeUpTo(fs, j + 1) = u + size
    BY <2>1, <2>3, <2>4, SizeStep
  <2>7. ASSUME NEW k \in 0 .. j + 1 PROVE SizeUpTo(fs, k) \in Nat /\ SizeUpTo(fs, k) <= u + size
    <3>1. CASE k = j + 1
      BY <2>6, <3>1
    <3>2. CASE k # j + 1
      <4>1. k \in 0..j
        BY <3>2
      <4>2. PICK x \in Nat : x = SizeUpTo(fs, k)
        BY <2>5, <4>1
      <4>3. x <= u
        BY <2>5, <4>1, <4>2
      <4>. QED  BY <4>2, <4>3
    <3>. QED  BY <3>1, <3>2
  <2>. QED  BY <2>6, <2>7
<1>3. m \in S
  <2>. HIDE DEF S
  <2>. QED  BY <1>1, <1>2, Induction
<1>. QED  BY <1>3

-----------------------------------------------------------------------------
(* An iterator at q, or past the end of the page. *)
Past(q) == IF q <= Len(page) THEN q ELSE Null

(* The integers of a record header follow each other to its end.           *)
LEMMA NextStart ==
  ASSUME page \in Seq(Byte), NEW s \in Nat \ {0}, NEW size \in Nat, IsHeader(s, size),
         NEW q \in Starts(s, size), NEW n, n = SizeOf(page, q)
  PROVE  /\ Complete(page, q) /\ n \in Nat \ {0} /\ q \in Nat \ {0} /\ q < s + size
         /\ NextOf(page, q) = Past(q + n)
         /\ q + n \in Types(s, size) \cup {s + size}
         /\ \A r \in Types(s, size) : r < q + n <=> r <= q
<1>1. q \in s .. s + size - 1 /\ q \in Nat \ {0} /\ q < s + size /\ Short(q)
  BY DEF Starts, IsHeader
<1>2. /\ Complete(page, q) /\ n \in Nat \ {0} /\ n < MaxSize /\ Ends(page, q, n)
      /\ NextOf(page, q) = Past(q + n)
  BY <1>1, ShortRead DEF Past
<1>3. /\ \A k \in 0 .. n - 2 : page[q + k] >= Radix
      /\ page[q + n - 1] < Radix
  BY <1>2 DEF Ends
<1>4. /\ s + size - 1 \in DOMAIN page /\ page[s + size - 1] < Radix
      /\ \A k \in DOMAIN page : page[k] \in Nat
  <2>1. ASSUME NEW k \in DOMAIN page PROVE page[k] \in Nat
    <3>1. page[k] \in Byte
      OBVIOUS
    <3>. QED  BY <3>1, ByteNat
  <2>. QED  BY <2>1 DEF IsHeader
<1>5. q + n <= s + size
  <2>. SUFFICES ASSUME ~(q + n <= s + size) PROVE FALSE
    OBVIOUS
  <2>1. PICK k : k = s + size - 1 - q
    OBVIOUS
  <2>2. k \in 0 .. n - 2 /\ q + k = s + size - 1
    BY <1>1, <1>2, <2>1
  <2>. QED  BY <1>3, <1>4, <2>2, RadixAssumption
<1>6. q + n \in Types(s, size) \cup {s + size}
  <2>1. CASE q + n = s + size
    BY <2>1
  <2>2. CASE q + n # s + size
    <3>1. q + n \in s .. s + size - 1 /\ q + n # s
      BY <1>1, <1>2, <1>5, <2>2
    <3>2. page[(q + n) - 1] < Radix
      BY <1>1, <1>2, <1>3
    <3>. QED  BY <3>1, <3>2 DEF Types, Starts
  <2>. QED  BY <2>1, <2>2
<1>7. ASSUME NEW r \in Types(s, size) PROVE r < q + n <=> r <= q
  <2>1. r \in s .. s + size - 1 /\ r # s /\ page[r - 1] < Radix
    BY DEF Types, Starts
  <2>2. r - 1 \in DOMAIN page
    BY <1>4, <2>1
  <2>3. ~(r < q + n /\ r > q)
    <3>. SUFFICES ASSUME r < q + n, r > q PROVE FALSE
      OBVIOUS
    <3>1. PICK k : k = r - 1 - q
      OBVIOUS
    <3>2. k \in 0 .. n - 2 /\ q + k = r - 1
      BY <1>1, <1>2, <2>1, <3>1
    <3>. QED  BY <1>3, <1>4, <2>1, <2>2, <3>2, RadixAssumption
  <2>. QED  BY <1>1, <1>2, <2>1, <2>3
<1>. QED  BY <1>1, <1>2, <1>5, <1>6, <1>7

LEMMA TypesBounded ==
  ASSUME NEW s \in Nat \ {0}, NEW size \in Nat
  PROVE  s + size \in Nat /\ Types(s, size) \in SUBSET (1 .. s + size) /\ \A r \in Types(s, size) : r > s /\ r < s + size
BY DEF Types, Starts

(* What a sound cell is made of. *)
LEMMA SoundCell ==
  ASSUME page \in Seq(Byte), NEW p \in Nat \ {0}, Sound(p)
  PROVE  /\ Short(p) /\ HeaderAt(p) \in Nat \ {0} /\ Short(HeaderAt(p))
         /\ RowidAt(p) \in Nat \ {0} /\ RowidAt(p) = p + SizeOf(page, p)
         /\ type = LeafTable => /\ Short(RowidAt(p))
                                 /\ HeaderAt(p) = RowidAt(p) + SizeOf(page, RowidAt(p))
         /\ type # LeafTable => HeaderAt(p) = RowidAt(p)
         /\ WellFormed(p) => IsHeader(HeaderAt(p), ValueOf(page, HeaderAt(p)))
<1>1. Short(p) /\ Short(HeaderAt(p)) /\ (type = LeafTable => Short(RowidAt(p)))
  BY DEF Sound, WellFormed, EmptyCell
<1>2. SizeOf(page, p) \in Nat \ {0}
  BY <1>1, ShortRead
<1>3. RowidAt(p) \in Nat \ {0} /\ RowidAt(p) = p + SizeOf(page, p)
  BY <1>2 DEF RowidAt
<1>4. type = LeafTable => SizeOf(page, RowidAt(p)) \in Nat \ {0}
  BY <1>1, <1>3, ShortRead
<1>5. HeaderAt(p) = IF type = LeafTable THEN RowidAt(p) + SizeOf(page, RowidAt(p)) ELSE RowidAt(p)
  BY DEF HeaderAt
<1>6. HeaderAt(p) \in Nat \ {0}
  BY <1>3, <1>4, <1>5
<1>7. WellFormed(p) => IsHeader(HeaderAt(p), ValueOf(page, HeaderAt(p)))
  BY DEF WellFormed
<1>. QED  BY <1>1, <1>3, <1>5, <1>6, <1>7

-----------------------------------------------------------------------------
(***************************************************************************)
(* How far the reader is in a sound cell at p, whose record header is at s *)
(* and has size bytes.                                                     *)
(***************************************************************************)
TypesUntil(s, size, q) ==
  /\ dataIt = Past(q)
  /\ Len(formats) = Cardinality(Before(Types(s, size), q))
  /\ \A k \in DOMAIN formats : formats[k] = FormatOf(ValueOf(page, Nth(Types(s, size), k)))

ColumnsUntil(p, s, size) ==
  /\ formats = FormatsIn(s, size)
  /\ Len(columns) <= Len(formats)
  /\ \A k \in DOMAIN columns : columns[k] = ColumnsAt(p)[k]
  /\ dataIt = Plus(page, s, size + SizeUpTo(formats, Len(columns)))

Reading(p, s, size) ==
  /\ pc = "payload" => dataIt = p
  /\ pc = "rowid" => type = LeafTable /\ dataIt = RowidAt(p)
  /\ pc = "size" => dataIt = s
  /\ pc \in {"types", "columns", "present"} => headerSize = size
  /\ pc \in {"types", "columns"} => startPos = s /\ headerSize >= 2
  /\ pc \in {"size", "types", "columns", "present"} /\ type = LeafTable =>
       rowid = ValueOf(page, RowidAt(p))
  /\ pc = "types" => \E q \in Types(s, size) \cup {s + size} : TypesUntil(s, size, q)
  /\ ReadingColumns => ColumnsUntil(p, s, size)

Track ==
  InRecord /\ Sound(CellAt(ci)) =>
    LET p == CellAt(ci)  s == HeaderAt(p) IN Reading(p, s, ValueOf(page, s))

(* The page stays. *)
LEMMA SameHeader ==
  ASSUME UNCHANGED <<page, type>>, NEW s, NEW size
  PROVE  /\ Types(s, size)' = Types(s, size) /\ FormatsIn(s, size)' = FormatsIn(s, size)
         /\ IsHeader(s, size)' <=> IsHeader(s, size)
<1>1. Starts(s, size)' = Starts(s, size)
  BY DEF Starts
<1>2. Types(s, size)' = Types(s, size)
  BY <1>1 DEF Types
<1>3. FormatsIn(s, size)' = FormatsIn(s, size)
  BY <1>2 DEF FormatsIn
<1>. QED  BY <1>1, <1>2, <1>3 DEF IsHeader, Short

LEMMA SameCell ==
  ASSUME UNCHANGED <<page, type>>, NEW p
  PROVE  /\ RowidAt(p)' = RowidAt(p) /\ HeaderAt(p)' = HeaderAt(p)
         /\ ColumnsAt(p)' = ColumnsAt(p)
         /\ Sound(p)' <=> Sound(p)
         /\ WellFormed(p)' <=> WellFormed(p)
         /\ EmptyCell(p)' <=> EmptyCell(p)
<1>1. RowidAt(p)' = RowidAt(p)
  BY DEF RowidAt
<1>2. HeaderAt(p)' = HeaderAt(p)
  BY <1>1 DEF HeaderAt
<1>. PICK s : s = HeaderAt(p)
  OBVIOUS
<1>. PICK size : size = ValueOf(page, s)
  OBVIOUS
<1>3. HeaderAt(p)' = s
  BY <1>2
<1>4. ColumnsAt(p)' = ColumnsAt(p)
  BY <1>3, SameHeader DEF ColumnsAt
<1>5. WellFormed(p)' <=> WellFormed(p)
  BY <1>1, <1>3, SameHeader DEF WellFormed, Short
<1>6. EmptyCell(p)' <=> EmptyCell(p)
  BY <1>1, <1>3 DEF EmptyCell, Short
<1>. QED  BY <1>1, <1>2, <1>4, <1>5, <1>6 DEF Sound

-----------------------------------------------------------------------------
(* While a cell is read. *)
LEMMA CellPosition ==
  ASSUME TypeOK, InRecord
  PROVE  CellAt(ci) \in Nat \ {0} /\ ci \in DOMAIN pointers
<1>1. pointers \in Seq(Nat) /\ ci \in DOMAIN pointers
  BY DEF TypeOK
<1>2. pointers[ci] \in Nat
  BY <1>1
<1>. QED  BY <1>1, <1>2 DEF CellAt

(* A step within a cell: it is enough to look at the cell itself.          *)
LEMMA TrackStep ==
  ASSUME TypeOK, Track, InRecord \/ ~InRecord', UNCHANGED <<headerVars, pointers, ci>>,
         ASSUME NEW p \in Nat \ {0}, NEW s \in Nat \ {0}, NEW size, p = CellAt(ci), s = HeaderAt(p),
                size = ValueOf(page, s), Sound(p), InRecord, Reading(p, s, size), InRecord'
         PROVE  Reading(p, s, size)'
  PROVE  Track'
<1>. SUFFICES ASSUME InRecord', Sound(CellAt(ci))'
              PROVE  (LET p == CellAt(ci)  s == HeaderAt(p) IN Reading(p, s, ValueOf(page, s)))'
  BY DEF Track
<1>. PICK p : p = CellAt(ci)
  OBVIOUS
<1>1. UNCHANGED <<page, type>> /\ p = CellAt(ci)' /\ p \in Nat \ {0} /\ InRecord
  BY CellPosition DEF headerVars, CellAt
<1>. PICK s : s = HeaderAt(p)
  OBVIOUS
<1>. PICK size : size = ValueOf(page, s)
  OBVIOUS
<1>2. Sound(p) /\ s = HeaderAt(p)' /\ size = ValueOf(page, s)'
  BY <1>1, SameCell
<1>3. Reading(p, s, size)
  BY <1>1, <1>2 DEF Track
<1>4. s \in Nat \ {0}
  BY <1>1, <1>2, SoundCell DEF TypeOK
<1>5. Reading(p, s, size)'
  BY <1>1, <1>2, <1>3, <1>4
<1>. QED  BY <1>1, <1>2, <1>5

LEMMA PayloadTracked ==
  ASSUME TypeOK, ReadPayloadSize, NEW p \in Nat \ {0}, NEW s \in Nat \ {0}, NEW size,
         s = HeaderAt(p), Sound(p), Reading(p, s, size)
  PROVE  Reading(p, s, size)'
<1>1. /\ pc = "payload" /\ pc' = IF type = LeafTable THEN "rowid" ELSE "size"
      /\ dataIt' = NextOf(page, dataIt) /\ UNCHANGED <<page, type>>
  BY DEF ReadPayloadSize, Advance, headerVars
<1>2. dataIt = p
  BY <1>1 DEF Reading
<1>3. RowidAt(p)' = RowidAt(p)
  BY <1>1, SameCell
<1>4. Short(RowidAt(p)) /\ RowidAt(p) = p + SizeOf(page, p) /\ RowidAt(p) \in Nat \ {0} /\ Short(p)
      /\ page \in Seq(Byte) /\ (type # LeafTable => s = RowidAt(p))
  BY SoundCell DEF TypeOK
<1>5. dataIt' = RowidAt(p)
  BY <1>1, <1>2, <1>4, ShortRead
<1>6. rowid' = rowid
  BY DEF ReadPayloadSize, readerVars
<1>. QED  BY <1>1, <1>3, <1>4, <1>5 DEF Reading, ReadingColumns

LEMMA RowidTracked ==
  ASSUME TypeOK, ReadRowid, NEW p \in Nat \ {0}, NEW s \in Nat \ {0}, NEW size,
         s = HeaderAt(p), Sound(p), Reading(p, s, size)
  PROVE  Reading(p, s, size)'
<1>1. /\ pc = "rowid" /\ pc' = "size" /\ dataIt' = NextOf(page, dataIt)
      /\ rowid' = ValueOf(page, dataIt) /\ UNCHANGED <<page, type>>
  BY DEF ReadRowid, Advance, headerVars, Decoded
<1>2. dataIt = RowidAt(p) /\ type = LeafTable
  BY <1>1 DEF Reading
<1>3. RowidAt(p)' = RowidAt(p)
  BY <1>1, SameCell
<1>4. Short(RowidAt(p)) /\ RowidAt(p) \in Nat \ {0} /\ s = RowidAt(p) + SizeOf(page, RowidAt(p))
      /\ page \in Seq(Byte) /\ Short(s)
  BY <1>2, SoundCell DEF TypeOK
<1>5. dataIt' = s
  BY <1>1, <1>2, <1>4, ShortRead
<1>. QED  BY <1>1, <1>2, <1>3, <1>5 DEF Reading, ReadingColumns

(* Behind the header's size the types start. *)
LEMMA HeaderSizeTracked ==
  ASSUME TypeOK, ReadHeaderSize, NEW p \in Nat \ {0}, NEW s \in Nat \ {0}, NEW size,
         s = HeaderAt(p), size = ValueOf(page, s), Sound(p), Reading(p, s, size)
  PROVE  Reading(p, s, size)'
<1>1. /\ pc = "size" /\ pc' = IF headerSize' < 2 THEN "present" ELSE "types"
      /\ dataIt' = NextOf(page, dataIt) /\ startPos' = dataIt /\ headerSize' = ValueOf(page, dataIt)
      /\ formats' = <<>> /\ UNCHANGED <<page, type, rowid>> /\ headerSize' \in Nat
  BY DecodedNat DEF ReadHeaderSize, Advance, headerVars, readerVars, Decoded
<1>2. dataIt = s /\ headerSize' = size /\ size \in Nat
  BY <1>1 DEF Reading
<1>3. RowidAt(p)' = RowidAt(p)
  BY <1>1, SameCell
<1>4. page \in Seq(Byte) /\ Short(s)
  BY SoundCell DEF TypeOK
<1>5. CASE size < 2
  <2>1. pc' = "present" /\ ~(headerSize' >= 2)
    BY <1>1, <1>2, <1>5
  <2>. QED  BY <1>1, <1>2, <1>3, <2>1 DEF Reading, ReadingColumns
<1>6. CASE ~(size < 2)
  <2>1. pc' = "types" /\ headerSize' >= 2
    BY <1>1, <1>2, <1>6
  <2>2. IsHeader(s, size)
    <3>1. WellFormed(p)
      BY <1>6 DEF Sound, EmptyCell
    <3>. QED  BY <3>1, <1>4, SoundCell
  <2>3. s \in Starts(s, size)
    BY <1>2, <1>6 DEF Starts
  <2>. PICK q : q = s + SizeOf(page, s)
    OBVIOUS
  <2>4. /\ q \in Types(s, size) \cup {s + size}
        /\ \A r \in Types(s, size) : r < q <=> r <= s
        /\ NextOf(page, s) = Past(q)
    BY <1>2, <1>4, <2>2, <2>3, NextStart
  <2>5. Before(Types(s, size), q) = {}
    <3>1. ASSUME NEW r \in Types(s, size) PROVE ~(r < q)
      <4>1. r > s /\ r \in Nat
        BY <1>2, TypesBounded
      <4>. QED  BY <2>4, <4>1
    <3>. QED  BY <3>1 DEF Before
  <2>6. TypesUntil(s, size, q)'
    <3>1. Types(s, size)' = Types(s, size)
      BY <1>1, SameHeader
    <3>2. dataIt' = Past(q)'
      BY <1>1, <1>2, <2>4 DEF Past
    <3>3. Len(formats') = Cardinality(Before(Types(s, size), q)) /\ DOMAIN formats' = {}
      BY <1>1, <2>5, FS_EmptySet
    <3>. QED  BY <3>1, <3>2, <3>3 DEF TypesUntil
  <2>7. q \in Types(s, size)' \cup {s + size}
    BY <1>1, <2>4, SameHeader
  <2>. QED  BY <1>1, <1>2, <1>3, <2>1, <2>6, <2>7 DEF Reading, ReadingColumns
<1>. QED  BY <1>5, <1>6

(* The loop over the types goes on just as long as there are types. *)
LEMMA WhileTypes ==
  ASSUME TypeOK, pc = "types", NEW s \in Nat \ {0}, NEW size \in Nat, size >= 2, IsHeader(s, size),
         startPos = s, headerSize = size, NEW q \in Types(s, size) \cup {s + size}, dataIt = Past(q)
  PROVE  /\ HeaderGoesOn <=> q \in Types(s, size)
         /\ q \in Types(s, size) => dataIt = q
<1>1. page \in Seq(Byte) /\ Len(page) \in Nat /\ s + size - 1 <= Len(page)
  BY DEF TypeOK, IsHeader
<1>2. CASE q \in Types(s, size)
  <2>1. q > s /\ q < s + size /\ q \in Nat
    BY <1>2, TypesBounded
  <2>2. dataIt = q
    BY <1>1, <2>1 DEF Past
  <2>3. Distance(page, startPos, dataIt) = q - s
    BY <2>1, <2>2 DEF Distance, Null
  <2>. QED  BY <1>2, <2>1, <2>2, <2>3 DEF HeaderGoesOn
<1>3. CASE q \notin Types(s, size)
  <2>1. q = s + size
    BY <1>3
  <2>2. Distance(page, startPos, dataIt) >= size
    <3>1. CASE q <= Len(page)
      <4>1. dataIt = q /\ q # Null /\ q # s
        BY <2>1, <3>1 DEF Past, Null
      <4>. QED  BY <2>1, <4>1 DEF Distance
    <3>2. CASE ~(q <= Len(page))
      <4>1. dataIt = Null /\ s # Null /\ Len(page) = s + size - 1
        BY <1>1, <2>1, <3>2 DEF Past, Null
      <4>. QED  BY <4>1 DEF Distance
    <3>. QED  BY <3>1, <3>2
  <2>3. Distance(page, startPos, dataIt) \in Nat
    BY <1>1, <2>1 DEF Distance, Past, Null
  <2>. QED  BY <1>3, <2>2, <2>3 DEF HeaderGoesOn
<1>. QED  BY <1>2, <1>3

(* The header of a sound cell at whose types the reader is. *)
LEMMA TypesHeader ==
  ASSUME TypeOK, pc \in {"types", "columns"}, NEW p \in Nat \ {0}, NEW s \in Nat \ {0}, NEW size,
         s = HeaderAt(p), size = ValueOf(page, s), Sound(p), Reading(p, s, size)
  PROVE  /\ headerSize = size /\ size \in Nat /\ size >= 2 /\ startPos = s
         /\ WellFormed(p) /\ IsHeader(s, size) /\ page \in Seq(Byte)
<1>1. headerSize = size /\ size \in Nat /\ size >= 2 /\ startPos = s
  BY DEF Reading, TypeOK
<1>2. WellFormed(p)
  BY <1>1 DEF Sound, EmptyCell
<1>. QED  BY <1>1, <1>2, SoundCell DEF TypeOK

LEMMA TypeTracked ==
  ASSUME TypeOK, ReadType, NEW p \in Nat \ {0}, NEW s \in Nat \ {0}, NEW size,
         s = HeaderAt(p), size = ValueOf(page, s), Sound(p), Reading(p, s, size)
  PROVE  Reading(p, s, size)'
<1>1. /\ pc = "types" /\ HeaderGoesOn /\ dataIt' = NextOf(page, dataIt)
      /\ formats' = Append(formats, FormatOf(ValueOf(page, dataIt)))
      /\ UNCHANGED <<page, type, pc, startPos, headerSize, rowid>>
  BY DEF ReadType, Advance, headerVars, readerVars, Decoded
<1>2. /\ headerSize = size /\ size \in Nat /\ size >= 2 /\ startPos = s /\ IsHeader(s, size)
      /\ page \in Seq(Byte)
  BY <1>1, TypesHeader
<1>3. PICK q \in Types(s, size) \cup {s + size} : TypesUntil(s, size, q)
  BY <1>1 DEF Reading
<1>. PICK T : T = Types(s, size)
  OBVIOUS
<1>4. q \in T /\ dataIt = q
  <2>1. dataIt = Past(q)
    BY <1>3 DEF TypesUntil
  <2>. QED  BY <1>1, <1>2, <2>1, WhileTypes
<1>5. q \in Starts(s, size)
  BY <1>4 DEF Types
<1>. PICK r : r = q + SizeOf(page, q)
  OBVIOUS
<1>6. /\ r \in T \cup {s + size} /\ NextOf(page, q) = Past(r)
      /\ \A t \in T : t < r <=> t <= q
  BY <1>2, <1>5, NextStart
<1>7. Before(T, r) = UpTo(T, q)
  BY <1>6 DEF Before, UpTo
<1>. PICK n : n = Len(formats)
  OBVIOUS
<1>. PICK last : last = s + size
  OBVIOUS
<1>8. T \in SUBSET (1..last) /\ last \in Nat
  BY <1>2, TypesBounded
<1>9. n = Cardinality(Before(T, q)) /\ \A k \in DOMAIN formats : formats[k] = FormatOf(ValueOf(page, Nth(T, k)))
  BY <1>3 DEF TypesUntil
<1>10. Cardinality(UpTo(T, q)) = n + 1
  <2>1. Cardinality(UpTo(T, q)) = Cardinality(Before(T, q)) + 1
    BY <1>4, <1>8, OneMore, Zenon
  <2>. QED  BY <1>9, <2>1
<1>11. Nth(T, n + 1) = q
  BY <1>4, <1>8, <1>10, NthIs
<1>12. /\ Len(formats') = n + 1
       /\ \A k \in DOMAIN formats' : formats'[k] = FormatOf(ValueOf(page, Nth(T, k)))
  <2>1. formats \in Seq(FormatType) /\ n \in Nat
    BY DEF TypeOK, FormatType
  <2>2. Len(formats') = n + 1 /\ DOMAIN formats' = 1 .. n + 1
    BY <1>1, <2>1
  <2>3. ASSUME NEW k \in 1 .. n + 1 PROVE formats'[k] = FormatOf(ValueOf(page, Nth(T, k)))
    <3>1. CASE k = n + 1
      BY <1>1, <1>4, <1>11, <2>1, <3>1
    <3>2. CASE k # n + 1
      <4>1. k \in DOMAIN formats
        BY <2>1, <3>2
      <4>2. formats'[k] = formats[k]
        BY <1>1, <2>1, <4>1
      <4>. QED  BY <1>9, <4>1, <4>2
    <3>. QED  BY <3>1, <3>2
  <2>. QED  BY <2>2, <2>3
<1>13. T = Types(s, size)'
  BY <1>1, SameHeader
<1>14. TypesUntil(s, size, r)'
  <2>1. dataIt' = Past(r)'
    BY <1>1, <1>4, <1>6 DEF Past
  <2>. QED  BY <1>1, <1>7, <1>10, <1>12, <1>13, <2>1 DEF TypesUntil
<1>15. r \in Types(s, size)' \cup {s + size}
  BY <1>6, <1>13
<1>16. RowidAt(p)' = RowidAt(p)
  BY <1>1, SameCell
<1>. QED  BY <1>1, <1>14, <1>15, <1>16 DEF Reading, ReadingColumns

(* Behind the last type the columns start. *)
LEMMA TypesReadTracked ==
  ASSUME TypeOK, TypesRead, NEW p \in Nat \ {0}, NEW s \in Nat \ {0}, NEW size,
         s = HeaderAt(p), size = ValueOf(page, s), Sound(p), Reading(p, s, size)
  PROVE  Reading(p, s, size)'
<1>1. /\ pc = "types" /\ pc' = "columns" /\ ~HeaderGoesOn /\ columns' = <<>>
      /\ UNCHANGED <<page, type, dataIt, formats, startPos, headerSize, rowid>>
  BY DEF TypesRead, headerVars, recordVars
<1>2. /\ headerSize = size /\ size \in Nat /\ size >= 2 /\ startPos = s /\ IsHeader(s, size)
      /\ page \in Seq(Byte)
  BY <1>1, TypesHeader
<1>3. PICK q \in Types(s, size) \cup {s + size} : TypesUntil(s, size, q)
  BY <1>1 DEF Reading
<1>. PICK T : T = Types(s, size)
  OBVIOUS
<1>4. q = s + size /\ dataIt = Past(q)
  <2>1. dataIt = Past(q)
    BY <1>3 DEF TypesUntil
  <2>2. q \notin T
    BY <1>1, <1>2, <2>1, WhileTypes
  <2>. QED  BY <2>1, <2>2
<1>5. Before(T, q) = T
  BY <1>2, <1>4, TypesBounded DEF Before
<1>6. formats \in Seq(FormatType) /\ Len(formats) = Cardinality(T)
      /\ \A k \in DOMAIN formats : formats[k] = FormatOf(ValueOf(page, Nth(T, k)))
  BY <1>3, <1>5 DEF TypesUntil, TypeOK, FormatType
<1>7. formats = FormatsIn(s, size)
  <2>1. DOMAIN formats = 1 .. Cardinality(T)
    BY <1>6, LenProperties
  <2>2. formats = [k \in 1 .. Cardinality(T) |-> formats[k]]
    BY <1>6, <2>1
  <2>. QED  BY <1>6, <2>1, <2>2 DEF FormatsIn
<1>8. dataIt = Plus(page, s, size + SizeUpTo(formats, 0))
  <2>1. SizeUpTo(formats, 0) = 0
    BY <1>6, SizeStep
  <2>2. s # Null /\ size + 0 = size
    BY <1>2 DEF Null
  <2>. QED  BY <1>2, <1>4, <2>1, <2>2 DEF Plus, Past
<1>9. /\ FormatsIn(s, size)' = FormatsIn(s, size) /\ RowidAt(p)' = RowidAt(p)
  BY <1>1, SameHeader, SameCell
<1>10. ColumnsUntil(p, s, size)'
  <2>1. Len(columns') = 0 /\ DOMAIN columns' = {} /\ Len(formats) \in Nat
    BY <1>1, <1>6
  <2>. QED  BY <1>1, <1>7, <1>8, <1>9, <2>1 DEF ColumnsUntil
<1>. QED  BY <1>1, <1>2, <1>9, <1>10 DEF Reading, ReadingColumns

(* One addition to an iterator and then another is one of both.            *)
LEMMA PlusPlus ==
  ASSUME page \in Seq(Byte), NEW s \in Nat \ {0}, NEW m \in Nat, NEW n \in Nat
  PROVE  Plus(page, Plus(page, s, m), n) = Plus(page, s, m + n)
<1>1. Len(page) \in Nat
  OBVIOUS
<1>. QED  BY <1>1 DEF Plus, Null

LEMMA RoomLeft ==
  ASSUME page \in Seq(Byte), NEW s \in Nat \ {0}, NEW size \in Nat, NEW u \in Nat, NEW more \in Nat,
         NEW all \in Nat, u + more <= all, s + size - 1 + all <= Len(page),
         dataIt = Plus(page, s, size + u)
  PROVE  /\ Plus(page, dataIt, more) = Plus(page, s, size + (u + more))
         /\ more > 0 => Fits(page, dataIt, more)
<1>. PICK last \in Nat : last = Len(page)
  OBVIOUS
<1>1. PICK k \in Nat : k = size + u
  OBVIOUS
<1>2. Plus(page, Plus(page, s, k), more) = Plus(page, s, k + more)
  BY PlusPlus
<1>3. k + more = size + (u + more)
  BY <1>1
<1>4. ASSUME more > 0 PROVE Fits(page, dataIt, more)
  <2>1. s + k + more - 1 <= last /\ ~(s + k > last) /\ s # Null /\ s + k # Null
    BY <1>1, <1>4 DEF Null
  <2>2. dataIt = s + k
    BY <1>1, <2>1 DEF Plus
  <2>. QED  BY <2>1, <2>2 DEF Fits
<1>. QED  BY <1>1, <1>2, <1>3, <1>4

LEMMA NextColumnFits ==
  ASSUME TypeOK, MoreColumns, NEW p, NEW s \in Nat \ {0}, NEW size \in Nat, ColumnsUntil(p, s, size),
         s + size - 1 + SizeUpTo(formats, Len(formats)) <= Len(page)
  PROVE  /\ Format.size \in Nat
         /\ Format.size > 0 => Fits(page, dataIt, Format.size)
         /\ Plus(page, dataIt, Format.size) = Plus(page, s, size + SizeUpTo(formats, Len(columns) + 1))
<1>1. page \in Seq(Byte)
  BY DEF TypeOK
<1>2. dataIt = Plus(page, s, size + SizeUpTo(formats, Len(columns)))
  BY DEF ColumnsUntil
<1>3. formats \in Seq(FormatType) /\ columns \in Seq(Column)
  BY DEF TypeOK, FormatType
<1>. PICK n : n = Len(columns)
  OBVIOUS
<1>. PICK m : m = Len(formats)
  OBVIOUS
<1>4. n \in Nat /\ m \in Nat /\ n + 1 \in 1..m /\ n \in 0..m /\ m \in 0..m /\ n + 1 \in 0..m /\ (n + 1) - 1 = n
  BY <1>3 DEF MoreColumns
<1>5. Format = formats[n + 1] /\ Format \in FormatType
  BY <1>3, <1>4 DEF Format
<1>6. PICK more \in Nat : more = Format.size
  BY <1>5 DEF FormatType
<1>7. PICK u \in Nat : u = SizeUpTo(formats, n)
  BY <1>3, <1>4, SizesGrow
<1>8. SizeUpTo(formats, n + 1) = u + more
  BY <1>3, <1>4, <1>5, <1>6, <1>7, SizeStep
<1>9. PICK all \in Nat : all = SizeUpTo(formats, m)
  BY <1>3, <1>4, SizesGrow
<1>10. u + more <= all
  BY <1>3, <1>4, <1>8, <1>9, SizesGrow
<1>11. s + size - 1 + all <= Len(page)
  BY <1>9
<1>12. dataIt = Plus(page, s, size + u)
  BY <1>2, <1>7
<1>13. /\ Plus(page, dataIt, more) = Plus(page, s, size + (u + more))
       /\ more > 0 => Fits(page, dataIt, more)
  BY <1>1, <1>10, <1>11, <1>12, RoomLeft
<1>. QED  BY <1>6, <1>8, <1>13

(* There is room for every column of a sound cell.                         *)
LEMMA ColumnFits ==
  ASSUME TypeOK, MoreColumns, NEW p \in Nat \ {0}, NEW s \in Nat \ {0}, NEW size,
         s = HeaderAt(p), size = ValueOf(page, s), Sound(p), Reading(p, s, size)
  PROVE  /\ Format.size \in Nat
         /\ Format.size > 0 => Fits(page, dataIt, Format.size)
         /\ Plus(page, dataIt, Format.size) = Plus(page, s, size + SizeUpTo(formats, Len(columns) + 1))
<1>1. size \in Nat /\ WellFormed(p)
  BY TypesHeader DEF MoreColumns
<1>2. ColumnsUntil(p, s, size)
  BY DEF Reading, ReadingColumns, MoreColumns
<1>3. s + size - 1 + SizeUpTo(formats, Len(formats)) <= Len(page)
  BY <1>1, <1>2 DEF WellFormed, ColumnsUntil
<1>. QED  BY <1>1, <1>2, <1>3, NextColumnFits

(* A column is read as the cell has it. *)
LEMMA ColumnTracked ==
  ASSUME TypeOK, EmptyColumn \/ ReadColumn, NEW p \in Nat \ {0}, NEW s \in Nat \ {0}, NEW size,
         s = HeaderAt(p), size = ValueOf(page, s), Sound(p), Reading(p, s, size)
  PROVE  Reading(p, s, size)'
<1>1. MoreColumns /\ pc = "columns" /\ UNCHANGED <<page, type, pc, formats, startPos, headerSize, rowid>>
  BY DEF EmptyColumn, ReadColumn, MoreColumns, headerVars, recordVars
<1>2. /\ headerSize = size /\ size \in Nat /\ page \in Seq(Byte)
  BY <1>1, TypesHeader
<1>3. ColumnsUntil(p, s, size)
  BY <1>1 DEF Reading, ReadingColumns
<1>4. formats \in Seq(FormatType) /\ columns \in Seq(Column) /\ dataIt \in {Null} \cup DOMAIN page
  BY <1>1 DEF TypeOK, FormatType
<1>. PICK n : n = Len(columns)
  OBVIOUS
<1>5. n \in Nat /\ n + 1 \in DOMAIN formats /\ (n + 1) - 1 = n /\ n + 1 <= Len(formats)
  BY <1>1, <1>4 DEF MoreColumns
<1>6. Format.size \in Nat /\ Format = formats[n + 1]
      /\ Plus(page, dataIt, Format.size) = Plus(page, s, size + SizeUpTo(formats, n + 1))
  BY <1>1, ColumnFits DEF Format
<1>. PICK col : col = [type |-> Format.type, at |-> dataIt, data |-> Slice(page, dataIt, Format.size)]
  OBVIOUS
<1>7. columns' = Append(columns, col) /\ dataIt' = Plus(page, dataIt, Format.size)
  <2>1. CASE EmptyColumn
    <3>1. Slice(page, dataIt, 0) = <<>>
      <4>1. dataIt \in Nat
        BY <1>2, <1>4 DEF Null
      <4>. QED  BY <4>1, SubSeqEmpty DEF Slice
    <3>2. Plus(page, dataIt, 0) = dataIt
      BY <1>2, <1>4 DEF Plus, Null
    <3>3. Format.size = 0 /\ columns' = Append(columns, [type |-> Format.type, data |-> <<>>, at |-> dataIt])
          /\ dataIt' = dataIt
      BY <2>1 DEF EmptyColumn
    <3>4. [type |-> Format.type, data |-> <<>>, at |-> dataIt] = [type |-> Format.type, at |-> dataIt, data |-> <<>>]
      OBVIOUS
    <3>. QED  BY <3>1, <3>2, <3>3, <3>4
  <2>2. CASE ReadColumn
    BY <2>2 DEF ReadColumn
  <2>. QED  BY <2>1, <2>2
<1>8. col = ColumnsAt(p)[n + 1]
  <2>1. formats = FormatsIn(s, size) /\ dataIt = Plus(page, s, size + SizeUpTo(formats, n))
    BY <1>3 DEF ColumnsUntil
  <2>. QED  BY <1>5, <1>6, <2>1 DEF ColumnsAt
<1>9. /\ Len(columns') = n + 1
      /\ \A k \in DOMAIN columns' : columns'[k] = ColumnsAt(p)[k]
  <2>1. Len(columns') = n + 1 /\ DOMAIN columns' = 1 .. n + 1
    BY <1>4, <1>7
  <2>2. ASSUME NEW k \in 1 .. n + 1 PROVE columns'[k] = ColumnsAt(p)[k]
    <3>1. CASE k = n + 1
      BY <1>4, <1>7, <1>8, <3>1
    <3>2. CASE k # n + 1
      <4>1. k \in DOMAIN columns
        BY <1>4, <1>5, <3>2
      <4>2. columns'[k] = columns[k]
        BY <1>4, <1>7, <4>1
      <4>. QED  BY <1>3, <4>1, <4>2 DEF ColumnsUntil
    <3>. QED  BY <3>1, <3>2
  <2>. QED  BY <2>1, <2>2
<1>10. /\ FormatsIn(s, size)' = FormatsIn(s, size) /\ ColumnsAt(p)' = ColumnsAt(p) /\ RowidAt(p)' = RowidAt(p)
  BY <1>1, SameHeader, SameCell
<1>11. ColumnsUntil(p, s, size)'
  BY <1>1, <1>3, <1>5, <1>6, <1>7, <1>9, <1>10 DEF ColumnsUntil
<1>. QED  BY <1>1, <1>10, <1>11 DEF Reading, ReadingColumns

LEMMA ColumnsReadTracked ==
  ASSUME TypeOK, ColumnsRead, NEW p \in Nat \ {0}, NEW s \in Nat \ {0}, NEW size,
         s = HeaderAt(p), size = ValueOf(page, s), Sound(p), Reading(p, s, size)
  PROVE  Reading(p, s, size)'
<1>1. /\ pc = "columns" /\ pc' = "present"
      /\ UNCHANGED <<page, type, dataIt, columns, formats, startPos, headerSize, rowid>>
  BY DEF ColumnsRead, headerVars, recordVars, readerVars
<1>2. /\ FormatsIn(s, size)' = FormatsIn(s, size) /\ ColumnsAt(p)' = ColumnsAt(p) /\ RowidAt(p)' = RowidAt(p)
  BY <1>1, SameHeader, SameCell
<1>3. ColumnsUntil(p, s, size)
  BY <1>1 DEF Reading, ReadingColumns
<1>4. ColumnsUntil(p, s, size)'
  BY <1>1, <1>2, <1>3 DEF ColumnsUntil
<1>. QED  BY <1>1, <1>2, <1>4 DEF Reading, ReadingColumns

LEMMA SeekTracked == ASSUME TypeOK, SeekCell PROVE Track'
<1>1. /\ ci \in DOMAIN pointers /\ dataIt' = Plus(page, 1, pointers[ci]) /\ pc' = "payload"
      /\ UNCHANGED <<page, type, pointers, ci>>
  BY DEF SeekCell, headerVars
<1>2. page \in Seq(Byte) /\ pointers \in Seq(Nat) /\ Len(page) \in Nat /\ pointers[ci] \in Nat
  BY <1>1 DEF TypeOK
<1>. SUFFICES ASSUME Sound(CellAt(ci))'
              PROVE  (LET p == CellAt(ci)  s == HeaderAt(p) IN Reading(p, s, ValueOf(page, s)))'
  BY DEF Track
<1>. PICK p : p = CellAt(ci)
  OBVIOUS
<1>3. p = CellAt(ci)' /\ p = pointers[ci] + 1 /\ p \in Nat \ {0}
  BY <1>1, <1>2 DEF CellAt
<1>4. Sound(p)
  BY <1>1, <1>3, SameCell
<1>5. p <= Len(page)
  BY <1>2, <1>3, <1>4, SoundCell, ShortRead
<1>6. dataIt' = p
  BY <1>1, <1>2, <1>3, <1>5 DEF Plus, Null
<1>7. \A s, size : Reading(p, s, size)'
  BY <1>1, <1>6 DEF Reading, ReadingColumns
<1>. QED  BY <1>3, <1>7

LEMMA TrackInit == Init => Track
BY DEF Init, Track, InRecord

LEMMA TrackNext == TypeOK /\ Track /\ [Next]_vars => Track'
<1>. SUFFICES ASSUME TypeOK, Track, [Next]_vars PROVE Track'
  OBVIOUS
<1>1. ASSUME ~InRecord' PROVE Track'
  BY <1>1 DEF Track
<1>2. CASE ReadPage
  BY <1>1, <1>2 DEF ReadPage, ReadHeader, HeaderOverrun, SkipPage, ReadPointer, PointersCutOff,
                    PointersRead, MorePointers, InRecord
<1>3. CASE PageDone \/ Present
  BY <1>1, <1>3 DEF PageDone, Present, InRecord
<1>4. CASE ColumnCutOff \/ OutOfRange \/ Overrun
  BY <1>1, <1>4 DEF ColumnCutOff, OutOfRange, Overrun, InRecord
<1>5. CASE ReadPayloadSize
  <2>1. InRecord /\ UNCHANGED <<headerVars, pointers, ci>>
    BY <1>5 DEF ReadPayloadSize, InRecord
  <2>. QED  BY <1>5, <2>1, TrackStep, PayloadTracked
<1>6. CASE ReadRowid
  <2>1. InRecord /\ UNCHANGED <<headerVars, pointers, ci>>
    BY <1>6 DEF ReadRowid, InRecord
  <2>. QED  BY <1>6, <2>1, TrackStep, RowidTracked
<1>7. CASE ReadHeaderSize
  <2>1. InRecord /\ UNCHANGED <<headerVars, pointers, ci>>
    BY <1>7 DEF ReadHeaderSize, InRecord
  <2>. QED  BY <1>7, <2>1, TrackStep, HeaderSizeTracked
<1>8. CASE ReadType
  <2>1. InRecord /\ UNCHANGED <<headerVars, pointers, ci>>
    BY <1>8 DEF ReadType, InRecord
  <2>. QED  BY <1>8, <2>1, TrackStep, TypeTracked
<1>9. CASE TypesRead
  <2>1. InRecord /\ UNCHANGED <<headerVars, pointers, ci>>
    BY <1>9 DEF TypesRead, InRecord
  <2>. QED  BY <1>9, <2>1, TrackStep, TypesReadTracked
<1>10. CASE EmptyColumn \/ ReadColumn
  <2>1. InRecord /\ UNCHANGED <<headerVars, pointers, ci>>
    BY <1>10 DEF EmptyColumn, ReadColumn, MoreColumns, InRecord
  <2>. QED  BY <1>10, <2>1, TrackStep, ColumnTracked
<1>11. CASE ColumnsRead
  <2>1. InRecord /\ UNCHANGED <<headerVars, pointers, ci>>
    BY <1>11 DEF ColumnsRead, InRecord
  <2>. QED  BY <1>11, <2>1, TrackStep, ColumnsReadTracked
<1>12. CASE UNCHANGED vars
  <2>1. (InRecord \/ ~InRecord') /\ UNCHANGED <<headerVars, pointers, ci>>
    BY <1>12 DEF vars, headerVars, InRecord
  <2>2. ASSUME NEW p, NEW s, NEW size, Reading(p, s, size) PROVE Reading(p, s, size)'
    <3>1. /\ UNCHANGED <<page, type, pc, dataIt, startPos, headerSize, formats, columns, rowid>>
          /\ Types(s, size)' = Types(s, size) /\ FormatsIn(s, size)' = FormatsIn(s, size)
          /\ ColumnsAt(p)' = ColumnsAt(p) /\ RowidAt(p)' = RowidAt(p)
      BY <1>12, SameHeader, SameCell DEF vars
    <3>2. ASSUME NEW q PROVE TypesUntil(s, size, q)' <=> TypesUntil(s, size, q)
      BY <3>1 DEF TypesUntil, Past
    <3>3. ColumnsUntil(p, s, size)' <=> ColumnsUntil(p, s, size)
      BY <3>1 DEF ColumnsUntil
    <3>. QED  BY <2>2, <3>1, <3>2, <3>3 DEF Reading, ReadingColumns
  <2>. QED  BY <2>1, <2>2, TrackStep
<1>. QED  BY <1>2, <1>3, <1>4, <1>5, <1>6, <1>7, <1>8, <1>9, <1>10, <1>11, <1>12, SeekTracked
          DEF Next, ReadRecord, Stopped

LEMMA Tracking == Safe => [](TypeOK /\ PointersInv /\ NumbersInv /\ Track)
BY TypeCorrect, PointersInit, PointersNext, NumbersInit, NumbersNext, TrackInit, TrackNext, PTL DEF Safe

(* At a sound cell every integer is whole and every column there.          *)
LEMMA ReadsOn ==
  ASSUME TypeOK, Track, InRecord, Sound(CellAt(ci))
  PROVE  /\ ReadsVarInt => Complete(page, dataIt)
         /\ MoreColumns /\ Format.size > 0 => Fits(page, dataIt, Format.size)
<1>. PICK p : p = CellAt(ci)
  OBVIOUS
<1>. PICK s : s = HeaderAt(p)
  OBVIOUS
<1>. PICK size : size = ValueOf(page, s)
  OBVIOUS
<1>1. p \in Nat \ {0} /\ page \in Seq(Byte) /\ Sound(p)
  BY CellPosition DEF TypeOK
<1>2. s \in Nat \ {0} /\ Short(p) /\ Short(s) /\ RowidAt(p) \in Nat \ {0}
      /\ (type = LeafTable => Short(RowidAt(p)))
  BY <1>1, SoundCell
<1>3. Reading(p, s, size)
  BY DEF Track
<1>4. CASE pc \in {"payload", "rowid", "size"}
  <2>1. dataIt \in {p, s} \/ (dataIt = RowidAt(p) /\ Short(RowidAt(p)))
    BY <1>2, <1>3, <1>4 DEF Reading
  <2>2. Complete(page, dataIt)
    BY <1>1, <1>2, <2>1, ShortRead
  <2>. QED  BY <1>4, <2>2 DEF MoreColumns
<1>5. CASE pc = "types"
  <2>1. /\ headerSize = size /\ size \in Nat /\ size >= 2 /\ startPos = s /\ IsHeader(s, size)
    BY <1>1, <1>2, <1>3, <1>5, TypesHeader
  <2>2. PICK q \in Types(s, size) \cup {s + size} : dataIt = Past(q)
    BY <1>3, <1>5 DEF Reading, TypesUntil
  <2>3. HeaderGoesOn => q \in Starts(s, size) /\ dataIt = q
    BY <1>2, <1>5, <2>1, <2>2, WhileTypes DEF Types
  <2>4. HeaderGoesOn => Complete(page, dataIt)
    BY <1>1, <1>2, <2>1, <2>3, NextStart
  <2>. QED  BY <1>5, <2>4 DEF ReadsVarInt, MoreColumns
<1>6. CASE pc \in {"columns", "present"}
  <2>1. ~ReadsVarInt
    BY <1>6 DEF ReadsVarInt
  <2>2. MoreColumns => (Format.size > 0 => Fits(page, dataIt, Format.size))
    BY <1>1, <1>2, <1>3, ColumnFits
  <2>. QED  BY <2>1, <2>2
<1>. QED  BY <1>4, <1>5, <1>6 DEF InRecord

(* A step that ends the program in a cell. *)
LEMMA KilledInCell ==
  ASSUME InRecord, UNCHANGED <<headerVars, pointers, ci>>, ~Sound(CellAt(ci))
  PROVE  OnlyCutCellsKill'
<1>. PICK p : p = CellAt(ci)
  OBVIOUS
<1>1. p = CellAt(ci)' /\ UNCHANGED <<page, type>>
  BY DEF CellAt, headerVars
<1>2. ~Sound(p)'
  BY <1>1, SameCell
<1>. QED  BY <1>1, <1>2 DEF OnlyCutCellsKill

LEMMA KillNext ==
  TypeOK /\ PointersInv /\ NumbersInv /\ Track /\ OnlyCutCellsKill /\ [Next]_vars => OnlyCutCellsKill'
<1>. SUFFICES ASSUME TypeOK, PointersInv, NumbersInv, Track, OnlyCutCellsKill, [Next]_vars
              PROVE  OnlyCutCellsKill'
  OBVIOUS
<1>1. ASSUME pc' \notin {"thrown", "aborted"} PROVE OnlyCutCellsKill'
  BY <1>1 DEF OnlyCutCellsKill
<1>2. CASE ColumnCutOff
  <2>1. /\ InRecord /\ UNCHANGED <<headerVars, pointers, ci>>
        /\ MoreColumns /\ Format.size > 0 /\ ~Fits(page, dataIt, Format.size)
    BY <1>2 DEF ColumnCutOff, MoreColumns, InRecord
  <2>. QED  BY <2>1, ReadsOn, KilledInCell
<1>3. CASE OutOfRange \/ Overrun
  <2>1. InRecord /\ UNCHANGED <<headerVars, pointers, ci>> /\ ReadsVarInt /\ ~Complete(page, dataIt)
    BY <1>3 DEF OutOfRange, Overrun, ReadsVarInt, InRecord, Complete
  <2>. QED  BY <2>1, ReadsOn, KilledInCell
<1>4. CASE Present
  <2>1. \A k \in DOMAIN columns : Converts(columns[k])
    <3>1. ASSUME NEW k \in DOMAIN columns PROVE Converts(columns[k])
      <4>1. columns[k].type \in Numbers => Len(columns[k].data) = Sizes[columns[k].type]
        BY DEF NumbersInv, Sized
      <4>2. ASSUME columns[k].type \in Numbers PROVE Sizes[columns[k].type] \in Nat
        BY <4>2 DEF Sizes, SerialTypes, Numbers, String, SixBytesIntBE, EightBytesIntBE, FloatBE
      <4>3. columns[k].type \in Numbers => Len(columns[k].data) >= Sizes[columns[k].type]
        BY <4>1, <4>2
      <4>. QED  BY <4>3 DEF Converts
    <3>. QED  BY <3>1
  <2>. QED  BY <1>1, <1>4, <2>1 DEF Present
<1>5. CASE PointersCutOff
  <2>1. Len(pointers') # cellCount'
    <3>1. Len(pointers) < cellCount /\ UNCHANGED <<pointers, cellCount>>
      BY <1>5 DEF PointersCutOff, MorePointers, headerVars
    <3>2. cellCount \in Nat /\ Len(pointers) \in Nat
      BY DEF TypeOK
    <3>. QED  BY <3>1, <3>2
  <2>. QED  BY <2>1 DEF OnlyCutCellsKill
<1>6. CASE HeaderOverrun
  <2>1. pointers' = <<>>
    BY <1>6 DEF HeaderOverrun, PointersInv
  <2>. QED  BY <2>1 DEF OnlyCutCellsKill
<1>7. CASE ReadHeader \/ SkipPage \/ ReadPointer \/ PointersRead
  BY <1>1, <1>7 DEF ReadHeader, SkipPage, ReadPointer, PointersRead, MorePointers
<1>8. CASE SeekCell \/ PageDone
  BY <1>1, <1>8 DEF SeekCell, PageDone
<1>9. CASE ReadPayloadSize \/ ReadRowid \/ ReadHeaderSize
  BY <1>1, <1>9 DEF ReadPayloadSize, ReadRowid, ReadHeaderSize
<1>10. CASE ReadType \/ TypesRead \/ EmptyColumn \/ ReadColumn \/ ColumnsRead
  BY <1>1, <1>10 DEF ReadType, TypesRead, EmptyColumn, ReadColumn, MoreColumns, ColumnsRead
<1>11. CASE UNCHANGED vars
  <2>. PICK p : p = CellAt(ci)
    OBVIOUS
  <2>1. p = CellAt(ci)' /\ UNCHANGED <<page, type, pc, pointers, cellCount, ci>>
    BY <1>11 DEF CellAt, vars
  <2>2. Sound(p)' <=> Sound(p)
    BY <2>1, SameCell
  <2>. QED  BY <2>1, <2>2 DEF OnlyCutCellsKill
<1>. QED  BY <1>2, <1>3, <1>4, <1>5, <1>6, <1>7, <1>8, <1>9, <1>10, <1>11
          DEF Next, ReadPage, ReadRecord, Stopped

(***************************************************************************)
(* Neither an exception nor an access behind the page's memory ends the    *)
(* program at a cell the file format allows, for any radix, any length of  *)
(* integers and any page, also where the cell ends with the page.          *)
(***************************************************************************)
THEOREM OnlyCutCells == Safe => []OnlyCutCellsKill
<1>1. Init => OnlyCutCellsKill
  BY DEF Init, OnlyCutCellsKill
<1>. QED  BY <1>1, KillNext, Tracking, PTL DEF Safe

-----------------------------------------------------------------------------
(***************************************************************************)
(* CellsOfWalParser: what WalParser says of a cell is what was read.       *)
(***************************************************************************)
LastShown == IF presented = <<>> THEN [columns |-> <<>>, rowid |-> 0] ELSE Last(presented)

(* Between the cells the reader has what it was last presented with; where *)
(* a pointer array is cut off, the page ends before the next pointer.      *)
Kept ==
  /\ pc = "header" => presented = <<>> /\ columns = <<>> /\ rowid = 0
  /\ pc = "rowid" => type = LeafTable
  /\ type # LeafTable => rowid = LastShown.rowid
  /\ (pc \in {"header", "pointers", "cell"} \/ InRecord) /\ ~ReadingColumns => columns = LastShown.columns
  /\ pc = "pointers" /\ dataIt = Null => Len(page) <= HeaderSize + PointerSize * Len(pointers)

LEMMA KeptInit == Init => Kept
BY DEF Init, Kept, LastShown

LEMMA ShownLast ==
  ASSUME TypeOK, Present
  PROVE  /\ presented' # <<>>
         /\ Last(presented)' = [cell |-> ci, columns |-> columns, rowid |-> rowid]
<1>1. presented \in Seq(Presented)
  BY DEF TypeOK, Presented
<1>. PICK n \in Nat : n = Len(presented)
  BY <1>1
<1>2. presented' = Append(presented, [cell |-> ci, columns |-> columns, rowid |-> rowid])
  BY DEF Present
<1>3. Len(presented') = n + 1 /\ presented'[n + 1] = [cell |-> ci, columns |-> columns, rowid |-> rowid]
  BY <1>1, <1>2
<1>. QED  BY <1>2, <1>3 DEF Last

LEMMA PointersFitNext == TypeOK /\ PointersInv /\ Kept /\ [Next]_vars =>
  (pc' = "pointers" /\ dataIt' = Null => Len(page') <= HeaderSize + PointerSize * Len(pointers'))
<1>. SUFFICES ASSUME TypeOK, PointersInv, Kept, [Next]_vars, pc' = "pointers", dataIt' = Null
              PROVE  Len(page') <= HeaderSize + PointerSize * Len(pointers')
  OBVIOUS
<1>1. page \in Seq(Byte) /\ Len(page) \in Nat /\ pointers \in Seq(Nat) /\ Len(pointers) \in Nat
  BY DEF TypeOK
<1>2. CASE ReadHeader
  <2>1. dataIt = 1 /\ pointers' = <<>> /\ page' = page /\ dataIt' = Plus(page, dataIt, HeaderSize)
    BY <1>2 DEF ReadHeader, PointersInv
  <2>2. 1 + HeaderSize > Len(page)
    BY <1>1, <2>1 DEF Plus, Null, HeaderSize
  <2>. QED  BY <1>1, <2>1, <2>2 DEF HeaderSize, PointerSize
<1>3. CASE ReadPointer
  <2>1. /\ page' = page /\ dataIt' = Plus(page, dataIt, PointerSize) /\ dataIt # Null
        /\ dataIt = HeaderSize + PointerSize * Len(pointers) + 1 /\ Len(pointers') = Len(pointers) + 1
    BY <1>1, <1>3 DEF ReadPointer, MorePointers, PointersInv, Fits, headerVars
  <2>2. dataIt + PointerSize > Len(page)
    BY <1>1, <2>1 DEF Plus, Null, HeaderSize, PointerSize
  <2>. QED  BY <1>1, <2>1, <2>2 DEF HeaderSize, PointerSize
<1>4. CASE UNCHANGED vars
  BY <1>4 DEF vars, Kept
<1>5. CASE HeaderOverrun \/ SkipPage \/ PointersCutOff \/ PointersRead \/ SeekCell \/ PageDone \/ Present
  BY <1>5 DEF HeaderOverrun, SkipPage, PointersCutOff, PointersRead, MorePointers, SeekCell, PageDone, Present
<1>6. CASE ReadRecord
  BY <1>6 DEF ReadRecord, ReadPayloadSize, ReadRowid, ReadHeaderSize, ReadType, TypesRead, EmptyColumn,
              ReadColumn, ColumnCutOff, ColumnsRead, MoreColumns, OutOfRange, Overrun, ReadsVarInt
<1>. QED  BY <1>2, <1>3, <1>4, <1>5, <1>6 DEF Next, ReadPage, Stopped

LEMMA KeptNext == TypeOK /\ PointersInv /\ ColumnsInv /\ Kept /\ [Next]_vars => Kept'
<1>. SUFFICES ASSUME TypeOK, PointersInv, ColumnsInv, Kept, [Next]_vars PROVE Kept'
  OBVIOUS
<1>. DEFINE Fit == pc = "pointers" /\ dataIt = Null => Len(page) <= HeaderSize + PointerSize * Len(pointers)
<1>1. Fit'
  BY PointersFitNext
<1>. HIDE DEF Fit
<1>. USE DEF headerVars, recordVars, readerVars, ReadingColumns, InRecord
<1>2. CASE Present
  <2>1. LastShown' = [cell |-> ci, columns |-> columns, rowid |-> rowid]
    BY <1>2, ShownLast DEF LastShown
  <2>2. LastShown'.columns = columns /\ LastShown'.rowid = rowid
    BY <2>1
  <2>. QED  BY <1>1, <1>2, <2>2 DEF Present, Kept, Fit
<1>3. ASSUME UNCHANGED presented PROVE LastShown' = LastShown
  BY <1>3 DEF LastShown
<1>4. CASE ReadHeader
  BY <1>1, <1>3, <1>4 DEF ReadHeader, Kept, Fit, LastShown
<1>5. CASE ReadPointer \/ PointersRead \/ SeekCell
  BY <1>1, <1>3, <1>5 DEF ReadPointer, PointersRead, SeekCell, MorePointers, Kept, Fit
<1>6. CASE HeaderOverrun \/ SkipPage \/ PointersCutOff \/ PageDone
  BY <1>1, <1>3, <1>6 DEF HeaderOverrun, SkipPage, PointersCutOff, PageDone, MorePointers, Kept, Fit
<1>7. CASE ReadPayloadSize \/ ReadRowid
  BY <1>1, <1>3, <1>7 DEF ReadPayloadSize, ReadRowid, Kept, Fit
<1>8. CASE ReadHeaderSize
  <2>1. headerSize' \in Nat /\ (headerSize' < 2 => ~(headerSize' >= 2))
    BY <1>8, DecodedNat DEF ReadHeaderSize
  <2>. QED  BY <1>1, <1>3, <1>8, <2>1 DEF ReadHeaderSize, Kept, Fit
<1>9. CASE ReadType \/ TypesRead
  BY <1>1, <1>3, <1>9 DEF ReadType, TypesRead, Kept, Fit
<1>10. CASE EmptyColumn \/ ReadColumn
  BY <1>1, <1>3, <1>10 DEF EmptyColumn, ReadColumn, MoreColumns, Kept, Fit
<1>11. CASE ColumnsRead
  <2>1. headerSize >= 2
    BY <1>11 DEF ColumnsRead, ColumnsInv
  <2>. QED  BY <1>1, <1>3, <1>11, <2>1 DEF ColumnsRead, Kept, Fit
<1>12. CASE ColumnCutOff \/ OutOfRange \/ Overrun
  BY <1>1, <1>3, <1>12 DEF ColumnCutOff, OutOfRange, Overrun, MoreColumns, Kept, Fit
<1>13. CASE UNCHANGED vars
  BY <1>1, <1>3, <1>13 DEF vars, Kept, Fit
<1>. QED  BY <1>2, <1>4, <1>5, <1>6, <1>7, <1>8, <1>9, <1>10, <1>11, <1>12, <1>13
          DEF Next, ReadPage, ReadRecord, Stopped

LEMMA AlwaysKept == Safe => [](TypeOK /\ PointersInv /\ Track /\ ColumnsInv /\ Kept)
BY Tracking, ColumnsInvariant, KeptInit, KeptNext, PTL DEF Safe

LEMMA SameNodes == NodeSkipped <=> W!NodeSkipped(Node)
BY DEF NodeSkipped, W!NodeSkipped, Node, Interior, LeafTable, LeafIndex

LEMMA WholeArray ==
  ASSUME TypeOK, PointersInv, Kept
  PROVE  /\ PointersRead => W!Page.pointersFit
         /\ PointersCutOff => ~W!Page.pointersFit
<1>1. W!Page.pointersFit <=> cellCount = 0 \/ HeaderSize + PointerSize * cellCount <= Len(page)
  BY DEF W!Page, W!Frame, PageOf
<1>2. page \in Seq(Byte) /\ Len(page) \in Nat /\ cellCount \in Nat /\ pointers \in Seq(Nat)
      /\ Len(pointers) \in Nat
  BY DEF TypeOK
<1>3. ASSUME PointersRead, cellCount # 0 PROVE HeaderSize + PointerSize * cellCount <= Len(page)
  <2>1. cellCount \in DOMAIN pointers
    BY <1>2, <1>3 DEF PointersRead
  <2>2. PointerAt(cellCount)
    BY <2>1 DEF PointersInv
  <2>. QED  BY <1>2, <2>2 DEF PointerAt, HeaderSize, PointerSize
<1>4. ASSUME PointersCutOff
      PROVE  cellCount # 0 /\ ~(HeaderSize + PointerSize * cellCount <= Len(page))
  <2>1. /\ pc = "pointers" /\ Len(pointers) < cellCount
        /\ dataIt = Null \/ dataIt + 1 > Len(page)
    BY <1>2, <1>4 DEF PointersCutOff, MorePointers, Fits, PointerSize, TypeOK, InRecord, Null
  <2>2. dataIt \in {Null, HeaderSize + PointerSize * Len(pointers) + 1}
    BY <2>1 DEF PointersInv
  <2>3. HeaderSize + PointerSize * Len(pointers) + 2 > Len(page)
    <3>1. CASE dataIt = Null
      BY <1>2, <2>1, <3>1 DEF Kept, HeaderSize, PointerSize
    <3>2. CASE dataIt # Null
      BY <1>2, <2>1, <2>2, <3>2 DEF HeaderSize, PointerSize
    <3>. QED  BY <3>1, <3>2
  <2>. QED  BY <1>2, <2>1, <2>3 DEF HeaderSize, PointerSize
<1>. QED  BY <1>1, <1>3, <1>4

(* What WalParser makes of a cell. *)
LEMMA ReadIntoIs ==
  ASSUME ci \in DOMAIN pointers
  PROVE  LET cell == CellOf(CellAt(ci))
             id   == IF type = LeafTable THEN cell.rowid ELSE Reader.rowid
         IN  W!ReadInto = IF cell.res = "empty" THEN [Reader EXCEPT !.rowid = id]
                          ELSE [cols |-> cell.cols, rowid |-> id, data |-> cell.data]
<1>1. W!Cell = CellOf(CellAt(ci))
  BY DEF W!Cell, W!Page, W!Frame, PageOf
<1>2. W!Page.node = "leafTable" <=> type = LeafTable
  BY DEF W!Page, W!Frame, PageOf, Node, Interior, LeafTable, LeafIndex
<1>. QED  BY <1>1, <1>2 DEF W!ReadInto, W!RowidRead

LEMMA ReaderIs == Reader = RecordOf(LastShown.columns, LastShown.rowid)
BY DEF Reader, LastShown

LEMMA WellFormedIs ==
  ASSUME NEW p, WellFormed(p)
  PROVE  CellOf(p) = [res |-> "row", cols |-> TypesOf(ColumnsAt(p)), rowid |-> Rowid(p), data |-> DataOf(ColumnsAt(p))]
BY DEF CellOf, Cell

LEMMA EmptyIs ==
  ASSUME NEW p, ~WellFormed(p), EmptyCell(p)
  PROVE  CellOf(p).res = "empty" /\ CellOf(p).rowid = Rowid(p)
BY DEF CellOf, Cell

(* The columns of a well formed cell have been read, all of them.          *)
LEMMA AllColumnsRead ==
  ASSUME TypeOK, ColumnsInv, pc = "present", headerSize >= 2, NEW p, NEW s, NEW size,
         s = HeaderAt(p), size = ValueOf(page, s), ColumnsUntil(p, s, size)
  PROVE  columns = ColumnsAt(p)
<1>. PICK cols : cols = ColumnsAt(p)
  OBVIOUS
<1>. PICK fs : fs = FormatsIn(s, size)
  OBVIOUS
<1>1. cols = [k \in DOMAIN fs |-> cols[k]]
  <2>. DEFINE at(k) == Plus(page, s, size + SizeUpTo(fs, k - 1))
              g == [k \in DOMAIN fs |->
                     [type |-> fs[k].type, at |-> at(k), data |-> Slice(page, at(k), fs[k].size)]]
  <2>1. cols = g
    BY DEF ColumnsAt
  <2>2. g = [k \in DOMAIN fs |-> g[k]]
    OBVIOUS
  <2>. QED  BY <2>1, <2>2
<1>2. fs = formats /\ Len(columns) = Len(formats) /\ \A k \in DOMAIN columns : columns[k] = cols[k]
  BY DEF ColumnsUntil, ColumnsInv, ReadingColumns
<1>3. formats \in Seq(FormatType) /\ columns \in Seq(Column)
  BY DEF TypeOK, FormatType
<1>4. DOMAIN columns = DOMAIN fs
  BY <1>2, <1>3, LenProperties
<1>5. columns = [k \in DOMAIN columns |-> columns[k]]
  BY <1>3
<1>. QED  BY <1>1, <1>2, <1>4, <1>5

LEMMA PresentsCell ==
  ASSUME TypeOK, Track, ColumnsInv, Kept, Present, Sound(CellAt(ci))
  PROVE  Reader' = W!ReadInto
<1>. PICK p : p = CellAt(ci)
  OBVIOUS
<1>. PICK s : s = HeaderAt(p)
  OBVIOUS
<1>. PICK size : size = ValueOf(page, s)
  OBVIOUS
<1>1. InRecord /\ pc = "present" /\ ci \in DOMAIN pointers
  BY DEF Present, TypeOK, InRecord
<1>2. Reader' = RecordOf(columns, rowid)
  BY ShownLast DEF Reader
<1>3. Reading(p, s, size) /\ headerSize = size /\ size \in Nat
  BY <1>1 DEF Track, Reading, TypeOK
<1>4. type = LeafTable => rowid = Rowid(p)
  BY <1>1, <1>3 DEF Reading, Rowid
<1>5. type # LeafTable => rowid = Reader.rowid
  BY ReaderIs DEF Kept, RecordOf
<1>. PICK cell : cell = CellOf(p)
  OBVIOUS
<1>. PICK id : id = IF type = LeafTable THEN cell.rowid ELSE Reader.rowid
  OBVIOUS
<1>6. W!ReadInto = IF cell.res = "empty" THEN [Reader EXCEPT !.rowid = id]
                   ELSE [cols |-> cell.cols, rowid |-> id, data |-> cell.data]
  BY <1>1, ReadIntoIs
<1>7. CASE WellFormed(p)
  <2>1. size >= 2
    BY <1>7 DEF WellFormed, IsHeader
  <2>2. columns = ColumnsAt(p)
    BY <1>1, <1>3, <2>1, AllColumnsRead DEF Reading, ReadingColumns
  <2>3. cell = [res |-> "row", cols |-> TypesOf(columns), rowid |-> Rowid(p), data |-> DataOf(columns)]
    BY <1>7, <2>2, WellFormedIs
  <2>4. id = rowid
    BY <1>4, <1>5, <2>3
  <2>. QED  BY <1>2, <1>6, <2>3, <2>4 DEF RecordOf
<1>8. CASE ~WellFormed(p)
  <2>1. EmptyCell(p) /\ size < 2
    BY <1>8 DEF Sound, EmptyCell
  <2>2. ~ReadingColumns
    BY <1>1, <1>3, <2>1 DEF ReadingColumns
  <2>3. columns = LastShown.columns
    BY <1>1, <2>2 DEF Kept
  <2>4. cell.res = "empty" /\ cell.rowid = Rowid(p)
    BY <1>8, <2>1, EmptyIs
  <2>5. id = rowid
    BY <1>4, <1>5, <2>4
  <2>6. Reader = [cols |-> TypesOf(columns), rowid |-> LastShown.rowid, data |-> DataOf(columns)]
    BY <2>3, ReaderIs DEF RecordOf
  <2>. QED  BY <1>2, <1>6, <2>4, <2>5, <2>6 DEF RecordOf
<1>. QED  BY <1>7, <1>8

(***************************************************************************)
(* Of the bytes of any page, for any radix and any length of integers,     *)
(* main makes what WalParser takes as given: the pages it goes into, those *)
(* whose pointers end the program, and of every cell the file format       *)
(* allows the record the formatter gets.                                   *)
(***************************************************************************)
THEOREM CellsAreOfWalParser == Safe => CellsOfWalParser
<1>1. TypeOK /\ PointersInv /\ Track /\ ColumnsInv /\ Kept =>
        [/\ SkipPage => W!NodeSkipped(Node)
         /\ PointersRead => ~W!NodeSkipped(Node) /\ W!Page.pointersFit
         /\ PointersCutOff => ~W!NodeSkipped(Node) /\ ~W!Page.pointersFit
         /\ Present /\ Sound(CellAt(ci)) => Reader' = W!ReadInto]_vars
  <2>. SUFFICES ASSUME TypeOK, PointersInv, Track, ColumnsInv, Kept
                PROVE  /\ SkipPage => W!NodeSkipped(Node)
                       /\ PointersRead => ~W!NodeSkipped(Node) /\ W!Page.pointersFit
                       /\ PointersCutOff => ~W!NodeSkipped(Node) /\ ~W!Page.pointersFit
                       /\ Present /\ Sound(CellAt(ci)) => Reader' = W!ReadInto
    OBVIOUS
  <2>1. /\ SkipPage => NodeSkipped
        /\ PointersRead => ~NodeSkipped
        /\ PointersCutOff => ~NodeSkipped
    BY DEF SkipPage, PointersRead, PointersCutOff, MorePointers
  <2>2. Present /\ Sound(CellAt(ci)) => Reader' = W!ReadInto
    BY PresentsCell
  <2>. QED  BY <2>1, <2>2, SameNodes, WholeArray
<1>. QED  BY <1>1, AlwaysKept, PTL DEF CellsOfWalParser

-----------------------------------------------------------------------------
(***************************************************************************)
(* PagePresented: from the single cells to the page.  Chained counts the   *)
(* cells and carries WalParser's account of them from one to the next.     *)
(***************************************************************************)
Shown(k) == RecordOf(presented[k].columns, presented[k].rowid)

Chained ==
  /\ pc \in {"header", "pointers"} => presented = <<>> /\ ci = 1
  /\ pc = "cell" \/ InRecord => Len(presented) = ci - 1
  /\ pc = "cell" => ci <= Len(pointers) + 1
  /\ pc = "done" => NodeSkipped \/ Len(presented) = Len(pointers)
  /\ \A k \in DOMAIN presented :
       /\ presented[k].cell = k
       /\ AllSound(k) => Shown(k) = W!Presented(PageOf, k)

(* The record after cell n of a page, and cell n + 1. *)
AfterCells(pg, n) == IF n = 0 THEN W!NewReader ELSE W!Presented(pg, n)

LEMMA AfterEmpty ==
  ASSUME NEW pg, NEW n \in Nat, pg.cells[n + 1].res = "empty"
  PROVE  W!Presented(pg, n + 1) = [AfterCells(pg, n) EXCEPT !.rowid = W!RowidOf(pg, n + 1)]
<1>. PICK T : T = W!RowsUpTo(pg, n)
  OBVIOUS
<1>1. W!RowsUpTo(pg, n + 1) = T
  BY DEF W!RowsUpTo
<1>2. n = 0 => T = {}
  BY DEF W!RowsUpTo
<1>. PICK d : d = CHOOSE e \in T : \A b \in T : b <= e
  OBVIOUS
<1>. PICK id : id = W!RowidOf(pg, n + 1)
  OBVIOUS
<1>3. CASE T = {}
  <2>1. W!Presented(pg, n + 1) = [cols |-> <<>>, rowid |-> id, data |-> <<>>]
    BY <1>1, <1>3 DEF W!Presented, W!NewReader
  <2>2. \E i : AfterCells(pg, n) = [cols |-> <<>>, rowid |-> i, data |-> <<>>]
    BY <1>3 DEF AfterCells, W!Presented, W!NewReader
  <2>. QED  BY <2>1, <2>2
<1>4. CASE T # {}
  <2>. PICK cell : cell = pg.cells[d]
    OBVIOUS
  <2>1. W!Presented(pg, n + 1) = [cols |-> cell.cols, rowid |-> id, data |-> cell.data]
    BY <1>1, <1>4 DEF W!Presented, W!RecordOf
  <2>2. PICK i : AfterCells(pg, n) = [cols |-> cell.cols, rowid |-> i, data |-> cell.data]
    BY <1>2, <1>4 DEF AfterCells, W!Presented, W!RecordOf
  <2>. PICK rec : rec = AfterCells(pg, n)
    OBVIOUS
  <2>. PICK a, b : a = cell.cols /\ b = cell.data
    OBVIOUS
  <2>3. rec = [cols |-> a, rowid |-> i, data |-> b]
    BY <2>2
  <2>4. [rec EXCEPT !.rowid = id] = [cols |-> a, rowid |-> id, data |-> b]
    BY <2>3
  <2>. QED  BY <2>1, <2>4
<1>. QED  BY <1>3, <1>4

LEMMA AfterRow ==
  ASSUME NEW pg, NEW n \in Nat, pg.cells[n + 1].res = "row"
  PROVE  W!Presented(pg, n + 1) = [cols |-> pg.cells[n + 1].cols, rowid |-> W!RowidOf(pg, n + 1),
                                   data |-> pg.cells[n + 1].data]
<1>. PICK T : T = W!RowsUpTo(pg, n + 1)
  OBVIOUS
<1>1. n + 1 \in T /\ \A b \in T : b \in 1 .. n + 1
  BY DEF W!RowsUpTo
<1>2. (CHOOSE e \in T : \A b \in T : b <= e) = n + 1
  BY <1>1
<1>. QED  BY <1>1, <1>2 DEF W!Presented, W!RecordOf

(* A record of a page of sound cells, from the one before.                 *)
LEMMA ShownNext ==
  ASSUME TypeOK, Track, ColumnsInv, Kept, Chained, Present, AllSound(ci)
  PROVE  Reader' = W!Presented(PageOf, ci)
<1>. PICK pg : pg = PageOf
  OBVIOUS
<1>1. ci \in DOMAIN pointers /\ pointers \in Seq(Nat) /\ ci \in Nat \ {0} /\ InRecord
  BY DEF Present, TypeOK, InRecord
<1>. PICK n \in Nat : ci = n + 1
  <2>1. ci - 1 \in Nat /\ ci = (ci - 1) + 1
    BY <1>1
  <2>. QED  BY <2>1
<1>2. Len(presented) = n /\ presented \in Seq(Presented)
  BY <1>1 DEF Chained, TypeOK, Presented
<1>3. Reader = AfterCells(pg, n)
  <2>1. CASE n = 0
    <3>1. presented = <<>>
      BY <1>2, <2>1
    <3>. QED  BY <2>1, <3>1 DEF Reader, AfterCells, RecordOf, TypesOf, DataOf, W!NewReader
  <2>2. CASE n # 0
    <3>1. n \in DOMAIN presented /\ presented # <<>> /\ n \in 1..n
      BY <1>2, <2>2
    <3>2. AllSound(n)
      BY DEF AllSound
    <3>3. Reader = Shown(n)
      BY <1>2, <3>1 DEF Reader, Shown, Last
    <3>. QED  BY <2>2, <3>1, <3>2, <3>3 DEF Chained, AfterCells
  <2>. QED  BY <2>1, <2>2
<1>4. Sound(CellAt(ci))
  BY <1>1 DEF AllSound
<1>. PICK cell : cell = CellOf(CellAt(ci))
  OBVIOUS
<1>5. pg.cells[ci] = cell /\ (pg.node = "leafTable" <=> type = LeafTable)
  BY <1>1 DEF PageOf, Node, Interior, LeafTable, LeafIndex
<1>6. cell.res \in {"row", "empty"}
  BY <1>4 DEF Sound, CellOf, Cell
<1>7. type # LeafTable => Reader.rowid = 0
  <2>1. CASE n = 0
    BY <1>3, <2>1 DEF AfterCells, W!NewReader
  <2>2. CASE n # 0
    <3>1. type # LeafTable => W!RowidOf(pg, n) = 0
      BY <1>5 DEF W!RowidOf
    <3>2. W!Presented(pg, n).rowid = W!RowidOf(pg, n)
      BY DEF W!Presented, W!NewReader, W!RecordOf
    <3>. QED  BY <1>3, <2>2, <3>1, <3>2 DEF AfterCells
  <2>. QED  BY <2>1, <2>2
<1>. PICK id : id = IF type = LeafTable THEN cell.rowid ELSE Reader.rowid
  OBVIOUS
<1>8. id = W!RowidOf(pg, ci)
  BY <1>5, <1>7 DEF W!RowidOf
<1>9. Reader' = IF cell.res = "empty" THEN [Reader EXCEPT !.rowid = id]
                ELSE [cols |-> cell.cols, rowid |-> id, data |-> cell.data]
  BY <1>1, <1>4, PresentsCell, ReadIntoIs
<1>10. CASE cell.res = "empty"
  <2>1. W!Presented(pg, ci) = [Reader EXCEPT !.rowid = id]
    BY <1>3, <1>5, <1>8, <1>10, AfterEmpty
  <2>. QED  BY <1>9, <1>10, <2>1
<1>11. CASE cell.res = "row"
  <2>1. W!Presented(pg, ci) = [cols |-> cell.cols, rowid |-> id, data |-> cell.data]
    BY <1>5, <1>8, <1>11, AfterRow
  <2>. QED  BY <1>9, <1>11, <2>1
<1>. QED  BY <1>6, <1>10, <1>11

(* The page as WalParser has it stays, once its pointers are read.         *)
LEMMA SamePage ==
  ASSUME UNCHANGED <<page, type, cellCount, pointers>>
  PROVE  /\ PageOf' = PageOf
         /\ \A n : AllSound(n)' <=> AllSound(n)
         /\ \A n : W!Presented(PageOf, n)' = W!Presented(PageOf, n)
<1>. USE DEF CellAt
<1>1. ASSUME NEW p PROVE CellOf(p)' = CellOf(p)
  <2>1. Rowid(p)' = Rowid(p)
    BY SameCell DEF Rowid
  <2>. QED  BY <2>1, SameCell DEF CellOf, Cell, TypesOf, DataOf, TypeOf
<1>2. ASSUME NEW k PROVE /\ CellOf(CellAt(k))' = CellOf(CellAt(k))
                         /\ Sound(CellAt(k))' <=> Sound(CellAt(k))
  <2>. PICK p : p = CellAt(k)
    OBVIOUS
  <2>1. p = CellAt(k)'
    OBVIOUS
  <2>2. CellOf(p)' = CellOf(p) /\ (Sound(p)' <=> Sound(p))
    BY <1>1, SameCell
  <2>. QED  BY <2>1, <2>2
<1>3. [k \in DOMAIN pointers |-> CellOf(CellAt(k))]' = [k \in DOMAIN pointers |-> CellOf(CellAt(k))]
  BY <1>2
<1>4. PageOf' = PageOf
  BY <1>3 DEF PageOf, Node
<1>5. \A n : AllSound(n)' <=> AllSound(n)
  BY <1>2 DEF AllSound
<1>6. ASSUME NEW n PROVE W!Presented(PageOf, n)' = W!Presented(PageOf, n)
  BY <1>4 DEF W!Presented, W!RowsUpTo, W!RecordOf, W!RowidOf, W!NewReader
<1>. QED  BY <1>4, <1>5, <1>6

LEMMA ChainedInit == Init => Chained
BY DEF Init, Chained, InRecord

(* A step that presents nothing. *)
LEMMA ChainedKept ==
  ASSUME Chained, UNCHANGED <<page, type, index, cellCount, pointers, ci, presented>>,
         pc' \in {"header", "pointers"} => pc \in {"header", "pointers"},
         pc' = "cell" \/ InRecord' => pc \in {"cell", "pointers"} \/ InRecord,
         pc' = "cell" => pc \in {"cell", "pointers"},
         pc' = "done" => pc = "done" \/ NodeSkipped \/ Len(presented) = Len(pointers)
  PROVE  Chained'
<1>1. NodeSkipped' <=> NodeSkipped
  BY DEF NodeSkipped
<1>2. \A k \in DOMAIN presented' :
        /\ presented'[k].cell = k
        /\ AllSound(k)' => Shown(k)' = W!Presented(PageOf, k)'
  BY SamePage DEF Chained, Shown, RecordOf, TypesOf, DataOf, TypeOf
<1>. QED  BY <1>1, <1>2 DEF Chained

LEMMA ChainedNext == TypeOK /\ Track /\ ColumnsInv /\ Kept /\ Chained /\ [Next]_vars => Chained'
<1>. SUFFICES ASSUME TypeOK, Track, ColumnsInv, Kept, Chained, [Next]_vars PROVE Chained'
  OBVIOUS
<1>. USE DEF headerVars, recordVars, readerVars
<1>1. CASE ReadHeader \/ ReadPointer
  BY <1>1 DEF ReadHeader, ReadPointer, MorePointers, Chained, InRecord
<1>2. CASE HeaderOverrun \/ SkipPage \/ PointersCutOff \/ PointersRead
  BY <1>2, ChainedKept DEF HeaderOverrun, SkipPage, PointersCutOff, PointersRead, MorePointers, InRecord
<1>3. CASE SeekCell
  BY <1>3, ChainedKept DEF SeekCell, InRecord
<1>4. CASE ReadPayloadSize \/ ReadRowid \/ ReadHeaderSize \/ ReadType
  BY <1>4, ChainedKept DEF ReadPayloadSize, ReadRowid, ReadHeaderSize, ReadType, InRecord
<1>5. CASE TypesRead \/ EmptyColumn \/ ReadColumn \/ ColumnCutOff \/ ColumnsRead
  BY <1>5, ChainedKept DEF TypesRead, EmptyColumn, ReadColumn, ColumnCutOff, ColumnsRead, MoreColumns, InRecord
<1>6. CASE OutOfRange \/ Overrun
  BY <1>6, ChainedKept DEF OutOfRange, Overrun, ReadsVarInt, InRecord
<1>7. CASE PageDone
  <2>1. Len(presented) = ci - 1 /\ ci <= Len(pointers) + 1
    BY <1>7 DEF PageDone, Chained
  <2>2. pointers \in Seq(Nat) /\ ci \in Nat \ {0} /\ ci \notin DOMAIN pointers
    BY <1>7 DEF PageDone, TypeOK
  <2>3. Len(presented) = Len(pointers)
    BY <2>1, <2>2
  <2>. QED  BY <1>7, <2>3, ChainedKept DEF PageDone, InRecord
<1>8. CASE Present
  <2>1. /\ UNCHANGED <<page, type, index, cellCount, pointers>> /\ pc = "present" /\ InRecord
        /\ presented' = Append(presented, [cell |-> ci, columns |-> columns, rowid |-> rowid])
        /\ \/ pc' = "cell" /\ ci' = ci + 1
           \/ pc' = "thrown"
    BY <1>8 DEF Present, InRecord
  <2>2. ci \in DOMAIN pointers /\ pointers \in Seq(Nat) /\ ci \in Nat \ {0} /\ presented \in Seq(Presented)
    BY <2>1 DEF TypeOK, Presented
  <2>3. Len(presented) = ci - 1
    BY <2>1 DEF Chained
  <2>4. /\ Len(presented') = ci /\ DOMAIN presented' = 1..ci
        /\ presented'[ci] = [cell |-> ci, columns |-> columns, rowid |-> rowid]
        /\ \A k \in 1 .. ci - 1 : k \in DOMAIN presented /\ presented'[k] = presented[k]
    BY <2>1, <2>2, <2>3, AppendProperties
  <2>5. ASSUME NEW k \in DOMAIN presented'
        PROVE  presented'[k].cell = k /\ (AllSound(k)' => Shown(k)' = W!Presented(PageOf, k)')
    <3>1. CASE k = ci
      <4>1. Reader' = Shown(k)'
        <5>1. presented' # <<>> /\ Last(presented') = presented'[k]
          BY <2>2, <2>4, <3>1 DEF Last
        <5>. QED  BY <5>1 DEF Reader, Shown
      <4>2. AllSound(k) => Reader' = W!Presented(PageOf, k)
        BY <1>8, <3>1, ShownNext
      <4>. QED  BY <2>1, <2>4, <3>1, <4>1, <4>2, SamePage
    <3>2. CASE k # ci
      <4>1. k \in DOMAIN presented /\ presented'[k] = presented[k]
        BY <2>2, <2>4, <3>2
      <4>2. Shown(k)' = Shown(k)
        BY <4>1 DEF Shown, RecordOf, TypesOf, DataOf, TypeOf
      <4>. QED  BY <2>1, <4>1, <4>2, SamePage DEF Chained
    <3>. QED  BY <3>1, <3>2
  <2>6. pc' = "cell" => ci' - 1 = ci /\ ci' <= Len(pointers') + 1
    BY <2>1, <2>2
  <2>. QED  BY <2>1, <2>4, <2>5, <2>6 DEF Chained, InRecord
<1>9. CASE UNCHANGED vars
  BY <1>9, ChainedKept DEF vars, Chained, InRecord
<1>. QED  BY <1>1, <1>2, <1>3, <1>4, <1>5, <1>6, <1>7, <1>8, <1>9 DEF Next, ReadPage, ReadRecord, Stopped

(***************************************************************************)
(* What main makes of the bytes of a page is what WalParser makes of its   *)
(* cells, for any radix, any length of integers and any page: cell by cell *)
(* in the order of the pointers, through any run of empty cells, up to the *)
(* first cell the file format does not allow.                              *)
(***************************************************************************)
THEOREM PageIsOfWalParser == Safe => []PagePresented
<1>1. TypeOK /\ Chained => PagePresented
  <2>1. Len(PageOf.cells) = Len(pointers) \/ ~TypeOK
    <3>1. ASSUME TypeOK PROVE Len(PageOf.cells) = Len(pointers)
      <4>1. pointers \in Seq(Nat) /\ Len(pointers) \in Nat /\ DOMAIN pointers = 1 .. Len(pointers)
        BY <3>1 DEF TypeOK
      <4>2. PageOf.cells = [k \in 1 .. Len(pointers) |-> CellOf(CellAt(k))]
        BY <4>1 DEF PageOf
      <4>. QED  BY <4>1, <4>2
    <3>. QED  BY <3>1
  <2>. QED  BY <2>1 DEF Chained, PagePresented, Shown
<1>. QED  BY <1>1, AlwaysKept, ChainedInit, ChainedNext, PTL DEF Safe

-----------------------------------------------------------------------------
(***************************************************************************)
(* What PageCells makes of a page is a page of WalParser: the numbers and  *)
(* columns of a cell are there before anything has read them.              *)
(***************************************************************************)
LEMMA PowerNat == \A k \in 0..MaxSize : Power[k] \in Nat
<1>. DEFINE IsPower(f) == f = [k \in 0..MaxSize |-> IF k = 0 THEN 1 ELSE Radix * f[k - 1]]
            step == [x \in (1..MaxSize) \X Nat |-> Radix * x[2]]
<1>1. step \in [(1..MaxSize) \X Nat -> Nat] /\ MaxSize \in Nat /\ 1 \in Nat
  BY RadixAssumption, MaxSizeAssumption
<1>2. \A k \in 1..MaxSize, n \in Nat : step[<<k, n>>] = Radix * n
  OBVIOUS
<1>3. PICK f \in [0..MaxSize -> Nat] : f[0] = 1 /\ \A k \in 1..MaxSize : f[k] = step[<<k, f[k - 1]>>]
  <2>. HIDE DEF step
  <2>1. \E f \in [0..MaxSize -> Nat] : Follows(f, MaxSize, 1, step)
    BY <1>1, BoundedRecursion
  <2>. QED  BY <2>1 DEF Follows
<1>4. ASSUME NEW k \in 0..MaxSize PROVE f[k] = IF k = 0 THEN 1 ELSE Radix * f[k - 1]
  <2>1. k # 0 => k \in 1..MaxSize /\ f[k - 1] \in Nat
    BY <1>1
  <2>2. k # 0 => step[<<k, f[k - 1]>>] = Radix * f[k - 1]
    BY <1>2, <2>1
  <2>3. IF k = 0 THEN f[k] = 1 ELSE f[k] = step[<<k, f[k - 1]>>]
    BY <1>3, <2>1
  <2>. QED  BY <2>2, <2>3
<1>5. IsPower(Power)
  <2>1. IsPower(f)
    BY <1>3, <1>4
  <2>2. Power = CHOOSE g : IsPower(g)
    BY DEF Power
  <2>. HIDE DEF IsPower
  <2>. QED  BY <2>1, <2>2
<1>6. Power[0] = 1 /\ \A k \in 1..MaxSize : Power[k] = Radix * Power[k - 1]
  BY <1>1, <1>5
<1>7. StaysIn(Power, MaxSize, Nat)
  BY <1>6, RadixAssumption DEF StaysIn
<1>. QED  BY <1>1, <1>7, Stays

(* The sum ShortValue takes of an integer in the page. *)
IsSum(p, n, s) == s = [k \in 0..n |-> IF k = 0 THEN 0 ELSE s[k - 1] + (page[p + k - 1] % Radix) * Power[n - k]]

LEMMA SumNat ==
  ASSUME page \in Seq(Byte), NEW p \in Nat \ {0}, NEW n \in 0..MaxSize, p + n - 1 <= Len(page)
  PROVE  ShortValue(page, p, n) \in Nat
<1>. DEFINE term(k) == (page[p + k - 1] % Radix) * Power[n - k]
            step == [x \in (1..n) \X Nat |-> x[2] + term(x[1])]
<1>1. n \in Nat /\ 0 \in Nat
  BY MaxSizeAssumption
<1>2. ASSUME NEW k \in 1..n PROVE term(k) \in Nat
  <2>1. p + k - 1 \in DOMAIN page /\ n - k \in 0..MaxSize
    BY <1>1, MaxSizeAssumption
  <2>2. page[p + k - 1] \in Nat
    BY <2>1, RadixAssumption DEF Byte
  <2>3. PICK d \in Nat : d = page[p + k - 1] % Radix
    BY <2>2, RadixAssumption
  <2>4. PICK w \in Nat : w = Power[n - k]
    BY <2>1, PowerNat
  <2>5. d * w \in Nat
    OBVIOUS
  <2>. QED  BY <2>3, <2>4, <2>5
<1>. HIDE DEF term
<1>3. step \in [(1..n) \X Nat -> Nat]
  BY <1>2
<1>4. \A k \in 1..n, m \in Nat : step[<<k, m>>] = m + term(k)
  OBVIOUS
<1>5. PICK f \in [0..n -> Nat] : f[0] = 0 /\ \A k \in 1..n : f[k] = step[<<k, f[k - 1]>>]
  <2>. HIDE DEF step
  <2>1. \E f \in [0..n -> Nat] : Follows(f, n, 0, step)
    BY <1>1, <1>3, BoundedRecursion
  <2>. QED  BY <2>1 DEF Follows
<1>6. ASSUME NEW k \in 0..n PROVE f[k] = IF k = 0 THEN 0 ELSE f[k - 1] + term(k)
  <2>1. k # 0 => k \in 1..n /\ f[k - 1] \in Nat
    BY <1>1
  <2>2. k # 0 => step[<<k, f[k - 1]>>] = f[k - 1] + term(k)
    BY <1>4, <2>1
  <2>3. IF k = 0 THEN f[k] = 0 ELSE f[k] = step[<<k, f[k - 1]>>]
    BY <1>5, <2>1
  <2>. QED  BY <2>2, <2>3
<1>7. IsSum(p, n, f)
  <2>1. f = [k \in 0..n |-> IF k = 0 THEN 0 ELSE f[k - 1] + term(k)]
    BY <1>5, <1>6
  <2>. QED  BY <2>1 DEF IsSum, term
<1>8. PICK s : IsSum(p, n, s) /\ ShortValue(page, p, n) = s[n]
  <2>1. ShortValue(page, p, n) = (CHOOSE s : IsSum(p, n, s))[n]
    BY DEF ShortValue, IsSum
  <2>2. IsSum(p, n, CHOOSE s : IsSum(p, n, s))
    BY <1>7
  <2>. QED  BY <2>1, <2>2
<1>9. s[0] = 0 /\ \A k \in 1..n : s[k] = s[k - 1] + term(k)
  <2>1. s = [k \in 0..n |-> IF k = 0 THEN 0 ELSE s[k - 1] + term(k)]
    BY <1>8 DEF IsSum, term
  <2>. QED  BY <1>1, <2>1
<1>10. StaysIn(s, n, Nat)
  BY <1>2, <1>9 DEF StaysIn
<1>11. n \in 0..n
  BY <1>1
<1>. QED  BY <1>1, <1>8, <1>10, <1>11, Stays

LEMMA ValueNat ==
  ASSUME page \in Seq(Byte), NEW p \in Nat \ {0}, Short(p)
  PROVE  ValueOf(page, p) \in Nat
<1>. PICK n : n = SizeOf(page, p)
  OBVIOUS
<1>1. n \in Nat \ {0} /\ n < MaxSize /\ p + n - 1 <= Len(page)
  BY ShortRead
<1>2. ValueOf(page, p) = ShortValue(page, p, n)
  BY <1>1 DEF ValueOf
<1>3. n \in 0..MaxSize
  BY <1>1, MaxSizeAssumption
<1>. QED  BY <1>1, <1>2, <1>3, SumNat

(* There is a k-th position for every k up to their number. *)
LEMMA NthExists ==
  ASSUME NEW n \in Nat, NEW T \in SUBSET (1..n), NEW k \in 1 .. Cardinality(T)
  PROVE  Nth(T, k) \in T
<1>. PICK c \in Nat : c = Cardinality(T)
  BY FinitePart
<1>. PICK f : f = [q \in T |-> Cardinality(UpTo(T, q))]
  OBVIOUS
<1>1. ASSUME NEW q \in T PROVE f[q] \in 1..c /\ Nth(T, f[q]) = q
  <2>1. /\ Cardinality(UpTo(T, q)) \in Nat /\ Cardinality(Before(T, q)) \in Nat
        /\ Cardinality(UpTo(T, q)) = Cardinality(Before(T, q)) + 1
    BY FinitePart, OneMore
  <2>2. UpTo(T, q) \in SUBSET T /\ IsFiniteSet(T)
    BY FinitePart DEF UpTo
  <2>3. Cardinality(UpTo(T, q)) <= Cardinality(T)
    BY <2>2, FS_Subset
  <2>4. f[q] = Cardinality(UpTo(T, q)) /\ f[q] \in 1..c
    BY <2>1, <2>3
  <2>5. Nth(T, Cardinality(UpTo(T, q))) = q
    BY NthIs
  <2>. QED  BY <2>4, <2>5
<1>2. f \in [T -> 1..c]
  BY <1>1
<1>3. f \in Injection(T, 1..c)
  <2>1. ASSUME NEW a \in T, NEW b \in T, f[a] = f[b] PROVE a = b
    BY <1>1, <2>1
  <2>. QED  BY <1>2, <2>1 DEF Injection, IsInjective
<1>4. IsFiniteSet(1..c) /\ Cardinality(1..c) = c
  BY FS_Interval
<1>5. f \in Surjection(T, 1..c)
  BY <1>3, <1>4, FS_Injection
<1>6. PICK q \in T : f[q] = k
  BY <1>5 DEF Surjection
<1>. QED  BY <1>1, <1>6

LEMMA FormatsType ==
  ASSUME page \in Seq(Byte), NEW s \in Nat \ {0}, NEW size \in Nat, IsHeader(s, size)
  PROVE  FormatsIn(s, size) \in Seq(FormatType)
<1>. PICK T : T = Types(s, size)
  OBVIOUS
<1>. PICK m \in Nat : m = s + size
  OBVIOUS
<1>1. T \in SUBSET (1..m)
  BY TypesBounded
<1>2. PICK c \in Nat : c = Cardinality(T)
  BY <1>1, FinitePart
<1>3. ASSUME NEW k \in 1..c PROVE FormatOf(ValueOf(page, Nth(T, k))) \in FormatType
  <2>. PICK q : q = Nth(T, k)
    OBVIOUS
  <2>1. q \in T
    BY <1>1, <1>2, NthExists
  <2>2. q \in Nat \ {0} /\ Short(q)
    BY <1>1, <2>1 DEF Types, IsHeader
  <2>. QED  BY <2>2, ValueNat, FormatOfType
<1>4. FormatsIn(s, size) = [k \in 1..c |-> FormatOf(ValueOf(page, Nth(T, k)))]
  BY <1>2 DEF FormatsIn
<1>. QED  BY <1>3, <1>4

LEMMA SliceInPage ==
  ASSUME page \in Seq(Byte), NEW s \in Nat \ {0}, NEW z \in Nat, z >= 2, NEW u \in Nat, NEW more \in Nat,
         NEW all \in Nat, u + more <= all, s + z - 1 + all <= Len(page)
  PROVE  Slice(page, Plus(page, s, z + u), more) \in Seq(Byte)
<1>. PICK n \in Nat : n = Len(page)
  OBVIOUS
<1>. PICK a : a = Plus(page, s, z + u)
  OBVIOUS
<1>1. CASE more = 0
  <2>1. a \in Nat
    BY DEF Plus, Null
  <2>2. a + 0 - 1 < a /\ a \in Int /\ a + 0 - 1 \in Int
    BY <2>1
  <2>. QED  BY <1>1, <2>2, SubSeqEmpty DEF Slice
<1>2. CASE more # 0
  <2>1. s + (z + u) <= n /\ s + (z + u) + more - 1 <= n /\ s + (z + u) \in 1..n
    BY <1>2
  <2>2. a = s + (z + u)
    BY <2>1 DEF Plus, Null
  <2>3. a \in DOMAIN page /\ Fits(page, a, more)
    BY <2>1, <2>2 DEF Fits, Null
  <2>. QED  BY <1>2, <2>3, SliceType
<1>. QED  BY <1>1, <1>2

LEMMA ColumnsType ==
  ASSUME page \in Seq(Byte), NEW p \in Nat \ {0}, WellFormed(p)
  PROVE  /\ TypesOf(ColumnsAt(p)) \in Seq(W!ColumnTypes)
         /\ DataOf(ColumnsAt(p)) \in Seq(Seq(Byte))
<1>. PICK s : s = HeaderAt(p)
  OBVIOUS
<1>. PICK size : size = ValueOf(page, s)
  OBVIOUS
<1>. PICK fs : fs = FormatsIn(s, size)
  OBVIOUS
<1>. PICK n \in Nat : n = Len(page)
  OBVIOUS
<1>1. s \in Nat \ {0} /\ Short(s) /\ IsHeader(s, size)
  BY SoundCell DEF Sound
<1>2. size \in Nat /\ size >= 2
  BY <1>1, ValueNat DEF IsHeader
<1>3. fs \in Seq(FormatType)
  BY <1>1, <1>2, FormatsType
<1>. PICK m \in Nat : m = Len(fs)
  BY <1>3
<1>4. s + size - 1 + SizeUpTo(fs, m) <= n
  BY DEF WellFormed
<1>. DEFINE at(k) == Plus(page, s, size + SizeUpTo(fs, k - 1))
            col(k) == [type |-> fs[k].type, at |-> at(k), data |-> Slice(page, at(k), fs[k].size)]
<1>5. ASSUME NEW k \in 1..m PROVE Slice(page, at(k), fs[k].size) \in Seq(Byte)
  <2>1. fs[k].size \in Nat
    <3>1. fs[k] \in FormatType
      BY <1>3
    <3>. QED  BY <3>1 DEF FormatType
  <2>. PICK more \in Nat : more = fs[k].size
    BY <2>1
  <2>2. m \in 0 .. Len(fs) /\ k - 1 \in 0..m /\ k \in 0..m
    OBVIOUS
  <2>3. SizeUpTo(fs, m) \in Nat /\ \A j \in 0..m : SizeUpTo(fs, j) \in Nat /\ SizeUpTo(fs, j) <= SizeUpTo(fs, m)
    BY <1>3, <2>2, SizesGrow
  <2>. PICK all \in Nat : all = SizeUpTo(fs, m)
    BY <2>3
  <2>. PICK u \in Nat : u = SizeUpTo(fs, k - 1)
    BY <2>2, <2>3
  <2>4. SizeUpTo(fs, k) = u + more
    BY <1>3, SizeStep
  <2>5. u + more <= all
    BY <2>2, <2>3, <2>4
  <2>6. at(k) = Plus(page, s, size + u) /\ s + size - 1 + all <= Len(page)
    BY <1>4
  <2>. HIDE DEF at
  <2>. QED  BY <1>1, <1>2, <2>5, <2>6, SliceInPage, Zenon
<1>6. ColumnsAt(p) = [k \in 1..m |-> col(k)]
  BY <1>3 DEF ColumnsAt
<1>7. \A k \in 1..m : col(k).data \in Seq(Byte)
  BY <1>5
<1>. HIDE DEF col
<1>8. TypesOf(ColumnsAt(p)) = [k \in 1..m |-> TypeOf(col(k))] /\ DataOf(ColumnsAt(p)) = [k \in 1..m |-> col(k).data]
  BY <1>6 DEF TypesOf, DataOf
<1>9. ASSUME NEW c PROVE TypeOf(c) \in W!ColumnTypes
  BY DEF TypeOf, W!ColumnTypes
<1>. QED  BY <1>7, <1>8, <1>9

LEMMA CellType ==
  ASSUME page \in Seq(Byte), NEW p \in Nat \ {0}
  PROVE  CellOf(p) \in W!Cells
<1>1. Sound(p) => Rowid(p) \in Nat
  <2>1. ASSUME Sound(p), type = LeafTable PROVE ValueOf(page, RowidAt(p)) \in Nat
    BY <2>1, SoundCell, ValueNat
  <2>. QED  BY <2>1 DEF Rowid
<1>2. CASE WellFormed(p)
  <2>. PICK cols : cols = ColumnsAt(p)
    OBVIOUS
  <2>1. TypesOf(cols) \in Seq(W!ColumnTypes) /\ DataOf(cols) \in Seq(Seq(Byte)) /\ Rowid(p) \in Nat
    BY <1>1, <1>2, ColumnsType DEF Sound
  <2>2. CellOf(p) = [res |-> "row", cols |-> TypesOf(cols), rowid |-> Rowid(p), data |-> DataOf(cols)]
    BY <1>2, WellFormedIs
  <2>. QED  BY <2>1, <2>2 DEF W!Cells
<1>3. CASE ~WellFormed(p)
  <2>1. TypesOf(<<>>) = <<>> /\ DataOf(<<>>) = <<>>
    BY DEF TypesOf, DataOf
  <2>2. CellOf(p) = IF EmptyCell(p) THEN [res |-> "empty", cols |-> <<>>, rowid |-> Rowid(p), data |-> <<>>]
                    ELSE [res |-> "range", cols |-> <<>>, rowid |-> 0, data |-> <<>>]
    BY <1>3, <2>1 DEF CellOf, Cell
  <2>3. EmptyCell(p) => Rowid(p) \in Nat
    BY <1>1 DEF Sound
  <2>. QED  BY <2>2, <2>3 DEF W!Cells
<1>. QED  BY <1>2, <1>3

(***************************************************************************)
(* Whatever the bytes of a page are, what PageCells makes of them is one   *)
(* of the pages WalParser is about: the columns of a record that main,     *)
(* read and readHeader will find are of the types of Formatter, its rowid  *)
(* is a number and its content bytes of the page.  So the logs whose cells *)
(* are sound are among those the theorems of WalParser speak of.           *)
(***************************************************************************)
THEOREM PagesAreOfWalParser == Safe => [](PageOf \in W!Pages)
<1>1. TypeOK => PageOf \in W!Pages
  <2>. SUFFICES ASSUME TypeOK PROVE PageOf \in W!Pages
    OBVIOUS
  <2>1. page \in Seq(Byte) /\ pointers \in Seq(Nat)
    BY DEF TypeOK
  <2>. PICK m \in Nat : m = Len(pointers)
    BY <2>1
  <2>2. \A k \in 1..m : CellAt(k) \in Nat \ {0}
    BY <2>1 DEF CellAt
  <2>3. \A k \in 1..m : CellOf(CellAt(k)) \in W!Cells
    BY <2>1, <2>2, CellType
  <2>4. DOMAIN pointers = 1..m
    BY <2>1
  <2>5. [k \in DOMAIN pointers |-> CellOf(CellAt(k))] \in Seq(W!Cells)
    BY <2>3, <2>4
  <2>6. Node \in {"leafTable", "leafIndex", "interior", "other"}
    BY DEF Node
  <2>. QED  BY <2>5, <2>6 DEF PageOf, W!Pages
<1>. QED  BY <1>1, TypeCorrect, PTL DEF Safe

=============================================================================
