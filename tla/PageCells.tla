------------------------------ MODULE PageCells ------------------------------
(***************************************************************************)
(* The cells that WalParser takes as data, made out of the bytes that      *)
(* PageReader goes through: which bytes are a row and which an empty cell, *)
(* and that reading them does to the reader what WalParser says.           *)
(***************************************************************************)
EXTENDS PageReader

(***************************************************************************)
(* The records of the file format of SQLite, for integers shorter than the *)
(* full length: where a record's header starts, where in it an integer     *)
(* starts, and the columns it describes.                                   *)
(***************************************************************************)
Short(p) == \E n \in 1 .. MaxSize - 1 : Encoded(page, p, n)

RowidAt(p) == p + SizeOf(page, p)

HeaderAt(p) == IF type = LeafTable THEN RowidAt(p) + SizeOf(page, RowidAt(p)) ELSE RowidAt(p)

Starts(s, size) == {q \in s .. s + size - 1 : q = s \/ page[q - 1] < Radix}

(* The types follow the header's size. *)
Types(s, size) == Starts(s, size) \ {s}

Nth(S, k) == CHOOSE q \in S : Cardinality({r \in S : r <= q}) = k

FormatsIn(s, size) ==
  [k \in 1 .. Cardinality(Types(s, size)) |-> FormatOf(ValueOf(page, Nth(Types(s, size), k)))]

(* How many bytes the first n columns have. *)
SizeUpTo(fs, n) ==
  LET sum[k \in 0 .. Len(fs)] == IF k = 0 THEN 0 ELSE sum[k - 1] + fs[k].size IN sum[n]

IsHeader(s, size) ==
  /\ size >= 2
  /\ s + size - 1 \in DOMAIN page
  /\ page[s + size - 1] < Radix
  /\ \A q \in Starts(s, size) : Short(q)

WellFormed(p) ==
  /\ Short(p)
  /\ type = LeafTable => Short(RowidAt(p))
  /\ Short(HeaderAt(p))
  /\ LET s == HeaderAt(p)  size == ValueOf(page, s) IN
     /\ IsHeader(s, size)
     /\ LET fs == FormatsIn(s, size) IN s + size - 1 + SizeUpTo(fs, Len(fs)) <= Len(page)

ColumnsAt(p) ==
  LET s     == HeaderAt(p)
      size  == ValueOf(page, s)
      fs    == FormatsIn(s, size)
      at(k) == Plus(page, s, size + SizeUpTo(fs, k - 1))
  IN [k \in DOMAIN fs |->
       [type |-> fs[k].type, at |-> at(k), data |-> Slice(page, at(k), fs[k].size)]]

CellAt(k) == pointers[k] + 1

(* A cell whose record header says that it has no type. *)
EmptyCell(p) ==
  /\ Short(p)
  /\ type = LeafTable => Short(RowidAt(p))
  /\ Short(HeaderAt(p))
  /\ ValueOf(page, HeaderAt(p)) < 2

Sound(p) == WellFormed(p) \/ EmptyCell(p)

-----------------------------------------------------------------------------
(* A node, and a column's type, as WalParser and Formatter tell them apart. *)
Node ==
  CASE type = LeafTable   -> "leafTable"
    [] type = LeafIndex   -> "leafIndex"
    [] type \in Interior  -> "interior"
    [] OTHER              -> "other"

TypeOf(col) ==
  CASE col.type = 0       -> "Null"
    [] col.type \in Numbers -> "Number"
    [] col.type = String  -> "String"
    [] col.type = Blob    -> IF col.data = <<>> THEN "EmptyBlob" ELSE "Blob"
    [] OTHER              -> "Internal"

(* The content of a record is all its bytes; no columns have none. *)
TypesOf(cols) == [k \in DOMAIN cols |-> TypeOf(cols[k])]
DataOf(cols)  == [k \in DOMAIN cols |-> cols[k].data]

RecordOf(cols, id) == [cols |-> TypesOf(cols), rowid |-> id, data |-> DataOf(cols)]

Cell(res, cols, id) == [res |-> res, cols |-> TypesOf(cols), rowid |-> id, data |-> DataOf(cols)]

Rowid(p) == IF type = LeafTable THEN ValueOf(page, RowidAt(p)) ELSE 0

CellOf(p) ==
  IF WellFormed(p) THEN Cell("row", ColumnsAt(p), Rowid(p))
  ELSE IF EmptyCell(p) THEN Cell("empty", <<>>, Rowid(p))
  ELSE Cell("range", <<>>, 0)

PageOf ==
  [node |-> Node,
   pointersFit |-> cellCount = 0 \/ HeaderSize + PointerSize * cellCount <= Len(page),
   cells |-> [k \in DOMAIN pointers |-> CellOf(CellAt(k))]]

(* The reader as the last cell has left it. *)
Reader ==
  IF presented = <<>> THEN RecordOf(<<>>, 0)
  ELSE RecordOf(Last(presented).columns, Last(presented).rowid)

W == INSTANCE WalParser WITH
       Inputs <- {}, Records <- {}, Names <- {}, NoName <- "none", NoInput <- "none", NoData <- <<>>,
       Files <- {}, Options <- {}, Salts <- {}, Contents <- Seq(Seq(Byte)), NoSalt <- "none",
       file <- [frames |-> <<[page |-> PageOf]>>], opts <- [index |-> index], fi <- 1, reader <- Reader,
       exit <- 0, salt <- "none", outputData <- {}, printed <- <<>>, noise <- {}, fmt <- "none", result <- "none"

(***************************************************************************)
(* main goes into the pages WalParser does, finds the pointer array whole  *)
(* or cut off as it does, and a sound cell, wherever it lies and whatever  *)
(* was read before it, does to the reader what WalParser says: a row fills *)
(* it with its columns, their bytes and the rowid, an empty cell leaves it *)
(* the columns of the cell before, and only the leaf of a table a rowid.   *)
(***************************************************************************)
CellsOfWalParser ==
  [][/\ SkipPage => W!NodeSkipped(Node)
     /\ PointersRead => ~W!NodeSkipped(Node) /\ W!Page.pointersFit
     /\ PointersCutOff => ~W!NodeSkipped(Node) /\ ~W!Page.pointersFit
     /\ Present /\ Sound(CellAt(ci)) => Reader' = W!ReadInto]_vars

(***************************************************************************)
(* The exception and the overrun that end the program are never the fault  *)
(* of a sound cell, not even of one that ends with the page; nor is one of *)
(* the conversions of its columns.                                         *)
(***************************************************************************)
OnlyCutCellsKill ==
  pc \in {"thrown", "aborted"} /\ Len(pointers) = cellCount /\ ci \in DOMAIN pointers =>
    ~Sound(CellAt(ci))

(* The first n cells are of the file format. *)
AllSound(n) == \A k \in 1..n : Sound(CellAt(k))

(***************************************************************************)
(* What a whole page comes to: its records are presented in the order of   *)
(* its pointers, none twice and none left out of a page that is done; and  *)
(* the k-th is what WalParser presents for its k-th cell, also where the   *)
(* columns are those of a row many empty cells before.                     *)
(***************************************************************************)
PagePresented ==
  /\ pc = "done" => NodeSkipped \/ Len(presented) = Len(PageOf.cells)
  /\ \A k \in DOMAIN presented :
       /\ presented[k].cell = k
       /\ AllSound(k) => RecordOf(presented[k].columns, presented[k].rowid) = W!Presented(PageOf, k)

=============================================================================
