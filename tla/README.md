# Verification of the WAL parser

A TLA+ model of `wal-parser`, the command line program of this repository that
goes through a SQLite write-ahead log and prints what records it finds, as CSV
or as INSERT statements. TLC checks the models on small instances; TLAPS proves
the theorems for all values of the constants.

Source paths below are relative to the repository's root (`main.cpp`,
`src/Formatters/...`).

## 1. Inventory

The program is sequential: one process, no threads, no persistent state of its
own. What is hard in it is not concurrency but *state that outlives the step it
was made for*: statics, objects in a singleton factory, a reader reused from
cell to cell, a flag lowered before the work it stands for is done, a sticky
stream manipulator, two iterators that walk through the same bytes. A log is
arbitrary bytes, so that every step also has ways to end early.

| Part | State | Operations | Interacts with |
| --- | --- | --- | --- |
| `main.cpp` | set of texts, position in the file, exit status | checks of arguments, frame loop, cell loop, printing loop | drives everything below |
| `FrameHeader`, `WalHeaderReader` | one **static per field**, for all objects | `salt1()`, `page_size()`, ... | `isFrameWeakValid` |
| `BTreeReader` | page header, pointer array | `readHeader`, `readPointerArray` | `FixedRuntimeArray::iterator` |
| `RecordHeaderReader` | `_headerData`, `_rowid`, kept **between the cells of a page** | `read`, `printOut`, `headerData` | `VarInt`, formatter |
| `RecordHeaderDataType`, `FromData`, `Endian` | none | conversions of column bytes | both formatters |
| `VarInt` | none, moves the caller's iterator | `readVarInt` | `FixedRuntimeArray::iterator` |
| `FixedRuntimeArray` | bytes; iterators with a null pointer as their end | `++`, `+=`, `*`, `[]` | all readers |
| `Formatter`, `CSVFormatter`, `SchemaFormatter` | input, `_inputChanged`, `_strict`, and what the last parse left | `setInput`, `strictMode`, `lenientMode`, `generateOutput` | inputs, tokenizers |
| schema parser, tokenizers | members of `SchemaFormatter` | `parseSchema`, `parseName`, `parseParams`, `findPrimaryColumnIndex` | `SchemaFormatter` |
| `FileInput`, `StringInput` | buffer | `getInputData` | formatters |
| `Factory` | one formatter object per class, for the process | `registerFormatter`, `getFormatter` | `main`, tests |
| `Log` | report level | `err`, `info`, `debug` | all |
| `ArgsParsing`, `ArgValues` | arguments, tokens, errors | `addArg`, `argExists`, `getArgValue` | `main` |

What makes each correct:

* *program*: every row of a frame it was asked for comes out, unless the
  formatter refuses it; nothing comes out that is not in the log; a failing
  record costs no other its output; texts are printed all or not at all; it ends;
* *formatters*: what is used is the parse of the current input; strict rows have
  the width of the schema; the rowid is at the key and nowhere else; the header
  line goes out once;
* *variable length integers*: exactly the bytes of the integer are taken, its
  value is right, reading stops only where the page ends;
* *page and record readers*: a well formed cell is presented as the file format
  says whatever was read before it; what the page cuts off is refused, not
  shortened; only such a cell ends the program; no page is read for ever;
* *column values*: the number of the big endian bytes, as the tests expect it;
* *schema parser*: table, columns and key are those of the statement's
  definition, and texts laid out like those of the tests are accepted;
* *command line parsing*: an accepted line is complete, and an unambiguous one is
  taken as one reads it.

`PROJECT.json` lists the hazards, line by line, with the properties that cover
them or the reason why none does.

## 2. Modules

| Module | Models | Needs |
| --- | --- | --- |
| `Formatter` | a formatter object and its client | |
| `Recovery` | abstract: what the program promises | |
| `WalParser` | `main.cpp`, what the readers leave between cells, the log levels | `Formatter`, `Ranks` (EXTENDS), `Recovery` (INSTANCE) |
| `Bytes` | iterators of `FixedRuntimeArray`, a variable length integer as one step | |
| `VarInt` | `readVarInt` with its two iterators, step by step | `Bytes` (EXTENDS) |
| `ColumnValue` | `RecordHeaderDataType`, `FromData`, `Endian` as functions of bytes | |
| `PageReader` | one page as bytes: `BTreeReader`, `RecordHeaderReader`, `main`'s loop over cells | `Bytes`, `ColumnValue`, `Ranks` (EXTENDS) |
| `PageCells` | which bytes are which cell of `WalParser` | `PageReader` (EXTENDS), `WalParser` (INSTANCE) |
| `SchemaParser` | `SchemaFormatter::parseSchema` and all it calls, the tokenizers | `Formatter` (INSTANCE) |
| `ArgsParsing` | `addArg` for the arguments `main` declares | |
| `Ranks` | the order of ranks by which `WalParser` and `PageReader` say that they end | |
| `MC...` | instances for TLC | the module of that name |
| `FormatterProofs`, `WalParserProofs`, `VarIntProofs`, `PageReaderProofs`, `PageCellsProofs`, `SchemaParserProofs`, `ArgsParsingProofs` | theorems | the module of that name |
| `NatProofs` | lemmas on natural numbers the other proofs rest on | |

They fit together along the calls of the program. `ArgsParsing` ends in the
`good`, `bad` and `help` that `WalParser` takes as its `opts.args`; `PageReader`
makes out of bytes the cells (`row`, `empty`, `range`, `overrun`) that are data in
`WalParser`; `SchemaParser` makes out of a text the table, columns, key and
outcome that are an input in `Formatter`. The last of these is checked, and proved
for all texts: what a parse leaves is `Formatter!Load` of some input (`LeavesAnInput`),
so that what holds of formatters for all inputs holds for all texts; on the texts of
the instance the input is that of the definition (`LoadedAsDefined`, with the
exceptions that section 3 names). So is the
second: `PageCells` makes a page of `WalParser` out of bytes, without looking at how
they are read, and `CellsOfWalParser` says that `PageReader` goes into it, or not,
and fills the reader from each row and each empty cell by `WalParser!ReadInto`;
`PagePresented` says the same of a whole page: the records it gives are
`WalParser!Presented`, cell by cell. So is the step that `VarInt` and `PageReader` share (`CallsAreReads`: a finished call
of `VarInt` is one step of `Bytes`). The first is a correspondence by reading.

A definition named `Defect...` is a wrong variant of the one it precedes, of the
kind a mistake in the code would give. It is used by no specification; put in
the place of the right one, it makes the property `PROJECT.json` pairs it with fail.

### Formatter

`fmt` is the object, `result` what the last `generateOutput` returned or threw.
Texts are abstract: an *input* is the record of what its parse yields (table,
columns up to the first malformed one, position of the key, and how the parse
ends), a returned *string* is the record of what it says. `GenerateOutput` is one
whole call: take the input if it changed (`Load`: `_inputChanged` is lowered
first, and every exception leaves what was assigned before it), then
`CsvOutput` or `SqlOutput` with their guards in the code's order. Access to a
vector out of bounds (`headerData[_primaryKeyIndex]` of a short record) is a
choice between its outcomes, the AddressSanitizer stop of the build included; the
vector of an empty record has no buffer, so that the process stops in every build
(`KeyChecks`).

The model keeps of a Blob, where it is printed, that it leaves the stream in
hexadecimal. (Its bytes are of type `uint8_t`, which a stream prints as
characters; as no property is about the content of a Blob this is left out.)
All number types are one, `Number`; types for which the code throws are `Internal`.

### WalParser

One action per branch of `main`:

| Action | `main.cpp` |
| --- | --- |
| `ShowUsage`, `RejectArguments`, `InputMissing`, `HeaderUnreadable`, `NoFormat` | the early returns, exit status 0, 1, 2, 4, 5 |
| `OpenInput`, `ChooseMode`, `GiveInput` | 126-184 without the returns |
| `SkipFrame`, `OpenPage`, `PointersCutOff`, `EndOfFile`, `ReadFailure` | one round of the frame loop up to the cell loop, 187-241 |
| `ReadRecord`, `RecordCutOff`, `PageDone` | 243-248, with `RecordHeaderReader::read` and `printOut` |
| `Format` | 250-260, with the whole `generateOutput`, its catch block and the `emplace` |
| `PrintNext`, `Finished` | 265-270 |

`salt` is the static of `FrameHeader::salt1` and `salt2`; `reader` is the
`RecordHeaderReader` of the page; `noise` collects the streams on which something
else than texts appeared (`printOut` writes the bytes of a Blob by `printf`, also
under `--quiet`, of which the usage text says that no logs come out: `PrintOut` has
that, and no run states it). A frame is its salt and its page; a page is the kind of
its node, whether its pointer array lies within it, and its cells; a cell is what
`read` meets there: a row, an empty record header, or the end of the page. Rows
carry a token `data` that stands for their content, so that one can tell where a
text came from. The order of the set of texts is left open.

An exception that is not a `FormatterException` ends the program (`pc = "killed"`)
without a text on standard output.

`Recovery` is the promise: a scan that finds data only in the frame it is at, then
shows all of what it found and is done, or fails having shown nothing.
`WalParser!R` is the refinement mapping.

### VarInt

`dataIt` is the caller's iterator, `localIt` the copy that is indexed, `i` and
`v` the loop's variables. `Radix`, `MaxSize` and `Modulus` are 128, 9 and 2^64
in the code. The null iterator's exception and the unchecked index past the
array are separate ends (`OutOfRange`, `Overrun`). Of an integer of full length
the code takes one byte more than it has and shifts twice; `Bytes!ValueOf` and
`NextOf` say so, and every other module takes them from there.

### PageReader and ColumnValue

`page` is the frame's data, positions start at 1 and 0 is the null iterator that
`+=` and `++` turn into past the last byte. `pc` follows the code:

| `pc` | Actions | Code |
| --- | --- | --- |
| `header` | `ReadHeader`, `HeaderOverrun` | `BTreeReader::readHeader`; a page shorter than the header leaves bytes of the buffer uninitialised (`Buffered`) |
| `pointers` | `SkipPage`, `ReadPointer`, `PointersCutOff`, `PointersRead` | the node types `main` does not go into, `readPointerArray` |
| `cell` | `SeekCell`, `PageDone` | `begin() + ptr` for each pointer |
| `payload`, `rowid`, `size` | `ReadPayloadSize`, `ReadRowid`, `ReadHeaderSize` | the first integers of `RecordHeaderReader::read`, its early return for an empty header |
| `types` | `ReadType`, `TypesRead` | the loop over `std::distance` from the start of the header |
| `columns` | `EmptyColumn`, `ReadColumn`, `ColumnCutOff`, `ColumnsRead` | the loop that copies each column's bytes |
| `present` | `Present` | `headerData()`, and whether a conversion throws |

`PageCells` says which bytes are a row (`WellFormed`: integers shorter than the full
length, a header that ends with its last integer, columns within the page) and which
an empty cell; of the others the properties only say what must not come out of them.

`OutOfRange` and `Overrun` are the two ways a variable length integer ends a
read. An integer is one step here and a loop in `VarInt`.

`ColumnValue` has no state. An unsigned integer is the sequence of its bytes; a
cast, a byte order change and a copy into a wider word are what they do to that
sequence. A double holds 53 bits: six bytes in a row are kept, any other word may
be rounded, which `Rounded` stands for.

### SchemaParser

A text is a sequence of pieces: blanks, other white space, marks and parts of
words. Pieces that stand next to each other are one word, so that a keyword can
be the beginning or the end of a name, which is where a search for tokens goes
wrong. The actions are the steps of `parseSchema` with their exceptions:
`FindStatement`; `ParseName`, `RejectName`; `OpenParams`, `RejectParams`,
`ParamsOverrun` (undefined behaviour, with the process stopped or the text refused);
one of `TakeColumn`, `DropConstraint`, `RejectColumn` per entry;
`FindKey`, `RejectKey`. `schema` carries, besides its text, what SQL means by it:
only the properties look at that.

### ArgsParsing

One `AddArg` step per declared argument, in `main`'s order, one action for each
end of `addArg`; `Judge` is what `main` asks of the object afterwards. Words are
searched from the end, long spelling first. `--csv [default]` is in the usage text
(`main.cpp:69`), yet with neither `--csv` nor `--sql` the program ends with
status 5: `WalParser!NoFormat`.

## 3. Runs

| Run | Configuration | Expected | Shows |
| --- | --- | --- | --- |
| `formatter` | `Formatter.cfg` | holds | a formatter under all sequences of calls |
| `rejected_schema` | `Formatter_RejectedSchemaNeverInserts.cfg` | violated | a rejected schema yields INSERTs from the second record on |
| `rowid_base` | `Formatter_RowidInDecimal.cfg` | violated | rowid in hexadecimal after a Blob |
| `program` | `WalParser.cfg` | holds | the program on all small logs; implements `Recovery`; ends |
| `valid_frames` | `WalParser_ValidFramesOnly.cfg` | violated | `--valid-frames` lets stale frames through |
| `empty_header` | `WalParser_EmptyHeaderSkipped.cfg` | violated | an empty record behind a row is given out as that row, under its own rowid |
| `varint` | `VarInt.cfg` | holds | integers below full length are taken and decoded exactly |
| `varint_full_length` | `VarInt_ConsumesAtMostMaxSize.cfg` | violated | a full length integer takes one byte too many |
| `page` | `PageReader.cfg` | holds | pages as bytes: rows and empty cells are what `WalParser` says, others are refused or presented without gaps; reading ends |
| `schema` | `SchemaParser.cfg` | holds | what a parse leaves is the definition, cut off where parsing failed; columns and key come from the entries |
| `if_not_exists` | `SchemaParser_IfNotExistsPassedOver.cfg` | violated | `CREATE TABLE IF NOT EXISTS foo` defines a table `IF` |
| `arguments` | `ArgsParsing.cfg` | holds | an accepted line is complete; an unambiguous one is taken as read |

The violated ones state what a comment, the usage text or a test of the
repository says; `PROJECT.json` quotes it under `findings`. Properties that hold
say what the code does in spite of them: `NothingLost` with `--valid-frames`
speaks of logs whose first frame is valid, since that frame decides for all;
`LoadedAsDefined` leaves out texts with `IF NOT EXISTS`, which have a run of their
own, and texts in which the parser drops a column because its name starts like a
constraint, or takes a constraint that ends with its keyword for a column
(`LooksOtherwise`: no file of the repository says what these mean);
`ColumnValue!Expected` has the factors of 256 and 65536 that the tests expect of
integers of 3 and 6 bytes.

Run them in this directory:

    tlc -config Formatter.cfg MCFormatter.tla
    tlc -config WalParser.cfg MCWalParser.tla
    tlc -config VarInt.cfg MCVarInt.tla
    tlc -config PageReader.cfg MCPageReader.tla
    tlc -config SchemaParser.cfg MCSchemaParser.tla
    tlc -config ArgsParsing.cfg MCArgsParsing.tla
    tlapm FormatterProofs.tla        (and so on, each ...Proofs module)

**Bounds.** *Formatter*: 14 inputs, one for each way a parse can end, keyed and
unkeyed tables of one and two columns; 23 records of up to two columns with every
column type; calls unbounded (the state space is finite). Two inputs are needed to
see anything survive, two columns for a key that is not the first and for a Blob
before it. *WalParser*: logs of up to two frames out of ten, each page with up to
two cells; two frames are needed for the static salts and for readers of two pages,
two cells for what stays in a reader; three columns for a row that does not
fit; 33 command lines: every combination of `--strict`, `--valid-frames` and
`--index` with a column list, a keyed schema and a malformed one, and one of each
rarer kind. *VarInt*: every page of up to `MaxPage` = 6 bytes with radix 2 (four
byte values), full length 4: a page holds a full length integer and what follows
it; `Modulus` is 2 * `Radix`^`MaxSize`, as 2^64 is 2 * 128^9 in the code.
*PageReader*: radix 16 leaves room in one byte for every node type and serial
type; full length 3 and `Modulus` 8192. Every cell of up to `MaxBody` = 6 bytes of
five kinds (zero, small sizes, the largest last byte, one that announces another):
empty headers, headers whose size lies about their content, integers at and across
the page's end, columns that do not fit. Besides, two columns of any of sixteen
types whole or one byte short; two cells of six kinds for what stays in the reader,
three of them for a row whose columns are given out by two empty cells behind it;
cell counts and pointers that run off the page; pages from no byte to a whole header.
*SchemaParser*: lists of up to three entries of 19 kinds (columns, constraints, keys
inline and behind, composite keys, names that contain keywords, nested parentheses,
malformed ones) with the usual beginning, lists of two with seven others and three
ends (closed, followed by a second statement, never closed). Three entries put a key
in the middle and two keys in one text. *ArgsParsing*: every line of up to four words
out of twelve: four words make two arguments with values, or one argument twice, and
the words have both spellings of four arguments, the two values of a list,
and names in the place of values.

**Deadlock** is checked except in the `Formatter` runs, where an aborted process
takes no more calls. The other modules have a `Stopped` step for the ended
program, page, parse or command line instead.

**Fairness.** `WF_vars(Next)` in `WalParser`, `VarInt` and `PageReader`: the
program is sequential and reads an ordinary file, so that it goes on as long as it
can. The others have none: nothing obliges a client of `Formatter` to call, that
the program ends is `Termination` and not part of `Recovery`, and the loops of
`SchemaParser` and `ArgsParsing` each shorten a list, so that termination would
say nothing of them.

## 4. Proofs

| Theorem | Says |
| --- | --- |
| `FormatterProofs!FormatterTypeCorrect` | `FSpec => []FTypeOK` |
| `FormatterProofs!Parsed` | `FSpec => []ParsedFromCurrentInput` |
| `FormatterProofs!StrictFits`, `HeaderOnce`, `KeyIsRowid` | the three action properties |
| `WalParserProofs!TypeCorrect` | `Spec => []TypeOK` |
| `WalParserProofs!Implements` | `Spec => Recovers`, the refinement of `Recovery` |
| `WalParserProofs!OneHeader` | `Spec => []HeaderAtMostOnce` |
| `WalParserProofs!TextsFromCells` | `Spec => []NothingInvented` |
| `WalParserProofs!RowsKept` | `Spec => []NothingLost` |
| `WalParserProofs!ProgramEnds` | `Spec => AlwaysNearer`: every step lowers a rank |
| `VarIntProofs!TypeCorrect`, `ShortIsConsumed`, `StopsAtTheEnd`, `Progresses` | types, what is consumed, where reading stops, that it goes forward |
| `VarIntProofs!ShortIsDecoded` | `Spec => []ShortDecoded`: the value |
| `VarIntProofs!CallsReadWhole` | `Spec => []CallsAreReads`: the loop is the one step of `Bytes` |
| `PageReaderProofs!TypeCorrect` | `Safe => []TypeOK` |
| `PageReaderProofs!PointersComplete` | `Safe => []PointersFit` |
| `PageReaderProofs!NothingTruncated`, `ColumnsAreBehind` | `Safe => []NeverTruncated`, `Safe => []ColumnsBehindHeader` |
| `PageReaderProofs!NumbersAreShown` | `Safe => []NumbersShown` |
| `PageCellsProofs!OnlyCutCells` | `Safe => []OnlyCutCellsKill` |
| `PageReaderProofs!PageEnds` | `Safe => AlwaysNearer` |
| `PageCellsProofs!PageIsOfWalParser` | `Safe => []PagePresented`: a whole page is what `WalParser` presents of it |
| `PageCellsProofs!PagesAreOfWalParser` | `Safe => [](PageOf \in W!Pages)`: bytes make a page of `WalParser` |
| `PageCellsProofs!CellsAreOfWalParser` | `Safe => CellsOfWalParser`, from the page's bytes to the cells of `WalParser` |
| `SchemaParserProofs!TypeCorrect` | `Spec => []TypeOK` |
| `SchemaParserProofs!ParseIsLoad` | `Spec => []LeavesAnInput`: what a parse leaves is `Formatter!Load` of an input |
| `SchemaParserProofs!ColumnsOfDefinitions`, `PrimaryIsKey` | `Spec => []ColumnsAreNames`, `Spec => []KeyIfPrimary` |
| `ArgsParsingProofs!TypeCorrect`, `AcceptedIsComplete` | `Spec => []TypeOK`, `Spec => []AcceptedComplete` |
| `ArgsParsingProofs!SearchReads` | `Spec => []ReadAsWritten` |

Assumptions are those of the modules on their constants: inputs, records, logs
and command lines of the right type (`InputsAssumption`, `RecordsAssumption`,
`FilesAssumption`, `OptionsAssumption`), no salt that equals the unset one
(`SaltsAssumption`), radix and length of at least 2 with the modulus they make,
pages of bytes (`PagesAssumption`), command lines of words with two values that
are none (`CommandLinesAssumption`), texts of pieces with the keywords among their
words (`WordsAssumption`, `CharsAssumption`, `SchemasAssumption`).
Every one is evaluated by TLC in the passing runs.

*Formatter.* The types need nothing else. `ParsedFromCurrentInput` becomes
inductive as `Current`, which adds to it that an accepted input, once loaded, is
loaded completely; the action properties follow from `Current` and from the list
of outcomes of one call (lemma `Outcomes`).

*WalParser.* `TypeOK` is inductive; its parts tie the frame and cell numbers to
the log where they are used and the formatter to the command line. The refinement
needs two facts more, in `RInv`: past its arguments the command line was good
(else exit status 0 of `--help` would count as success), and the reader's content
is of the page being parsed, because each page starts with a new reader
(`ReaderOfPage`). Then each action is a step of `Recovery` or a stutter
(`StepRefines`): texts without data, and texts whose data is there already, are
stutters.

*VarInt.* The invariant `Inv` relates the three positions: within a call the
caller's iterator is one byte ahead of the byte looked at, or null when that is
the last one, and all bytes before have announced another. `ShortConsumed` and
`StopsWhereThePageEnds` follow from it. The value needs `Decoding`: inside the loop
`v` is the sum of the digits so far (`ShortValue`) times the radix, one shift ahead of
what it has read. That no digit is lost to the width of the word follows from
`Modulus` being 2 * `Power[MaxSize]`: n digits make less than `Power[n]`. `Decoding`
says of the calls that returned that their value is that of `Bytes`, also of full
length, where the code shifts once more than the format asks for, and that the
caller's iterator is where `Bytes!NextOf` has it.

*The set of texts.* `HeaderAtMostOnce` needs `NoneYet`: there is no text while the
input is not given or not parsed, so that the one call that can bring a header
line brings it into an empty set. `NothingInvented` is a property of texts, while
what goes wrong would go wrong in the reader: `ReaderOfCell` says after every cell
whose columns the reader holds (those of the nearest row before, or none),
`PageSelected` and `SaltOfFirst` why the page was entered. Together they make
`PresentedReader`: what is handed to the formatter is what `Presented` picks from
the page. The formatter's `Current` and its outcomes turn that into `Says`
(`NewText`), and once texts exist the formatter's fields stay.

*What is behind.* `NothingLost` is about the end of a run; its invariant `LInv` is
about every step: each row of a selected page before `fi` (`Behind`), and of the page
at `fi` before `ci` (`CellsBehind`), is told by a text if it can be delivered. What
"can be delivered" and "told" mean depends on the object's table and columns, which
the first record settles: `Untouched` says that before that no selected page behind
had a cell, so that nothing is owed yet. `Delivered` is the one step that pays:
a row that `Deliverable` accepts under the settled object is not refused.

*PageReader.* `TypeOK` is inductive: an iterator never stands behind the page's
last byte, whatever is added to it. `PointersInv` adds where the iterator is while
the array is read. `ColumnsInv` is the invariant of the column loop: each column
has its type's bytes at its place, the next starts where it ends, the iterator is at
the end of the last, and the first is behind the header because the loop over the
types stops only there. `Decoded` (a value that is an `uint64_t`) is all that these
proofs know of a decoded number. `NumbersInv` carries the size of each number's type
from the header to the column and to what was presented, also when that is a column
of the record before; the conversions of `ColumnValue` are then exact (`LongWords` and
the lemmas before it).

*PageCells.* The properties compare what the loop did with what the bytes say at
once, so the invariant `Track` is how far the loop is: at a cell the file format
allows, with its record header at s, `Reading(p, s, size)` says of each `pc` where the
iterator is and that what was read so far is what is there. `TypesUntil` counts: as
many formats were read as integers start before the iterator. `ColumnsUntil` adds: as
many columns, each at its place, and the iterator behind the sizes of these
(`SizeUpTo`). The steps rest on lemmas about the bytes: at a position at most one
integer is encoded (`OneSize`), the next starts where it ends (`NextStart`), the
k-th smallest of a set exists once (`NthIs`, `OneMore`), sizes only grow
(`SizesGrow`), so that a column of a row never runs off the page (`ColumnFits`).
`OnlyCutCells` follows. `Kept` says that between the cells the reader has what it was
last presented with; with it each step of `CellsOfWalParser` maps to
`WalParser!ReadInto`. `PagePresented` is about all records given so far, and needs
`Chained`: there are as many of them as cells were gone through, each of its cell, and
each is what `WalParser!Presented` makes of the cells up to it, as long as these are of
the file format. A row starts anew (`AfterRow`); an empty cell has the columns of the
record before it, which is where `Presented` takes them from (`AfterEmpty`).
That `PageOf` is a page `WalParser` takes at all (`PagesAreOfWalParser`) is shown from the
bytes alone, without the reader: every integer has a value (`ValueNat`), every k up to
the number of types its type (`NthExists`), every column its bytes (`SliceInPage`).

*Ranks.* That the loops end has a safety half, `AlwaysNearer`: every step that changes
anything lowers a rank of four numbers, compared from the left (`Ranks!Lower`), and of
these there is no endless descent. In `WalParser` they are the stage of the program, the
frames or texts left, the cells left, and whether the cell was read; in `PageReader` the
stage of the page, the pointers or cells left, the steps of `read` left, and what its
loop still has before it. There `Counted` is needed, which says that no pointer is read beyond
the cell count and no cell gone through beyond the pointers, and `ColumnsInv`, for the
columns are never more than the formats; the loop over the types ends with the page
because `readVarInt` moves the iterator forward or makes it null.
Of `Termination` that leaves what fairness gives, that a step that can be taken is taken.

*SchemaParser.* `TypeOK` with the text being one of `Schemas` is inductive, from what
the helpers return whatever text they search: a token's end within the range
(`TokenPosInRange`), a name of nothing but words, because the search stops at the first
mark (`NameFound`), parts of pieces (`SplitIsSeq`, `ClearIsSeq`), a range of
parentheses that does not end before it starts (`ParenthesesInRange`). The key is the
least position of its name, and later columns would only be added behind it.
`LeavesAnInput` and `KeyIfPrimary` need what the members hold on the way (`Halfway`: the
columns are empty until the table's name is there, the key is unset until the end, no
column is empty) and, of a parse that ended, which of them its exception had left unset
(`Ended`). `PRIMARY` decides because the search for it covers all that is behind the
name (`PrimaryFound`), and each way on from there sets the key or throws.
`ColumnsAreNames` compares the loop over the entries with all of them at once: the
entries left are the last of the definitions (`LastOf`), the columns the names of those
before (`NamesTo`). Each round adds a name or keeps the columns: the names kept of the
first n + 1 are those kept of the first n, with or without one more (`KeptNext`).

*ArgsParsing.* `Settled`: as long as there is no error, every argument that was
added is complete, and those to come have no token. `AddedRead`: of an unambiguous
line, each argument that was added has the value of its last use, read from the left,
and errors are there exactly if one of those uses is wrong. That the last word found
from the end is that use is `Unambiguous` at work: no word is both.

*Recursive definitions.* `Power`, `ShortValue`, `SizeUpTo` and `At` are recursive
functions over an interval. To know anything of one the function must be shown to
exist: `NatProofs!BoundedRecursion` takes the step as a function and gives a solution,
and the lemmas next to each definition (`SizesExist`, `KeptExists`, ...) take it from
there; `NatProofs!Stays` keeps its values in a set. `NatProofs!Induction` is induction stated of a set instead of an operator.

**Model-checked only.** The `Termination`s of `WalParser`, `VarInt` and `PageReader`:
they are liveness properties under fairness, for which the proofs have no backend;
`AlwaysNearer` of the first and the last, and `AlwaysForward` of `VarInt`, are what is
proved of them. `LoadedAsDefined`, `KeyAsDefined` and `PlainAccepted` of `SchemaParser`:
what a text means is given with the text in `Schemas`, which for the proofs is any set of
texts with any meaning, so that the three are false for some values of the constants; they
compare meaning and parse for the texts of the instance. What the code does with a text,
whatever the text means, is proved: `ColumnsAreNames`, `KeyIfPrimary`, `LeavesAnInput`.

## 5. Not modelled, and the plan

Left out for good:

* wording, layout and prefixes of messages, the `<<` operators, the usage text;
* checksums (the code never reads them) and the header fields that are only logged;
* `readVarIntSql4` (dead code);
* exit status `READ_ERR`, which `file.bad()` right after opening cannot reach;
* texts that split a keyword by white space (`CRE ATE`): `tokenPos` passes over
  blanks within a token, and a text of pieces cannot say where in a word it is cut;
* which double an integer of more than 53 bits is rounded to;
* the payload size: the code reads it for the log only. That a record that goes on
  in overflow pages is read on into the next cell is said by `NeverTruncated`;
* tests and build files, read for what they expect.

What could be added: a meaning of the texts of `SchemaParser` defined from their entries,
a second time and independently of the parse, so that `KeyAsDefined` can be stated for
every list of entries of the kinds in `MCSchemaParser`; and the way from the command line
to `WalParser`'s options, which is a correspondence by reading.
