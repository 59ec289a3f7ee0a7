------------------------------ MODULE WalParser ------------------------------
(***************************************************************************)
(* The program: main.cpp and the objects it drives.                        *)
(*                                                                         *)
(* main checks its arguments, opens the log, picks a formatter, and goes   *)
(* through the frames: read one, maybe skip it, parse its page cell by     *)
(* cell with one RecordHeaderReader per page, format every record, and     *)
(* collect the texts in a set.  Only after the last frame it prints them.  *)
(*                                                                         *)
(* The log is abstract.  A frame is its salt and its page; a page is the   *)
(* kind of its B-tree node, whether its cell pointers lie within it, and   *)
(* its cells; a cell is what RecordHeaderReader::read meets in its bytes:  *)
(*   "row"      a record, with the types of its columns and its content    *)
(*   "empty"    a record header of less than two bytes                     *)
(*   "range"    the page ends where a byte is read through the iterator    *)
(*   "overrun"  the page ends inside a variable length integer             *)
(* Formatter is the object the texts come from.                            *)
(***************************************************************************)
EXTENDS Formatter, FiniteSets, Ranks

CONSTANTS
  Files,    \* the logs --input can name
  Options,  \* the command lines
  Salts,    \* the pairs of salt1 and salt2
  Contents, \* the contents of records
  NoSalt    \* what FrameHeader's static holds before the first frame

VARIABLES
  file,        \* the log
  opts,        \* the command line
  pc,          \* where main is
  exit,        \* the exit status, once pc = "done"
  fi,          \* the frame to be read, or being parsed
  ci,          \* the cell to be read, or being formatted
  salt,        \* FrameHeader::salt1 and salt2: static, common to all frames
  reader,      \* recordReader: _headerData, its content, and _rowid
  outputData,  \* the set of texts
  printed,     \* the texts on standard output, in order
  noise        \* the streams on which something else than texts came out

(***************************************************************************)
(* Any bytes may be in a file.  A row has at least one column: a record    *)
(* header of two bytes has one type.                                       *)
(***************************************************************************)
Cells == [res: {"row", "empty", "range", "overrun"}, cols: Seq(ColumnTypes), rowid: Nat,
          data: Contents \cup {NoData}]

Pages == [node: {"leafTable", "leafIndex", "interior", "other"}, pointersFit: BOOLEAN,
          cells: Seq(Cells)]

FileType == [header: {"good", "short", "missing"}, salt: Salts,
             frames: Seq([salt: Salts, page: Pages]), tail: {"clean", "header", "page"}]

OptionsType == [args: {"good", "help", "bad"}, csv: Inputs \cup {NoInput}, sql: Inputs \cup {NoInput},
                strict: BOOLEAN, validFrames: BOOLEAN, index: BOOLEAN,
                verbose: {"no", "info", "debug"}, quiet: BOOLEAN]

ASSUME FilesAssumption == Files \subseteq FileType

ASSUME OptionsAssumption ==
  /\ Options \subseteq OptionsType
  /\ \A o \in Options : /\ o.csv # NoInput => o.csv.class = "csv"
                        /\ o.sql # NoInput => o.sql.class = "sql"

ASSUME SaltsAssumption == NoSalt \notin Salts

inputVars == <<file, opts>>
scanVars  == <<fi, ci, salt, reader, outputData>>
vars == <<file, opts, pc, exit, fi, ci, salt, reader, outputData, printed, noise, fmt, result>>

-----------------------------------------------------------------------------
Frame == file.frames[fi]
Page  == Frame.page
Cell  == Page.cells[ci]

NewReader == [cols |-> <<>>, rowid |-> 0, data |-> NoData]

(* --csv is looked at first, --sql only without it. *)
FormatterInput == IF opts.csv # NoInput THEN opts.csv ELSE opts.sql

FormatterId == IF opts.csv = NoInput /\ opts.sql # NoInput THEN "sql" ELSE "csv"

(***************************************************************************)
(* The log: --quiet wins over --verbose, errors are shown by default.      *)
(* Debug and info texts go to standard output, the errors to the other.    *)
(* The first debug texts are those of OpenInput: later ones add nothing.   *)
(***************************************************************************)
ReportLevel ==
  IF opts.quiet THEN 0
  ELSE IF opts.verbose = "debug" THEN 3
  ELSE IF opts.verbose = "info" THEN 2 ELSE 1

Err   == IF ReportLevel >= 1 THEN {"stderr"} ELSE {}
Info  == IF ReportLevel >= 2 THEN {"stdout"} ELSE {}
Debug == IF ReportLevel >= 3 THEN {"stdout"} ELSE {}

(* printOut logs every column, and dumps the bytes of a Blob by printf. *)
PrintOut(cols) ==
  (IF cols # <<>> THEN Info ELSE {})
  \cup (IF \E k \in DOMAIN cols : cols[k] = "Blob" THEN {"stdout"} ELSE {})

Done(status) ==
  /\ pc' = "done"
  /\ exit' = status

-----------------------------------------------------------------------------
(* main up to the loop. *)
ShowUsage ==
  /\ pc = "arguments"
  /\ opts.args = "help"
  /\ Done(0)
  /\ UNCHANGED <<inputVars, scanVars, printed, noise, fvars>>

RejectArguments ==
  /\ pc = "arguments"
  /\ opts.args = "bad"
  /\ Done(1)
  /\ UNCHANGED <<inputVars, scanVars, printed, noise, fvars>>

InputMissing ==
  /\ pc = "arguments"
  /\ opts.args = "good"
  /\ file.header = "missing"
  /\ noise' = noise \cup Err
  /\ Done(2)
  /\ UNCHANGED <<inputVars, scanVars, printed, fvars>>

HeaderUnreadable ==
  /\ pc = "arguments"
  /\ opts.args = "good"
  /\ file.header = "short"
  /\ noise' = noise \cup Err
  /\ Done(4)
  /\ UNCHANGED <<inputVars, scanVars, printed, fvars>>

OpenInput ==
  /\ pc = "arguments"
  /\ opts.args = "good"
  /\ file.header = "good"
  /\ noise' = noise \cup Debug
  /\ pc' = "mode"
  /\ UNCHANGED <<inputVars, exit, scanVars, printed, fvars>>

(* lenientMode(), and strictMode() over it when asked for. *)
ChooseMode ==
  /\ pc = "mode"
  /\ SetMode(opts.strict)
  /\ pc' = "input"
  /\ UNCHANGED <<inputVars, exit, scanVars, printed, noise>>

NoFormat ==
  /\ pc = "input"
  /\ FormatterInput = NoInput
  /\ noise' = noise \cup Err
  /\ Done(5)
  /\ UNCHANGED <<inputVars, scanVars, printed, fvars>>

GiveInput ==
  /\ pc = "input"
  /\ FormatterInput # NoInput
  /\ SetInput(FormatterInput)
  /\ pc' = "frame"
  /\ UNCHANGED <<inputVars, exit, scanVars, printed, noise>>

-----------------------------------------------------------------------------
(***************************************************************************)
(* Reading a frame.  salt1() and salt2() keep the value of their first     *)
(* call in a static, so that every later frame has the first one's salts.  *)
(***************************************************************************)
SaltSeen == IF salt = NoSalt THEN Frame.salt ELSE salt

IsFrameWeakValid == SaltSeen = file.salt

FrameRead == pc = "frame" /\ fi \in DOMAIN file.frames

FrameSkipped == opts.validFrames /\ ~IsFrameWeakValid

DefectNodeSkipped(node) == node # "leafTable" \/ opts.index   \* --index half done

(* The node types main does not go into; any other type byte it does. *)
NodeSkipped(node) ==
  \/ node = "interior"
  \/ node = "leafIndex" /\ ~opts.index
  \/ node = "leafTable" /\ opts.index

SkipFrame ==
  /\ FrameRead
  /\ FrameSkipped \/ NodeSkipped(Page.node)
  /\ salt' = SaltSeen
  /\ fi' = fi + 1
  /\ noise' = noise \cup Info
  /\ UNCHANGED <<inputVars, pc, exit, ci, reader, outputData, printed, fvars>>

DefectOpenPage ==   \* one recordReader for all pages
  /\ FrameRead
  /\ ~FrameSkipped
  /\ ~NodeSkipped(Page.node)
  /\ Page.pointersFit
  /\ salt' = SaltSeen
  /\ ci' = 1
  /\ pc' = "cell"
  /\ UNCHANGED <<inputVars, exit, fi, reader, outputData, printed, noise, fvars>>

OpenPage ==
  /\ FrameRead
  /\ ~FrameSkipped
  /\ ~NodeSkipped(Page.node)
  /\ Page.pointersFit
  /\ salt' = SaltSeen
  /\ reader' = NewReader
  /\ ci' = 1
  /\ pc' = "cell"
  /\ UNCHANGED <<inputVars, exit, fi, outputData, printed, noise, fvars>>

(* readPointerArray runs off the page: nothing catches the out_of_range. *)
PointersCutOff ==
  /\ FrameRead
  /\ ~FrameSkipped
  /\ ~NodeSkipped(Page.node)
  /\ ~Page.pointersFit
  /\ salt' = SaltSeen
  /\ pc' = "killed"
  /\ UNCHANGED <<inputVars, exit, fi, ci, reader, outputData, printed, noise, fvars>>

(* The last frame was the last, or the file ends within the next one. *)
EndOfFile ==
  /\ pc = "frame"
  /\ fi \notin DOMAIN file.frames
  /\ noise' = noise \cup (IF file.tail = "page" THEN Err ELSE Info)
  /\ pc' = "print"
  /\ UNCHANGED <<inputVars, exit, scanVars, printed, fvars>>

(* The stream goes bad while a frame is read. *)
ReadFailure ==
  /\ pc = "frame"
  /\ noise' = noise \cup Err
  /\ pc' = "print"
  /\ UNCHANGED <<inputVars, exit, scanVars, printed, fvars>>

-----------------------------------------------------------------------------
(***************************************************************************)
(* RecordHeaderReader::read.  Only a leaf of a table has rowids.  An empty *)
(* record header ends the call before _headerData is cleared.              *)
(***************************************************************************)
RowidRead == IF Page.node = "leafTable" THEN Cell.rowid ELSE reader.rowid

ReadInto ==
  IF Cell.res = "empty" THEN [reader EXCEPT !.rowid = RowidRead]
  ELSE [cols |-> Cell.cols, rowid |-> RowidRead, data |-> Cell.data]

DefectReadRecord ==   \* the loop moves on before the record is formatted
  /\ pc = "cell"
  /\ ci \in DOMAIN Page.cells
  /\ Cell.res \in {"row", "empty"}
  /\ reader' = ReadInto
  /\ pc' = "format"
  /\ ci' = ci + 1
  /\ UNCHANGED <<inputVars, exit, fi, salt, outputData, printed, noise, fvars>>

ReadRecord ==
  /\ pc = "cell"
  /\ ci \in DOMAIN Page.cells
  /\ Cell.res \in {"row", "empty"}
  /\ reader' = ReadInto
  /\ noise' = noise \cup PrintOut(ReadInto.cols)
                    \cup (IF Cell.res = "empty" THEN Err ELSE {})
  /\ pc' = "format"
  /\ UNCHANGED <<inputVars, exit, fi, ci, salt, outputData, printed, fvars>>

(* An out_of_range nobody catches, or an access past the page's memory. *)
RecordCutOff ==
  /\ pc = "cell"
  /\ ci \in DOMAIN Page.cells
  /\ Cell.res \in {"range", "overrun"}
  /\ pc' = "killed"
  /\ UNCHANGED <<inputVars, exit, scanVars, printed, noise, fvars>>

PageDone ==
  /\ pc = "cell"
  /\ ci \notin DOMAIN Page.cells
  /\ fi' = fi + 1
  /\ pc' = "frame"
  /\ UNCHANGED <<inputVars, exit, ci, salt, reader, outputData, printed, noise, fvars>>

-----------------------------------------------------------------------------
(* What main catches is a FormatterException; these are none. *)
Uncaught == {"FileError", "Abort"}

DefectFormatStreams ==   \* each text is printed as soon as it is there
  /\ pc = "format"
  /\ GenerateOutput(reader)
  /\ outputData' = IF result'.thrown # "no" \/ IsEmptyText(result'.out)
                   THEN outputData ELSE outputData \cup {result'.out}
  /\ printed' = IF outputData' = outputData THEN printed ELSE Append(printed, result'.out)
  /\ IF result'.thrown \in Uncaught
     THEN pc' = "killed" /\ UNCHANGED ci
     ELSE pc' = "cell" /\ ci' = ci + 1
  /\ UNCHANGED <<inputVars, exit, fi, salt, reader, noise>>

DefectFormatRetries ==   \* a cell that throws is read again
  /\ pc = "format"
  /\ GenerateOutput(reader)
  /\ outputData' = IF result'.thrown # "no" \/ IsEmptyText(result'.out)
                   THEN outputData ELSE outputData \cup {result'.out}
  /\ pc' = IF result'.thrown \in Uncaught THEN "killed" ELSE "cell"
  /\ ci' = IF result'.thrown = "no" THEN ci + 1 ELSE ci
  /\ UNCHANGED <<inputVars, exit, fi, salt, reader, printed, noise>>

(* A mismatch is logged by the formatter, an exception where it is caught. *)
FormatNoise(rec) ==
  IF result'.thrown \in Uncaught THEN {}
  ELSE IF result'.thrown # "no" \/ WrongWidth(fmt', rec) THEN Err ELSE {}

(* generateOutput, its catch block, and the emplace of what is not empty. *)
Format ==
  /\ pc = "format"
  /\ GenerateOutput(reader)
  /\ outputData' = IF result'.thrown # "no" \/ IsEmptyText(result'.out)
                   THEN outputData ELSE outputData \cup {result'.out}
  /\ noise' = noise \cup FormatNoise(reader)
  /\ IF result'.thrown \in Uncaught
     THEN pc' = "killed" /\ UNCHANGED ci
     ELSE pc' = "cell" /\ ci' = ci + 1
  /\ UNCHANGED <<inputVars, exit, fi, salt, reader, printed>>

-----------------------------------------------------------------------------
Printed == {printed[k] : k \in DOMAIN printed}

(***************************************************************************)
(* The set is printed in descending order of the texts.  That order is     *)
(* decided by names and contents the model does not have: any one will do. *)
(***************************************************************************)
PrintNext ==
  /\ pc = "print"
  /\ \E o \in outputData \ Printed : printed' = Append(printed, o)
  /\ UNCHANGED <<inputVars, pc, exit, scanVars, noise, fvars>>

Finished ==
  /\ pc = "print"
  /\ outputData \subseteq Printed
  /\ Done(0)
  /\ UNCHANGED <<inputVars, scanVars, printed, noise, fvars>>

Stopped ==
  /\ pc \in {"done", "killed"}
  /\ UNCHANGED vars

Init ==
  /\ file \in Files
  /\ opts \in Options
  /\ pc = "arguments"
  /\ exit = 0
  /\ fi = 1
  /\ ci = 1
  /\ salt = NoSalt
  /\ reader = NewReader
  /\ outputData = {}
  /\ printed = <<>>
  /\ noise = {}
  /\ fmt = NewFormatter(FormatterId)
  /\ result = NoResult

Prepare == \/ ShowUsage \/ RejectArguments \/ InputMissing \/ HeaderUnreadable
           \/ OpenInput \/ ChooseMode \/ NoFormat \/ GiveInput

Scan == \/ SkipFrame \/ OpenPage \/ PointersCutOff \/ EndOfFile \/ ReadFailure
        \/ ReadRecord \/ RecordCutOff \/ PageDone \/ Format

Next == Prepare \/ Scan \/ PrintNext \/ Finished \/ Stopped

Safe == Init /\ [][Next]_vars

(* A sequential program on an ordinary file: it waits for nothing. *)
Spec == Safe /\ WF_vars(Next)

-----------------------------------------------------------------------------
(* The data in a page, and in the pages of a log. *)
DataIn(page) == {page.cells[c].data : c \in {d \in DOMAIN page.cells : page.cells[d].res = "row"}}

LogOf(f) == [k \in DOMAIN f.frames |-> DataIn(f.frames[k].page)]

DataOfTexts(texts) == {o.data : o \in texts} \ {NoData}

Status ==
  CASE pc = "print" -> "showing"
    [] pc = "done"  -> IF exit = 0 /\ opts.args = "good" THEN "done" ELSE "failed"
    [] pc = "killed" -> "failed"
    [] OTHER -> "scanning"

R == INSTANCE Recovery
       WITH Logs <- {LogOf(f) : f \in Files}, log <- LogOf(file), pos <- fi,
            found <- DataOfTexts(outputData), shown <- DataOfTexts(Printed), status <- Status

(***************************************************************************)
(* The program implements Recovery: data is only found in the frame being  *)
(* scanned and never lost again, and standard output has all that was      *)
(* found after a successful run and nothing of it after any other one.     *)
(***************************************************************************)
Recovers == R!RSpec

PcValues == {"arguments", "mode", "input", "frame", "cell", "format", "print", "done", "killed"}

InputOK == file \in Files /\ opts \in Options

(* The frame and the cell main is at exist whenever the code uses them.    *)
ControlOK ==
  /\ pc \in PcValues
  /\ exit \in {0, 1, 2, 4, 5}
  /\ fi \in Nat \ {0}
  /\ ci \in Nat \ {0}
  /\ pc \in {"cell", "format"} => fi \in DOMAIN file.frames
  /\ pc = "format" => ci \in DOMAIN Page.cells

DataOK ==
  /\ salt \in Salts \cup {NoSalt}
  /\ reader \in [cols: Seq(ColumnTypes), rowid: Nat, data: Contents \cup {NoData}]
  /\ printed \in Seq(outputData)
  /\ noise \subseteq {"stdout", "stderr"}

(* A formatter of the class asked for, with its input once frames are read. *)
FormatterOK ==
  /\ FTypeOK
  /\ fmt.class = FormatterId
  /\ pc \in {"frame", "cell", "format"} => fmt.input = FormatterInput /\ FormatterInput # NoInput

(***************************************************************************)
(* The types of main's variables, and the bookkeeping that ties them: the  *)
(* iteration over frames and getPointerArray, and what was printed.        *)
(***************************************************************************)
TypeOK == InputOK /\ ControlOK /\ DataOK /\ FormatterOK

-----------------------------------------------------------------------------
(* The pages the command line asks for: leaves, of indexes or of tables.   *)
AskedNode == IF opts.index THEN "leafIndex" ELSE "leafTable"

(***************************************************************************)
(* A frame main goes into: one of a page asked for, or of a page of no     *)
(* known type.  With --valid-frames the salts of the first frame decide    *)
(* for all of them.                                                        *)
(***************************************************************************)
Selected(k) ==
  /\ opts.validFrames => file.frames[1].salt = file.salt
  /\ file.frames[k].page.node \in {AskedNode, "other"}

RowidOf(page, c) == IF page.node = "leafTable" THEN page.cells[c].rowid ELSE 0

RecordOf(page, c) ==
  [cols |-> page.cells[c].cols, rowid |-> RowidOf(page, c), data |-> page.cells[c].data]

RowsUpTo(page, c) == {d \in 1..c : page.cells[d].res = "row"}

(* What generateOutput is given for cell c: after an empty cell, the       *)
(* columns of the nearest row before it, or none.                          *)
Presented(page, c) ==
  IF RowsUpTo(page, c) = {} THEN [NewReader EXCEPT !.rowid = RowidOf(page, c)]
  ELSE [RecordOf(page, CHOOSE d \in RowsUpTo(page, c) : \A e \in RowsUpTo(page, c) : e <= d)
          EXCEPT !.rowid = RowidOf(page, c)]

Says(o, rec) ==
  /\ o.values = ValuesOf(rec, fmt.pk)
  /\ o.data = DataOf(rec)
  /\ o.kind = "insert" => o.table = fmt.table /\ o.columns = fmt.columns

(* Records the formatter has no reason to refuse or to leave out. *)
Deliverable(rec) ==
  /\ fmt.input.fails = "no"
  /\ ~WrongWidth(fmt, rec)
  /\ ~HasInternal(rec)
  /\ KeyChecks(fmt, rec) = {"passed"}
  /\ fmt.class = "csv" => ~IsEmptyText(Csv(<<>>, rec))

(***************************************************************************)
(* Every row of every frame that was read and selected is on standard      *)
(* output when main returns EXIT_OK, unless the formatter refuses it: no   *)
(* skipped page, failed record or empty cell costs another one its row.    *)
(***************************************************************************)
NothingLost ==
  pc = "done" /\ exit = 0 /\ opts.args = "good" =>
    \A k \in DOMAIN file.frames : k < fi /\ Selected(k) =>
      LET page == file.frames[k].page IN
      \A c \in DOMAIN page.cells :
        page.cells[c].res = "row" /\ Deliverable(RecordOf(page, c)) =>
          \E o \in Printed : Says(o, RecordOf(page, c))

(***************************************************************************)
(* Every text tells what one cell of a selected page presents, under the   *)
(* table and columns of the schema: columns never leak into another page,  *)
(* and a rowid is only combined with columns of its own page.              *)
(***************************************************************************)
NothingInvented ==
  \A o \in outputData :
    \/ o.kind = "csv" /\ o.values = <<>>
    \/ \E k \in DOMAIN file.frames :
         /\ k <= fi
         /\ Selected(k)
         /\ \E c \in DOMAIN file.frames[k].page.cells : Says(o, Presented(file.frames[k].page, c))

(***************************************************************************)
(* The column names of --csv are on standard output at most once, however  *)
(* many pages, mismatches and exceptions there were (the static header     *)
(* prefix of CSVFormatter::generateOutput and didInputChange).             *)
(***************************************************************************)
HeaderAtMostOnce ==
  \A o, p \in outputData : o.header # <<>> /\ p.header # <<>> => o = p

(* A run always ends, by an exit status or by an uncaught exception: no    *)
(* page, however malformed, keeps main's loops going for ever.             *)
Termination == <>(pc \in {"done", "killed"})

(***************************************************************************)
(* How far a run is from its end: what main has still to do, the frames or *)
(* texts it has not been through, the cells of the frame it is in, and     *)
(* whether the cell at hand is read.                                       *)
(***************************************************************************)
Stage ==
  CASE pc = "arguments" -> 5
    [] pc = "mode"      -> 4
    [] pc = "input"     -> 3
    [] pc \in {"frame", "cell", "format"} -> 2
    [] pc = "print"     -> 1
    [] OTHER            -> 0

EntriesLeft ==
  CASE Stage = 2 -> Len(file.frames) + 1 - fi
    [] Stage = 1 -> Cardinality(outputData \ Printed)
    [] OTHER -> 0

CellsLeft ==
  CASE pc = "frame" /\ fi \in DOMAIN file.frames -> Len(Page.cells) + 1
    [] pc \in {"cell", "format"} -> Len(Page.cells) + 1 - ci
    [] OTHER -> 0

Unread == IF pc = "cell" THEN 1 ELSE 0

Rank == <<Stage, EntriesLeft, CellsLeft, Unread>>

(***************************************************************************)
(* Every step comes nearer to the end of the program: no log of any length *)
(* and no exception main catches keeps its loops over frames, cells and    *)
(* texts going, or takes it back to a frame or cell it has been through.   *)
(***************************************************************************)
AlwaysNearer == [][Lower(Rank', Rank)]_vars

-----------------------------------------------------------------------------
(***************************************************************************)
(* With --valid-frames only frames with the salts of the log are parsed    *)
(* ("prase only btree frames that have valid checksum").                   *)
(***************************************************************************)
ValidFramesOnly ==
  pc \in {"cell", "format"} /\ opts.validFrames => Frame.salt = file.salt

(***************************************************************************)
(* "empty header. skipping": an empty record header yields no output, so   *)
(* every text is that of a row of the log.                                 *)
(***************************************************************************)
EmptyHeaderSkipped ==
  \A o \in outputData :
    \/ o.kind = "csv" /\ o.values = <<>>
    \/ \E k \in DOMAIN file.frames :
         \E c \in RowsUpTo(file.frames[k].page, Len(file.frames[k].page.cells)) :
           Says(o, RecordOf(file.frames[k].page, c))

=============================================================================
