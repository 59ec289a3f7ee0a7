---------------------------- MODULE WalParserProofs ----------------------------
(***************************************************************************)
(* The program, for every set of logs, command lines, inputs and names:    *)
(* its types, that its steps are steps of Recovery, and the set of texts:  *)
(* its one header line, where its other texts come from, and that none is  *)
(* lost.                                                                   *)
(***************************************************************************)
EXTENDS WalParser, FormatterProofs, NatProofs, FiniteSetTheorems

LEMMA ElementType == ASSUME NEW S, NEW s \in Seq(S), NEW k \in DOMAIN s PROVE s[k] \in S
OBVIOUS

(* The log's own types, where main is within it.                           *)
LEMMA PageType ==
  ASSUME InputOK, fi \in DOMAIN file.frames
  PROVE  /\ Frame.salt \in Salts
         /\ Page.cells \in Seq(Cells)
         /\ \A c \in DOMAIN Page.cells : Page.cells[c] \in Cells
<1>1. file \in FileType
  BY FilesAssumption DEF InputOK
<1>2. file.frames \in Seq([salt: Salts, page: Pages])
  BY <1>1 DEF FileType
<1>3. Frame \in [salt: Salts, page: Pages]
  BY <1>2, ElementType DEF Frame
<1>4. Page \in Pages
  BY <1>3 DEF Page
<1>. QED  BY <1>3, <1>4, ElementType DEF Pages

(* The texts main logs come out on the two streams. *)
LEMMA NoiseType ==
  Err \subseteq {"stderr"} /\ Info \subseteq {"stdout"} /\ Debug \subseteq {"stdout"}
    /\ \A cols : PrintOut(cols) \subseteq {"stdout"}
BY DEF Err, Info, Debug, PrintOut

(* The class of the object is that of the input it is going to get. *)
LEMMA ChosenClass ==
  ASSUME InputOK, FormatterInput # NoInput
  PROVE  FormatterInput \in Inputs /\ FormatterInput.class = FormatterId
BY OptionsAssumption DEF InputOK, OptionsType, FormatterInput, FormatterId

LEMMA InitType == Init => TypeOK
<1>. SUFFICES ASSUME Init PROVE TypeOK
  OBVIOUS
<1>1. InputOK /\ ControlOK
  BY DEF Init, InputOK, ControlOK, PcValues
<1>2. DataOK
  <2>1. <<>> \in Seq(ColumnTypes)
    OBVIOUS
  <2>2. printed \in Seq(outputData)
    BY DEF Init
  <2>. QED  BY <2>1, <2>2 DEF Init, DataOK, NewReader
<1>3. FInit /\ fmt.class = FormatterId
  BY DEF Init, FInit, NewFormatter, FormatterId
<1>4. FormatterOK
  BY <1>3, InitFormatterType DEF Init, FormatterOK
<1>. QED  BY <1>1, <1>2, <1>4 DEF TypeOK

LEMMA UnchangedFormatter == FTypeOK /\ UNCHANGED fvars => FTypeOK'
BY DEF FTypeOK, fvars

LEMMA PrepareType == ASSUME TypeOK, Prepare PROVE TypeOK'
<1>. USE NoiseType DEF TypeOK, InputOK, ControlOK, DataOK, FormatterOK, PcValues, Printed,
         FormatterInput, FormatterId, inputVars, scanVars
<1>1. CASE ShowUsage \/ RejectArguments
  BY <1>1, UnchangedFormatter DEF ShowUsage, RejectArguments, Done, fvars
<1>2. CASE InputMissing \/ HeaderUnreadable \/ NoFormat
  BY <1>2, UnchangedFormatter DEF InputMissing, HeaderUnreadable, NoFormat, Done, fvars
<1>3. CASE OpenInput
  BY <1>3, UnchangedFormatter DEF OpenInput, fvars
<1>4. CASE ChooseMode
  <2>1. opts.strict \in BOOLEAN
    BY OptionsAssumption DEF OptionsType
  <2>2. FTypeOK' /\ fmt'.class = fmt.class
    BY <1>4, <2>1 DEF ChooseMode, SetMode, FTypeOK
  <2>. QED  BY <1>4, <2>2 DEF ChooseMode
<1>5. CASE GiveInput
  <2>1. FTypeOK' /\ fmt'.class = fmt.class /\ fmt'.input = FormatterInput
    BY <1>5, ChosenClass DEF GiveInput, SetInput, FTypeOK
  <2>. QED  BY <1>5, <2>1 DEF GiveInput
<1>. QED  BY <1>1, <1>2, <1>3, <1>4, <1>5 DEF Prepare

(* Where a frame is only left behind, the formatter is not concerned.      *)
LEMMA FrameType ==
  ASSUME TypeOK, SkipFrame \/ OpenPage \/ PointersCutOff \/ EndOfFile \/ ReadFailure
  PROVE  TypeOK'
<1>. USE NoiseType DEF TypeOK, InputOK, ControlOK, DataOK, FormatterOK, PcValues, Printed,
         FormatterInput, FormatterId, inputVars, scanVars
<1>1. ASSUME FrameRead, salt' = SaltSeen PROVE salt' \in Salts \cup {NoSalt}
  BY <1>1, PageType DEF FrameRead, SaltSeen
<1>2. CASE SkipFrame
  BY <1>1, <1>2, UnchangedFormatter DEF SkipFrame, FrameRead, fvars
<1>3. CASE OpenPage
  <2>1. NewReader \in [cols: Seq(ColumnTypes), rowid: Nat, data: Contents \cup {NoData}]
    <3>1. <<>> \in Seq(ColumnTypes)
      OBVIOUS
    <3>. QED  BY <3>1 DEF NewReader
  <2>. QED  BY <1>1, <1>3, <2>1, UnchangedFormatter DEF OpenPage, FrameRead, fvars
<1>4. CASE PointersCutOff
  BY <1>1, <1>4, UnchangedFormatter DEF PointersCutOff, FrameRead, fvars
<1>5. CASE EndOfFile \/ ReadFailure
  BY <1>5, UnchangedFormatter DEF EndOfFile, ReadFailure, fvars
<1>. QED  BY <1>2, <1>3, <1>4, <1>5

LEMMA ReadIntoType ==
  ASSUME TypeOK, pc = "cell", ci \in DOMAIN Page.cells
  PROVE  ReadInto \in [cols: Seq(ColumnTypes), rowid: Nat, data: Contents \cup {NoData}]
<1>1. Cell \in Cells
  BY PageType DEF TypeOK, ControlOK, Cell
<1>2. reader \in [cols: Seq(ColumnTypes), rowid: Nat, data: Contents \cup {NoData}]
  BY DEF TypeOK, DataOK
<1>. QED  BY <1>1, <1>2 DEF Cells, ReadInto, RowidRead

LEMMA CellType ==
  ASSUME TypeOK, ReadRecord \/ RecordCutOff \/ PageDone
  PROVE  TypeOK'
<1>. USE NoiseType DEF TypeOK, InputOK, ControlOK, DataOK, FormatterOK, PcValues, Printed,
         FormatterInput, FormatterId, inputVars, scanVars
<1>1. CASE ReadRecord
  <2>1. ReadInto \in [cols: Seq(ColumnTypes), rowid: Nat, data: Contents \cup {NoData}]
    BY <1>1, ReadIntoType DEF ReadRecord
  <2>2. noise' \subseteq {"stdout", "stderr"}
    BY <1>1 DEF ReadRecord
  <2>3. ci \in DOMAIN (Page.cells)'
    BY <1>1 DEF ReadRecord, Page, Frame
  <2>. QED  BY <1>1, <2>1, <2>2, <2>3, UnchangedFormatter DEF ReadRecord, fvars
<1>2. CASE RecordCutOff
  BY <1>2, UnchangedFormatter DEF RecordCutOff, fvars
<1>3. CASE PageDone
  BY <1>3, UnchangedFormatter DEF PageDone, fvars
<1>. QED  BY <1>1, <1>2, <1>3

LEMMA FormatType == ASSUME TypeOK, Format PROVE TypeOK'
<1>. USE NoiseType DEF TypeOK, InputOK, ControlOK, DataOK, FormatterOK, PcValues, Printed,
         FormatterInput, FormatterId, inputVars, scanVars
<1>1. IsRecord(reader) /\ GenerateOutput(reader)
  BY DEF Format, IsRecord
<1>2. FTypeOK' /\ fmt'.class = fmt.class /\ fmt'.input = fmt.input
  BY <1>1, GenerateOutputType, GenerateOutputKeeps
<1>3. noise' \subseteq {"stdout", "stderr"} /\ outputData \subseteq outputData'
  BY DEF Format, FormatNoise
<1>4. printed' \in Seq(outputData')
  BY <1>3 DEF Format
<1>. QED  BY <1>2, <1>3, <1>4 DEF Format

LEMMA PrintType == ASSUME TypeOK, PrintNext \/ Finished \/ Stopped PROVE TypeOK'
<1>. USE NoiseType DEF TypeOK, InputOK, ControlOK, DataOK, FormatterOK, PcValues,
         FormatterInput, FormatterId, inputVars, scanVars
<1>1. CASE PrintNext
  BY <1>1, UnchangedFormatter DEF PrintNext, Printed, fvars
<1>2. CASE Finished
  BY <1>2, UnchangedFormatter DEF Finished, Done, Printed, fvars
<1>3. CASE Stopped
  BY <1>3, UnchangedFormatter DEF Stopped, vars, Printed, fvars, Page, Frame
<1>. QED  BY <1>1, <1>2, <1>3

LEMMA StepType == TypeOK /\ [Next]_vars => TypeOK'
<1>. SUFFICES ASSUME TypeOK, [Next]_vars PROVE TypeOK'
  OBVIOUS
<1>1. CASE UNCHANGED vars
  <2>1. UNCHANGED fvars
    BY <1>1 DEF vars, fvars
  <2>. QED  BY <1>1, <2>1, UnchangedFormatter DEF vars, TypeOK, InputOK, ControlOK, DataOK,
            FormatterOK, Printed, FormatterInput, FormatterId, Page, Frame
<1>. QED  BY <1>1, PrepareType, FrameType, CellType, FormatType, PrintType DEF Next, Scan

(***************************************************************************)
(* The types hold in every run: main never indexes a frame or a cell that  *)
(* is not there, the formatter main calls is of the class it chose and has *)
(* its input, and what is printed was collected.                           *)
(***************************************************************************)
THEOREM TypeCorrect == Spec => []TypeOK
BY InitType, StepType, PTL DEF Spec, Safe

-----------------------------------------------------------------------------
(***************************************************************************)
(* The program implements Recovery.  What that needs besides the types:    *)
(* past the arguments, the command line was good, so that reaching EXIT_OK *)
(* from the print loop is success; and what the reader of a page holds     *)
(* comes from that page.                                                   *)
(***************************************************************************)
GoodArguments == pc \notin {"arguments", "done"} => opts.args = "good"

ReaderOfPage == pc \in {"cell", "format"} => reader.data \in DataIn(Page) \cup {NoData}

RInv == TypeOK /\ GoodArguments /\ ReaderOfPage

LEMMA InitRInv == Init => RInv
BY InitType DEF Init, RInv, GoodArguments, ReaderOfPage

LEMMA StepRInv == RInv /\ [Next]_vars => RInv'
<1>. SUFFICES ASSUME RInv, [Next]_vars PROVE RInv'
  OBVIOUS
<1>1. TypeOK'
  BY StepType DEF RInv
<1>2. GoodArguments'
  <2>. USE DEF RInv, GoodArguments, inputVars
  <2>1. CASE Prepare
    BY <2>1 DEF Prepare, ShowUsage, RejectArguments, InputMissing, HeaderUnreadable, OpenInput,
                ChooseMode, NoFormat, GiveInput, Done
  <2>2. CASE SkipFrame \/ OpenPage \/ PointersCutOff \/ EndOfFile \/ ReadFailure
    BY <2>2 DEF SkipFrame, OpenPage, PointersCutOff, EndOfFile, ReadFailure, FrameRead
  <2>3. CASE ReadRecord \/ RecordCutOff \/ PageDone
    BY <2>3 DEF ReadRecord, RecordCutOff, PageDone
  <2>4. CASE Format
    BY <2>4 DEF Format
  <2>5. CASE PrintNext \/ Finished
    BY <2>5 DEF PrintNext, Finished, Done
  <2>6. CASE Stopped \/ UNCHANGED vars
    BY <2>6 DEF Stopped, vars
  <2>. QED  BY <2>1, <2>2, <2>3, <2>4, <2>5, <2>6 DEF Next, Scan
<1>3. ReaderOfPage'
  <2>. USE DEF RInv, ReaderOfPage, Page, Frame, inputVars, scanVars
  <2>1. CASE OpenPage
    BY <2>1 DEF OpenPage, NewReader
  <2>2. CASE ReadRecord
    <3>1. ci \in DOMAIN Page.cells /\ Cell.res \in {"row", "empty"}
      BY <2>2 DEF ReadRecord
    <3>2. Cell.res = "row" => Cell.data \in DataIn(Page)
      BY <3>1 DEF Cell, DataIn
    <3>3. reader \in [cols: Seq(ColumnTypes), rowid: Nat, data: Contents \cup {NoData}]
      BY DEF TypeOK, DataOK
    <3>4. ReadInto.data \in DataIn(Page) \cup {NoData}
      BY <2>2, <3>1, <3>2, <3>3 DEF ReadRecord, ReadInto
    <3>. QED  BY <2>2, <3>4 DEF ReadRecord
  <2>3. CASE Format
    BY <2>3 DEF Format
  <2>4. CASE Prepare
    BY <2>4 DEF Prepare, ShowUsage, RejectArguments, InputMissing, HeaderUnreadable, OpenInput,
                ChooseMode, NoFormat, GiveInput, Done
  <2>5. CASE \/ SkipFrame \/ PointersCutOff \/ EndOfFile \/ ReadFailure \/ RecordCutOff
             \/ PageDone \/ PrintNext \/ Finished
    <3>1. pc' \notin {"cell", "format"}
      BY <2>5 DEF SkipFrame, FrameRead, PointersCutOff, EndOfFile, ReadFailure, RecordCutOff,
                  PageDone, PrintNext, Finished, Done
    <3>. QED  BY <3>1
  <2>6. CASE Stopped \/ UNCHANGED vars
    BY <2>6 DEF Stopped, vars
  <2>. QED  BY <2>1, <2>2, <2>3, <2>4, <2>5, <2>6 DEF Next, Scan
<1>. QED  BY <1>1, <1>2, <1>3 DEF RInv

-----------------------------------------------------------------------------
(* The data of a new text is that of the record it was made from, or none. *)
LEMMA FormattedData ==
  ASSUME RInv, Format
  PROVE  \/ outputData' = outputData
         \/ \E o : /\ outputData' = outputData \cup {o}
                   /\ o.data \in DataIn(Page) \cup {NoData}
<1>1. FTypeOK /\ GenerateOutput(reader)
  BY DEF RInv, TypeOK, FormatterOK, Format
<1>2. CASE outputData' = outputData \cup {result'.out} /\ result'.out # Nothing
  <2>1. result'.out.data \in {NoData, reader.data}
    BY <1>1, <1>2, Outcomes DEF HeaderLine, Csv, Insert, DataOf, NoResult, Nothing
  <2>2. reader.data \in DataIn(Page) \cup {NoData}
    BY DEF RInv, ReaderOfPage, Format
  <2>. QED  BY <1>2, <2>1, <2>2
<1>. QED  BY <1>2 DEF Format, IsEmptyText

LEMMA DataAdded ==
  ASSUME NEW texts, NEW o
  PROVE  /\ o.data = NoData => DataOfTexts(texts \cup {o}) = DataOfTexts(texts)
         /\ o.data # NoData => DataOfTexts(texts \cup {o}) = DataOfTexts(texts) \cup {o.data}
BY DEF DataOfTexts

LEMMA PrintedNext ==
  ASSUME NEW o, printed' = Append(printed, o), printed \in Seq(outputData)
  PROVE  Printed' = Printed \cup {o}
BY DEF Printed

(* A step that touches neither texts nor frame is a stutter or a failure.  *)
LEMMA Unfound ==
  ASSUME UNCHANGED <<file, fi, outputData, printed>>
  PROVE  /\ LogOf(file)' = LogOf(file)
         /\ DataOfTexts(outputData)' = DataOfTexts(outputData)
         /\ DataOfTexts(Printed)' = DataOfTexts(Printed)
BY DEF LogOf, DataIn, DataOfTexts, Printed

LEMMA LogFrames ==
  ASSUME fi \in DOMAIN file.frames
  PROVE  fi \in DOMAIN LogOf(file) /\ LogOf(file)[fi] = DataIn(Page)
BY DEF LogOf, Page, Frame

LEMMA StepRefines == RInv /\ [Next]_vars => [R!RNext]_(R!rvars)
<1>. SUFFICES ASSUME RInv, [Next]_vars PROVE [R!RNext]_(R!rvars)
  OBVIOUS
<1>. USE DEF R!RNext, R!rvars, inputVars, scanVars
<1>1. CASE Prepare
  <2>1. UNCHANGED <<file, fi, outputData, printed>> /\ Status = "scanning"
    BY <1>1 DEF Prepare, ShowUsage, RejectArguments, InputMissing, HeaderUnreadable, OpenInput,
                ChooseMode, NoFormat, GiveInput, Status
  <2>2. Status' \in {"scanning", "failed"}
    BY <1>1 DEF Prepare, ShowUsage, RejectArguments, InputMissing, HeaderUnreadable, OpenInput,
                ChooseMode, NoFormat, GiveInput, Status, Done
  <2>. QED  BY <2>1, <2>2, Unfound DEF R!Fail
<1>2. CASE PointersCutOff \/ RecordCutOff
  <2>1. /\ UNCHANGED <<file, fi, outputData, printed>>
        /\ Status = "scanning"
        /\ Status' = "failed"
    BY <1>2 DEF PointersCutOff, FrameRead, RecordCutOff, Status
  <2>. QED  BY <2>1, Unfound DEF R!Fail
<1>3. CASE OpenPage \/ ReadRecord
  <2>1. /\ UNCHANGED <<file, fi, outputData, printed>>
        /\ Status = "scanning"
        /\ Status' = "scanning"
    BY <1>3 DEF OpenPage, FrameRead, ReadRecord, Status
  <2>. QED  BY <2>1, Unfound
<1>4. CASE SkipFrame \/ PageDone
  <2>1. /\ UNCHANGED <<file, outputData, printed>>
        /\ fi' = fi + 1
        /\ fi \in DOMAIN file.frames
        /\ Status = "scanning"
        /\ Status' = "scanning"
    BY <1>4 DEF SkipFrame, FrameRead, PageDone, Status, RInv, TypeOK, ControlOK
  <2>2. UNCHANGED <<LogOf(file), DataOfTexts(outputData), DataOfTexts(Printed)>>
    BY <2>1 DEF LogOf, DataIn, DataOfTexts, Printed
  <2>. QED  BY <2>1, <2>2, LogFrames DEF R!Advance
<1>5. CASE EndOfFile \/ ReadFailure
  <2>1. /\ UNCHANGED <<file, fi, outputData, printed>>
        /\ Status = "scanning"
        /\ Status' = "showing"
    BY <1>5 DEF EndOfFile, ReadFailure, Status
  <2>. QED  BY <2>1, Unfound DEF R!Publish
<1>6. CASE Format
  <2>1. /\ UNCHANGED <<file, fi, printed>>
        /\ fi \in DOMAIN file.frames
        /\ Status = "scanning"
        /\ Status' \in {"scanning", "failed"}
        /\ Status' = "failed" => outputData' = outputData
    BY <1>6 DEF Format, Uncaught, Status, RInv, TypeOK, ControlOK
  <2>2. UNCHANGED <<LogOf(file), DataOfTexts(Printed)>>
    BY <2>1 DEF LogOf, DataIn, DataOfTexts, Printed
  <2>3. CASE outputData' = outputData
    BY <2>1, <2>3, Unfound DEF R!Fail
  <2>4. ASSUME outputData' # outputData PROVE R!Find \/ UNCHANGED R!rvars
    <3>1. Status' = "scanning"
      BY <2>1, <2>4
    <3>2. PICK o : outputData' = outputData \cup {o} /\ o.data \in DataIn(Page) \cup {NoData}
      BY <1>6, <2>4, FormattedData
    <3>3. CASE o.data = NoData
      <4>1. DataOfTexts(outputData)' = DataOfTexts(outputData)
        BY <3>2, <3>3, DataAdded
      <4>. QED  BY <2>1, <2>2, <3>1, <4>1
    <3>4. CASE o.data # NoData
      <4>1. DataOfTexts(outputData)' = DataOfTexts(outputData) \cup {o.data} /\ o.data \in LogOf(file)[fi]
        BY <2>1, <3>2, <3>4, DataAdded, LogFrames
      <4>. QED  BY <2>1, <2>2, <3>1, <4>1, LogFrames DEF R!Find
    <3>. QED  BY <3>3, <3>4
  <2>. QED  BY <2>3, <2>4
<1>7. CASE PrintNext
  <2>1. PICK o \in outputData \ Printed : printed' = Append(printed, o)
    BY <1>7 DEF PrintNext
  <2>2. Printed' = Printed \cup {o}
    BY <2>1, PrintedNext DEF RInv, TypeOK, DataOK
  <2>3. /\ UNCHANGED <<file, fi, outputData>>
        /\ Status = "showing"
        /\ Status' = "showing"
    BY <1>7 DEF PrintNext, Status
  <2>4. UNCHANGED <<LogOf(file), DataOfTexts(outputData)>>
    BY <2>3 DEF LogOf, DataIn, DataOfTexts
  <2>5. CASE o.data = NoData
    <3>1. DataOfTexts(Printed)' = DataOfTexts(Printed)
      BY <2>2, <2>5, DataAdded
    <3>. QED  BY <2>3, <2>4, <3>1
  <2>6. CASE o.data # NoData
    <3>1. DataOfTexts(Printed)' = DataOfTexts(Printed) \cup {o.data}
      BY <2>2, <2>6, DataAdded
    <3>2. o.data \in DataOfTexts(outputData)
      BY <2>1, <2>6 DEF DataOfTexts
    <3>. QED  BY <2>3, <2>4, <3>1, <3>2 DEF R!Show
  <2>. QED  BY <2>5, <2>6
<1>8. CASE Finished
  <2>1. UNCHANGED <<file, fi, outputData, printed>> /\ Status = "showing" /\ opts.args = "good"
    BY <1>8 DEF Finished, Status, RInv, GoodArguments
  <2>2. Status' = "done"
    BY <1>8, <2>1 DEF Finished, Done, Status
  <2>3. Printed = outputData
    BY <1>8 DEF Finished, RInv, TypeOK, DataOK, Printed
  <2>. QED  BY <2>1, <2>2, <2>3, Unfound DEF R!Finish
<1>9. CASE Stopped \/ UNCHANGED vars
  <2>1. UNCHANGED <<file, opts, pc, exit, fi, outputData, printed>>
    BY <1>9 DEF Stopped, vars
  <2>. QED  BY <2>1, Unfound DEF Status
<1>. QED  BY <1>1, <1>2, <1>3, <1>4, <1>5, <1>6, <1>7, <1>8, <1>9 DEF Next, Scan

LEMMA InitRefines == Init => R!RInit
<1>. SUFFICES ASSUME Init PROVE R!RInit
  OBVIOUS
<1>1. LogOf(file) \in {LogOf(f) : f \in Files}
  BY DEF Init
<1>2. DataOfTexts(outputData) = {} /\ DataOfTexts(Printed) = {}
  BY DEF Init, DataOfTexts, Printed
<1>. QED  BY <1>1, <1>2 DEF Init, R!RInit, Status

(***************************************************************************)
(* Every run is a run of Recovery: data is found only in the frame that is *)
(* being scanned and never dropped, all of it is on standard output after  *)
(* a successful run, and nothing of it when main fails before.             *)
(***************************************************************************)
THEOREM Implements == Spec => Recovers
BY InitRInv, StepRInv, InitRefines, StepRefines, PTL DEF Spec, Safe, Recovers, R!RSpec

-----------------------------------------------------------------------------
(***************************************************************************)
(* No text is there before the input is given, nor while it is unparsed.   *)
(***************************************************************************)
NoneYet ==
  /\ pc \in {"arguments", "mode", "input"} => outputData = {}
  /\ fmt.inputChanged => outputData = {}

HInv == NoneYet /\ HeaderAtMostOnce

(* The header line is part of a string only if the call took the input.    *)
LEMMA HeaderWithInput ==
  ASSUME NEW rec, GenerateOutput(rec)
  PROVE  /\ ~fmt.inputChanged => result'.out.header = <<>>
         /\ fmt' = Loaded(fmt)
<1>1. ASSUME ~fmt.inputChanged PROVE result'.out.header = <<>>
  <2>1. CASE CsvOutput(Loaded(fmt), <<>>, rec)
    BY <2>1 DEF CsvOutput, Return, Throw, HeaderLine, Csv, Nothing
  <2>2. CASE SqlOutput(Loaded(fmt), rec)
    BY <2>2 DEF SqlOutput, Return, Throw, Insert, Nothing
  <2>. QED  BY <1>1, <2>1, <2>2 DEF GenerateOutput, ParseThrows
<1>. QED  BY <1>1 DEF GenerateOutput

(* A parsed input is taken as it is. *)
LEMMA LoadTakesInput ==
  ASSUME FTypeOK
  PROVE  /\ ~Loaded(fmt).inputChanged
         /\ ~fmt.inputChanged => Loaded(fmt) = fmt
BY DEF Loaded, Load, FTypeOK

(* Only Format adds a text, and only GiveInput makes the input a new one.  *)
LEMMA TextsKept ==
  ASSUME TypeOK, [Next]_vars, ~Format
  PROVE  /\ outputData' = outputData
         /\ pc' \in {"arguments", "mode", "input"} => pc \in {"arguments", "mode", "input"}
         /\ fmt'.inputChanged => fmt.inputChanged \/ pc = "input"
<1>. USE DEF inputVars, scanVars, fvars
<1>1. CASE Prepare
  <2>1. CASE ChooseMode \/ GiveInput
    <3>1. pc' \in {"input", "frame"} /\ pc \in {"mode", "input"} /\ outputData' = outputData
      BY <2>1 DEF ChooseMode, GiveInput
    <3>2. CASE ChooseMode
      <4>1. fmt' = [fmt EXCEPT !.strict = opts.strict]
        BY <3>2 DEF ChooseMode, SetMode
      <4>2. fmt'.inputChanged = fmt.inputChanged
        BY <4>1 DEF TypeOK, FormatterOK, FTypeOK
      <4>. QED  BY <3>1, <4>2
    <3>3. CASE GiveInput
      BY <3>1, <3>3 DEF GiveInput
    <3>. QED  BY <2>1, <3>2, <3>3
  <2>2. CASE \/ ShowUsage \/ RejectArguments \/ InputMissing \/ HeaderUnreadable
             \/ OpenInput \/ NoFormat
    BY <2>2 DEF ShowUsage, RejectArguments, InputMissing, HeaderUnreadable, OpenInput, NoFormat, Done
  <2>. QED  BY <1>1, <2>1, <2>2 DEF Prepare
<1>2. CASE SkipFrame \/ OpenPage \/ PointersCutOff \/ EndOfFile \/ ReadFailure
  BY <1>2 DEF SkipFrame, OpenPage, PointersCutOff, EndOfFile, ReadFailure, FrameRead
<1>3. CASE ReadRecord \/ RecordCutOff \/ PageDone
  BY <1>3 DEF ReadRecord, RecordCutOff, PageDone
<1>4. CASE PrintNext \/ Finished
  BY <1>4 DEF PrintNext, Finished, Done
<1>5. CASE Stopped \/ UNCHANGED vars
  BY <1>5 DEF Stopped, vars
<1>. QED  BY <1>1, <1>2, <1>3, <1>4, <1>5 DEF Next, Scan

LEMMA StepHInv == TypeOK /\ HInv /\ [Next]_vars => HInv'
<1>. SUFFICES ASSUME TypeOK, HInv, [Next]_vars PROVE HInv'
  OBVIOUS
<1>1. CASE ~Format
  BY <1>1, TextsKept DEF HInv, NoneYet, HeaderAtMostOnce
<1>2. CASE Format
  <2>1. FTypeOK /\ GenerateOutput(reader) /\ pc' \in {"cell", "killed"}
    BY <1>2 DEF TypeOK, FormatterOK, Format
  <2>2. NoneYet'
    BY <2>1, HeaderWithInput, LoadTakesInput DEF NoneYet
  <2>3. outputData' \in {outputData, outputData \cup {result'.out}}
    BY <1>2 DEF Format
  <2>. SUFFICES ASSUME NEW o \in outputData', NEW p \in outputData', o.header # <<>>, p.header # <<>>
                PROVE  o = p
    BY <2>2 DEF HInv, HeaderAtMostOnce
  <2>4. CASE fmt.inputChanged
    <3>1. outputData = {}
      BY <2>4 DEF HInv, NoneYet
    <3>. QED  BY <2>3, <3>1
  <2>5. CASE ~fmt.inputChanged
    <3>1. result'.out.header = <<>>
      BY <2>1, <2>5, HeaderWithInput
    <3>2. o \in outputData /\ p \in outputData
      BY <2>3, <3>1
    <3>. QED  BY <3>2 DEF HInv, HeaderAtMostOnce
  <2>. QED  BY <2>4, <2>5
<1>. QED  BY <1>1, <1>2

LEMMA InitHInv == Init => HInv
BY DEF Init, HInv, NoneYet, HeaderAtMostOnce, NewFormatter

(***************************************************************************)
(* The column names go out at most once, whatever is in the log and        *)
(* however many of its records fail.                                       *)
(***************************************************************************)
THEOREM OneHeader == Spec => []HeaderAtMostOnce
<1>1. HInv => HeaderAtMostOnce
  BY DEF HInv
<1>. QED  BY <1>1, InitType, StepType, InitHInv, StepHInv, PTL DEF Spec, Safe

-----------------------------------------------------------------------------
(***************************************************************************)
(* NothingInvented.  The reader holds what is presented for the last cell  *)
(* it has read: ReaderOfCell follows it from cell to cell, with the empty  *)
(* ones, and SaltOfFirst says what --valid-frames compares.                *)
(***************************************************************************)
SaltOfFirst ==
  /\ salt = NoSalt => fi = 1
  /\ salt # NoSalt => salt = file.frames[1].salt

PageSelected == pc \in {"cell", "format"} => salt # NoSalt /\ Selected(fi)

LastRow(d, n) == d \in RowsUpTo(Page, n) /\ \A e \in RowsUpTo(Page, n) : e <= d

ReaderAfter(n) ==
  \/ RowsUpTo(Page, n) = {} /\ reader.cols = <<>> /\ reader.data = NoData
  \/ \E d : LastRow(d, n) /\ reader.cols = Page.cells[d].cols /\ reader.data = Page.cells[d].data

ReaderOfCell ==
  /\ pc \in {"cell", "format"} /\ Page.node # "leafTable" => reader.rowid = 0
  /\ pc = "cell" => ReaderAfter(ci - 1)
  /\ pc = "format" => ReaderAfter(ci) /\ reader.rowid = RowidOf(Page, ci)

PInv == TypeOK /\ SaltOfFirst /\ PageSelected /\ ReaderOfCell

(* Steps that leave a page alone, or are in none. *)
LEMMA PageKept ==
  ASSUME UNCHANGED <<file, fi>>
  PROVE  /\ Page' = Page
         /\ \A n : RowsUpTo(Page, n)' = RowsUpTo(Page, n)
BY DEF Page, Frame, RowsUpTo

LEMMA SelectedKept ==
  ASSUME UNCHANGED <<file, opts>>, NEW k
  PROVE  Selected(k)' <=> Selected(k)
BY DEF Selected, AskedNode

LEMMA InitPInv == Init => PInv
BY InitType DEF Init, PInv, SaltOfFirst, PageSelected, ReaderOfCell

(* The salts a frame is compared by are those of the first. *)
LEMMA SaltStep ==
  ASSUME PInv, FrameRead, salt' = SaltSeen, file' = file
  PROVE  salt' # NoSalt /\ salt' = file.frames[1].salt
<1>1. Frame.salt \in Salts
  BY PageType DEF PInv, TypeOK, FrameRead
<1>. QED  BY <1>1, SaltsAssumption DEF PInv, SaltOfFirst, FrameRead, SaltSeen, Frame

LEMMA ReadStep ==
  ASSUME PInv, ReadRecord
  PROVE  /\ ReaderAfter(ci)'
         /\ reader'.rowid = RowidOf(Page, ci)'
         /\ Page.node # "leafTable" => reader'.rowid = 0
<1>1. UNCHANGED <<file, fi, ci>> /\ ci \in DOMAIN Page.cells /\ ci \in Nat \ {0} /\ reader' = ReadInto
  BY DEF ReadRecord, inputVars, PInv, TypeOK, ControlOK
<1>2. Page' = Page /\ \A n : RowsUpTo(Page, n)' = RowsUpTo(Page, n)
  BY <1>1, PageKept
<1>3. reader \in [cols: Seq(ColumnTypes), rowid: Nat, data: Contents \cup {NoData}]
  BY DEF PInv, TypeOK, DataOK
<1>4. ReaderAfter(ci - 1) /\ (Page.node # "leafTable" => reader.rowid = 0)
  BY DEF ReadRecord, PInv, ReaderOfCell
<1>5. CASE Cell.res = "empty"
  <2>1. reader'.cols = reader.cols /\ reader'.data = reader.data /\ reader'.rowid = RowidRead
    BY <1>1, <1>3, <1>5 DEF ReadInto
  <2>2. RowsUpTo(Page, ci) = RowsUpTo(Page, ci - 1)
    BY <1>1, <1>5 DEF RowsUpTo, Cell
  <2>. QED  BY <1>1, <1>2, <1>4, <2>1, <2>2 DEF ReaderAfter, LastRow, RowidRead, RowidOf, Cell
<1>6. CASE Cell.res = "row"
  <2>1. /\ reader'.cols = Page.cells[ci].cols
        /\ reader'.data = Page.cells[ci].data
        /\ reader'.rowid = RowidRead
    BY <1>1, <1>6 DEF ReadInto, Cell
  <2>2. LastRow(ci, ci)
    BY <1>1, <1>6 DEF LastRow, RowsUpTo, Cell
  <2>3. LastRow(ci, ci)'
    BY <1>1, <1>2, <2>2 DEF LastRow
  <2>. QED  BY <1>1, <1>2, <1>4, <2>1, <2>3 DEF ReaderAfter, RowidRead, RowidOf, Cell
<1>. QED  BY <1>5, <1>6 DEF ReadRecord

LEMMA StepPInv == PInv /\ [Next]_vars => PInv'
<1>. SUFFICES ASSUME PInv, [Next]_vars PROVE PInv'
  OBVIOUS
<1>. USE DEF inputVars, scanVars
<1>1. TypeOK'
  BY StepType DEF PInv
<1>2. CASE Prepare
  <2>1. pc' \notin {"cell", "format"} /\ UNCHANGED <<file, fi, salt>>
    BY <1>2 DEF Prepare, ShowUsage, RejectArguments, InputMissing, HeaderUnreadable, OpenInput,
                ChooseMode, NoFormat, GiveInput, Done
  <2>. QED  BY <1>1, <2>1 DEF PInv, SaltOfFirst, PageSelected, ReaderOfCell
<1>3. CASE SkipFrame \/ PointersCutOff
  <2>1. pc' \notin {"cell", "format"} /\ file' = file /\ salt' = SaltSeen /\ FrameRead
    BY <1>3 DEF SkipFrame, PointersCutOff, FrameRead
  <2>. QED  BY <1>1, <2>1, SaltStep DEF PInv, SaltOfFirst, PageSelected, ReaderOfCell
<1>4. CASE OpenPage
  <2>1. /\ UNCHANGED <<file, opts, fi>> /\ salt' = SaltSeen /\ FrameRead
        /\ pc' = "cell" /\ ci' = 1 /\ reader' = NewReader
    BY <1>4 DEF OpenPage
  <2>2. salt' # NoSalt /\ salt' = file.frames[1].salt
    BY <2>1, SaltStep
  <2>3. Selected(fi)
    <3>1. Page.node \in {"leafTable", "leafIndex", "interior", "other"}
      <4>1. file.frames \in Seq([salt: Salts, page: Pages])
        BY FilesAssumption DEF PInv, TypeOK, InputOK, FileType
      <4>2. Frame \in [salt: Salts, page: Pages]
        BY <2>1, <4>1, ElementType DEF Frame, FrameRead
      <4>. QED  BY <4>2 DEF Page, Pages
    <3>2. opts.validFrames => file.frames[1].salt = file.salt
      BY <1>4, <2>1, <2>2 DEF OpenPage, FrameSkipped, IsFrameWeakValid
    <3>3. opts.index \in BOOLEAN
      BY OptionsAssumption DEF PInv, TypeOK, InputOK, OptionsType
    <3>. QED  BY <1>4, <3>1, <3>2, <3>3 DEF OpenPage, NodeSkipped, Selected, AskedNode, Page, Frame
  <2>4. RowsUpTo(Page, 0) = {}
    BY DEF RowsUpTo
  <2>5. ReaderAfter(ci - 1)' /\ reader'.rowid = 0
    BY <2>1, <2>4, PageKept DEF ReaderAfter, NewReader
  <2>. QED  BY <1>1, <2>1, <2>2, <2>3, <2>5, SelectedKept DEF PInv, SaltOfFirst, PageSelected, ReaderOfCell
<1>5. CASE ReadRecord
  <2>1. UNCHANGED <<file, opts, fi, salt>> /\ pc' = "format" /\ pc = "cell"
    BY <1>5 DEF ReadRecord
  <2>2. Page' = Page
    BY <2>1, PageKept
  <2>. QED  BY <1>1, <1>5, <2>1, <2>2, ReadStep, SelectedKept
            DEF PInv, SaltOfFirst, PageSelected, ReaderOfCell
<1>6. CASE Format
  <2>1. /\ UNCHANGED <<file, opts, fi, salt, reader>> /\ pc = "format"
        /\ \/ pc' = "killed"
           \/ pc' = "cell" /\ ci' = ci + 1
    BY <1>6 DEF Format
  <2>2. Page' = Page /\ \A n : RowsUpTo(Page, n)' = RowsUpTo(Page, n)
    BY <2>1, PageKept
  <2>3. ReaderAfter(ci) /\ ci \in Nat
    BY <2>1 DEF PInv, ReaderOfCell, TypeOK, ControlOK
  <2>4. pc' = "cell" => ReaderAfter(ci - 1)'
    <3>1. ci + 1 - 1 = ci
      BY <2>3
    <3>. QED  BY <2>1, <2>2, <2>3, <3>1 DEF ReaderAfter, LastRow
  <2>. QED  BY <1>1, <2>1, <2>2, <2>4, SelectedKept DEF PInv, SaltOfFirst, PageSelected, ReaderOfCell
<1>7. CASE RecordCutOff \/ EndOfFile \/ ReadFailure \/ PrintNext \/ Finished
  <2>1. pc' \notin {"cell", "format"} /\ UNCHANGED <<file, fi, salt>>
    BY <1>7 DEF RecordCutOff, EndOfFile, ReadFailure, PrintNext, Finished, Done
  <2>. QED  BY <1>1, <2>1 DEF PInv, SaltOfFirst, PageSelected, ReaderOfCell
<1>8. CASE PageDone
  <2>1. pc' = "frame" /\ UNCHANGED <<file, salt>> /\ salt # NoSalt
    BY <1>8 DEF PageDone, PInv, PageSelected
  <2>. QED  BY <1>1, <2>1 DEF PInv, SaltOfFirst, PageSelected, ReaderOfCell
<1>9. CASE Stopped \/ UNCHANGED vars
  BY <1>1, <1>9, PageKept, SelectedKept
     DEF Stopped, vars, PInv, SaltOfFirst, PageSelected, ReaderOfCell, ReaderAfter, LastRow, RowidOf
<1>. QED  BY <1>2, <1>3, <1>4, <1>5, <1>6, <1>7, <1>8, <1>9 DEF Next, Scan

(* What Presented picks is what the reader holds.                          *)
LEMMA PresentedReader ==
  ASSUME PInv, pc = "format"
  PROVE  reader = Presented(Page, ci)
<1>1. reader \in [cols: Seq(ColumnTypes), rowid: Nat, data: Contents \cup {NoData}]
  BY DEF PInv, TypeOK, DataOK
<1>2. ReaderAfter(ci) /\ reader.rowid = RowidOf(Page, ci)
  BY DEF PInv, ReaderOfCell
<1>3. CASE RowsUpTo(Page, ci) = {}
  BY <1>1, <1>2, <1>3 DEF Presented, NewReader, ReaderAfter, LastRow
<1>4. ASSUME NEW d, LastRow(d, ci), reader.cols = Page.cells[d].cols, reader.data = Page.cells[d].data
      PROVE  reader = Presented(Page, ci)
  <2>1. RowsUpTo(Page, ci) \subseteq Nat
    <3>1. ci \in Nat
      BY DEF PInv, TypeOK, ControlOK
    <3>. QED  BY <3>1 DEF RowsUpTo
  <2>2. (CHOOSE e \in RowsUpTo(Page, ci) : \A b \in RowsUpTo(Page, ci) : b <= e) = d
    BY <1>4, <2>1 DEF LastRow
  <2>3. RowsUpTo(Page, ci) # {}
    BY <1>4 DEF LastRow
  <2>4. Presented(Page, ci) = [RecordOf(Page, d) EXCEPT !.rowid = RowidOf(Page, ci)]
    BY <2>2, <2>3 DEF Presented
  <2>. QED  BY <1>1, <1>2, <1>4, <2>4 DEF RecordOf
<1>. QED  BY <1>2, <1>3, <1>4 DEF ReaderAfter

(* The object once its input is taken; before that no text is there.       *)
TInv == PInv /\ HInv /\ Current /\ NothingInvented

LEMMA CurrentStep ==
  ASSUME TypeOK, Current, [Next]_vars
  PROVE  /\ Current'
         /\ ~Format => fmt' = fmt \/ pc \in {"mode", "input"}
<1>. USE DEF fvars
<1>1. FTypeOK
  BY DEF TypeOK, FormatterOK
<1>2. CASE ChooseMode
  <2>1. opts.strict \in BOOLEAN
    BY OptionsAssumption DEF TypeOK, InputOK, OptionsType
  <2>. QED  BY <1>1, <1>2, <2>1, StepCurrent DEF ChooseMode, FNext
<1>3. CASE GiveInput
  BY <1>1, <1>3, ChosenClass, StepCurrent DEF GiveInput, FNext, TypeOK
<1>4. CASE Format
  BY <1>1, <1>4, GenerateOutputCurrent DEF Format, Current
<1>5. ASSUME UNCHANGED fvars PROVE Current' /\ fmt' = fmt
  BY <1>1, <1>5, StepCurrent
<1>6. CASE ShowUsage \/ RejectArguments \/ InputMissing \/ HeaderUnreadable \/ OpenInput \/ NoFormat
  BY <1>5, <1>6 DEF ShowUsage, RejectArguments, InputMissing, HeaderUnreadable, OpenInput, NoFormat
<1>7. CASE SkipFrame \/ OpenPage \/ PointersCutOff \/ EndOfFile \/ ReadFailure
  BY <1>5, <1>7 DEF SkipFrame, OpenPage, PointersCutOff, EndOfFile, ReadFailure
<1>8. CASE ReadRecord \/ RecordCutOff \/ PageDone \/ PrintNext \/ Finished
  BY <1>5, <1>8 DEF ReadRecord, RecordCutOff, PageDone, PrintNext, Finished
<1>9. CASE Stopped \/ UNCHANGED vars
  BY <1>5, <1>9 DEF Stopped, vars
<1>. QED  BY <1>2, <1>3, <1>4, <1>6, <1>7, <1>8, <1>9 DEF Next, Prepare, Scan

(* A CSV line says its record: no schema of a CSV formatter has a key.      *)
LEMMA CsvSays ==
  ASSUME TypeOK, Current, Format, fmt.class = "csv", NEW header, NEW o, o = Csv(header, reader)
  PROVE  Says(o, reader)'
<1>1. FTypeOK /\ GenerateOutput(reader) /\ reader' = reader
  BY DEF TypeOK, FormatterOK, Format
<1>2. fmt' = Load(fmt') /\ fmt'.input = fmt.input
  BY <1>1, GenerateOutputCurrent, GenerateOutputKeeps
<1>3. fmt'.input \in Inputs /\ fmt'.input.class = "csv"
  BY <1>2, ChosenClass DEF TypeOK, FormatterOK, Format
<1>4. fmt'.input.pk = NoPk
  BY <1>3, InputsAssumption
<1>5. fmt' \in [class: {"csv", "sql"}, input: Inputs \cup {NoInput}, inputChanged: BOOLEAN,
                strict: BOOLEAN, table: Names \cup {NoName}, columns: Seq(Names), pk: Nat]
  <2>1. IsRecord(reader)
    BY DEF TypeOK, DataOK, IsRecord
  <2>. QED  BY <1>1, <2>1, GenerateOutputType DEF FTypeOK
<1>6. fmt'.pk = NoPk
  BY <1>2, <1>4, <1>5 DEF Load
<1>. QED  BY <1>1, <1>6 DEF Csv, Says

(* A new text is a header line or says what the reader holds. *)
LEMMA NewText ==
  ASSUME TypeOK, Current, Format
  PROVE  \/ outputData' = outputData
         \/ \E o : /\ outputData' = outputData \cup {o}
                   /\ \/ o.kind = "csv" /\ o.values = <<>>
                      \/ Says(o, reader)'
<1>. PICK o : o = result'.out
  OBVIOUS
<1>1. FTypeOK /\ GenerateOutput(reader) /\ reader' = reader
  BY DEF TypeOK, FormatterOK, Format
<1>2. fmt' = Loaded(fmt) /\ fmt' = Load(fmt') /\ fmt'.input = fmt.input /\ fmt'.class = fmt.class
  BY <1>1, GenerateOutputCurrent, GenerateOutputKeeps DEF GenerateOutput
<1>3. CASE result'.thrown # "no" \/ result' = NoResult
  BY <1>3 DEF Format, NoResult, IsEmptyText
<1>4. ASSUME NEW header, fmt.class = "csv", o = HeaderLine(header)
      PROVE  o.kind = "csv" /\ o.values = <<>>
  BY <1>4 DEF HeaderLine
<1>5. ASSUME NEW header, fmt.class = "csv", o = Csv(header, reader)
      PROVE  Says(o, reader)'
  BY <1>5, CsvSays
<1>6. ASSUME o = Insert(Loaded(fmt), reader)
      PROVE  Says(o, reader)'
  BY <1>1, <1>2, <1>6 DEF Insert, Says
<1>7. \A e \in Thrown : e # "no"
  BY DEF Thrown, ParseErrors
<1>. QED  BY <1>1, <1>3, <1>4, <1>5, <1>6, <1>7, Outcomes DEF Format

(* What a text must say of a record depends on the formatter alone. *)
LEMMA SaysKept ==
  ASSUME fmt' = fmt, NEW o, NEW rec
  PROVE  Says(o, rec)' <=> Says(o, rec)
BY DEF Says

LEMMA StepTInv == TInv /\ [Next]_vars => TInv'
<1>. SUFFICES ASSUME TInv, [Next]_vars PROVE TInv'
  OBVIOUS
<1>1. PInv' /\ HInv' /\ Current'
  BY StepPInv, StepHInv, CurrentStep DEF TInv, PInv
<1>. DEFINE FromCell(o) ==
       \E k \in DOMAIN file.frames :
         /\ k <= fi
         /\ Selected(k)
         /\ \E c \in DOMAIN file.frames[k].page.cells : Says(o, Presented(file.frames[k].page, c))
<1>2. UNCHANGED <<file, opts>> /\ fi' \in {fi, fi + 1} /\ fi \in Nat
  <2>. USE DEF inputVars, scanVars
  <2>1. fi \in Nat
    BY DEF TInv, PInv, TypeOK, ControlOK
  <2>2. CASE Prepare
    BY <2>1, <2>2 DEF Prepare, ShowUsage, RejectArguments, InputMissing, HeaderUnreadable, OpenInput,
                ChooseMode, NoFormat, GiveInput
  <2>3. CASE SkipFrame \/ OpenPage \/ PointersCutOff \/ EndOfFile \/ ReadFailure
    BY <2>1, <2>3 DEF SkipFrame, OpenPage, PointersCutOff, EndOfFile, ReadFailure
  <2>4. CASE ReadRecord \/ RecordCutOff \/ PageDone \/ Format \/ PrintNext \/ Finished
    BY <2>1, <2>4 DEF ReadRecord, RecordCutOff, PageDone, Format, PrintNext, Finished
  <2>5. CASE Stopped \/ UNCHANGED vars
    BY <2>1, <2>5 DEF Stopped, vars
  <2>. QED  BY <2>2, <2>3, <2>4, <2>5 DEF Next, Scan
<1>3. \A k : Selected(k)' <=> Selected(k)
  BY <1>2, SelectedKept
<1>4. ASSUME NEW o \in outputData PROVE (o.kind = "csv" /\ o.values = <<>>) \/ FromCell(o)'
  <2>1. fmt' = fmt
    <3>1. ~fmt.inputChanged /\ pc \notin {"mode", "input"}
      BY <1>4 DEF TInv, HInv, NoneYet
    <3>2. CASE Format
      BY <3>1, <3>2 DEF Format, GenerateOutput, Loaded
    <3>. QED  BY <3>1, <3>2, CurrentStep DEF TInv, PInv
  <2>2. CASE FromCell(o)
    <3>1. PICK k \in DOMAIN file.frames :
            /\ k <= fi
            /\ Selected(k)
            /\ \E c \in DOMAIN file.frames[k].page.cells : Says(o, Presented(file.frames[k].page, c))
      BY <2>2
    <3>2. k <= fi'
      <4>1. k \in Nat
        BY FilesAssumption DEF TInv, PInv, TypeOK, InputOK, FileType
      <4>. QED  BY <1>2, <3>1, <4>1
    <3>3. PICK page : page = file.frames[k].page
      OBVIOUS
    <3>4. PICK c \in DOMAIN page.cells : Says(o, Presented(page, c))
      BY <3>1, <3>3
    <3>5. PICK rec : rec = Presented(page, c)
      OBVIOUS
    <3>6. Says(o, rec)'
      BY <2>1, <3>4, <3>5, SaysKept
    <3>7. file'.frames[k].page = page /\ k \in DOMAIN file'.frames
      BY <1>2, <3>1, <3>3
    <3>8. Says(o, Presented(page, c))'
      BY <3>5, <3>6 DEF Says
    <3>9. Says(o, Presented(file.frames[k].page, c))'
      BY <3>7, <3>8 DEF Says
    <3>10. Selected(k)'
      BY <1>3, <3>1
    <3>. QED  BY <3>2, <3>4, <3>7, <3>9, <3>10
  <2>. QED  BY <1>4, <2>2 DEF TInv, NothingInvented
<1>5. ASSUME Format, NEW o, Says(o, reader)' PROVE FromCell(o)'
  <2>1. UNCHANGED <<file, fi, reader>> /\ pc = "format" /\ fi \in DOMAIN file.frames
        /\ ci \in DOMAIN Page.cells
    BY <1>5 DEF Format, inputVars, TInv, PInv, TypeOK, ControlOK
  <2>2. reader = Presented(Page, ci) /\ Selected(fi)
    BY <2>1, PresentedReader DEF TInv, PInv, PageSelected
  <2>3. PICK k, c, page, rec : k = fi /\ c = ci /\ page = Page /\ rec = reader
    OBVIOUS
  <2>4. rec = Presented(page, c) /\ Selected(k)'
    BY <1>3, <2>2, <2>3
  <2>5. Says(o, rec)'
    BY <1>5, <2>1, <2>3 DEF Says
  <2>6. file'.frames[k].page = page /\ k \in DOMAIN file'.frames /\ c \in DOMAIN page.cells
    BY <2>1, <2>3 DEF Page, Frame
  <2>7. Says(o, Presented(file.frames[k].page, c))'
    BY <2>4, <2>5, <2>6 DEF Says
  <2>8. k <= fi'
    BY <1>2, <2>1, <2>3
  <2>. QED  BY <2>4, <2>6, <2>7, <2>8
<1>6. NothingInvented'
  <2>1. CASE Format
    <3>1. CASE outputData' = outputData
      BY <1>4, <3>1 DEF NothingInvented
    <3>2. ASSUME outputData' # outputData
          PROVE  \E o : /\ outputData' = outputData \cup {o}
                        /\ (o.kind = "csv" /\ o.values = <<>>) \/ FromCell(o)'
      <4>1. PICK o : /\ outputData' = outputData \cup {o}
                     /\ \/ o.kind = "csv" /\ o.values = <<>>
                        \/ Says(o, reader)'
        BY <2>1, <3>2, NewText DEF TInv, PInv
      <4>. QED  BY <1>5, <2>1, <4>1
    <3>. QED  BY <1>4, <3>1, <3>2 DEF NothingInvented
  <2>2. CASE ~Format
    BY <1>4, <2>2, TextsKept DEF NothingInvented, TInv, PInv
  <2>. QED  BY <2>1, <2>2
<1>. QED  BY <1>1, <1>6 DEF TInv

LEMMA InitTInv == Init => TInv
<1>. SUFFICES ASSUME Init PROVE TInv
  OBVIOUS
<1>1. fmt.input = NoInput /\ outputData = {}
  BY DEF Init, NewFormatter
<1>. QED  BY <1>1, InitPInv, InitHInv DEF TInv, Current, NothingInvented

(***************************************************************************)
(* Every text that was collected says what one cell of a selected page     *)
(* presents, under the table and columns of the schema: nothing leaks from *)
(* one page into another, nor from a skipped frame into the output.        *)
(***************************************************************************)
THEOREM TextsFromCells == Spec => []NothingInvented
<1>1. TInv => NothingInvented
  BY DEF TInv
<1>. QED  BY <1>1, InitTInv, StepTInv, PTL DEF Spec, Safe

-----------------------------------------------------------------------------
(***************************************************************************)
(* NothingLost.  What is behind main is told: the pages before fi, and the *)
(* cells of the page at fi before ci.  What Deliverable and Says mean is   *)
(* settled when the input is parsed, by the first record: Untouched says   *)
(* that until then no selected page behind main had a cell to tell.        *)
(***************************************************************************)
RowTold(page, c) ==
  page.cells[c].res = "row" /\ Deliverable(RecordOf(page, c)) =>
    \E o \in outputData : Says(o, RecordOf(page, c))

Behind ==
  \A k \in DOMAIN file.frames : k < fi /\ Selected(k) =>
    \A c \in DOMAIN file.frames[k].page.cells : RowTold(file.frames[k].page, c)

CellsBehind == pc \in {"cell", "format"} => \A c \in DOMAIN Page.cells : c < ci => RowTold(Page, c)

Untouched ==
  fmt.inputChanged \/ pc \in {"arguments", "mode", "input"} =>
    /\ \A k \in DOMAIN file.frames : k < fi /\ Selected(k) => DOMAIN file.frames[k].page.cells = {}
    /\ pc \in {"cell", "format"} => ci = 1

AllShown == pc = "done" /\ exit = 0 /\ opts.args = "good" => outputData \subseteq Printed

LInv == PInv /\ Current /\ Behind /\ CellsBehind /\ Untouched /\ AllShown

LEMMA InitLInv == Init => LInv
<1>. SUFFICES ASSUME Init PROVE LInv
  OBVIOUS
<1>1. \A k \in DOMAIN file.frames : ~(k < 1)
  BY FilesAssumption DEF Init, FileType
<1>. QED  BY <1>1, InitTInv DEF Init, LInv, TInv, Behind, CellsBehind, Untouched, AllShown

(* A record that can be delivered is, and the loop goes on after it.       *)
LEMMA Delivered ==
  ASSUME TypeOK, Current, Format, Deliverable(reader)'
  PROVE  \E o \in outputData' : Says(o, reader)'
<1>. PICK o : o = result'.out
  OBVIOUS
<1>1. FTypeOK /\ GenerateOutput(reader) /\ reader' = reader
  BY DEF TypeOK, FormatterOK, Format
<1>2. fmt' = Loaded(fmt) /\ fmt'.input = fmt.input /\ fmt'.class = fmt.class
  BY <1>1, GenerateOutputKeeps DEF GenerateOutput
<1>3. /\ ~ParseThrows(fmt)
      /\ ~WrongWidth(Loaded(fmt), reader)
      /\ ~HasInternal(reader)
      /\ KeyChecks(Loaded(fmt), reader) = {"passed"}
      /\ fmt.class = "csv" => ~IsEmptyText(Csv(<<>>, reader))
  <2>1. ~ParseThrows(fmt)
    BY <1>1, <1>2 DEF Deliverable, ParseThrows
  <2>2. ~WrongWidth(Loaded(fmt), reader)
    BY <1>1, <1>2 DEF Deliverable, WrongWidth
  <2>3. ~HasInternal(reader)
    BY <1>1, <1>2 DEF Deliverable, HasInternal
  <2>4. KeyChecks(Loaded(fmt), reader) = {"passed"}
    BY <1>1, <1>2 DEF Deliverable, KeyChecks
  <2>5. fmt.class = "csv" => ~IsEmptyText(Csv(<<>>, reader))
    BY <1>1, <1>2 DEF Deliverable
  <2>. QED  BY <2>1, <2>2, <2>3, <2>4, <2>5
<1>4. CASE fmt.class = "csv"
  <2>1. PICK header : result' = [out |-> Csv(header, reader), thrown |-> "no"]
    BY <1>1, <1>3, <1>4 DEF GenerateOutput, CsvOutput, Return
  <2>2. ~IsEmptyText(o)
    BY <1>3, <1>4, <2>1 DEF IsEmptyText, Csv, Nothing
  <2>3. o \in outputData'
    BY <2>1, <2>2 DEF Format
  <2>4. Says(o, reader)'
    BY <1>1, <1>4, <2>1, CsvSays DEF Format
  <2>. QED  BY <2>3, <2>4
<1>5. CASE fmt.class = "sql"
  <2>1. result' = [out |-> Insert(Loaded(fmt), reader), thrown |-> "no"]
    BY <1>1, <1>3, <1>5 DEF GenerateOutput, SqlOutput, Return
  <2>2. ~IsEmptyText(o)
    BY <2>1 DEF IsEmptyText, Insert, Nothing
  <2>3. o \in outputData'
    BY <2>1, <2>2 DEF Format
  <2>4. Says(o, reader)'
    BY <1>1, <1>2, <2>1 DEF Insert, Says
  <2>. QED  BY <2>3, <2>4
<1>. QED  BY <1>1, <1>4, <1>5 DEF FTypeOK

(* Where the object does not change, nothing told is untold.               *)
LEMMA ToldKept ==
  ASSUME fmt' = fmt, outputData \subseteq outputData', NEW page, NEW c, RowTold(page, c)
  PROVE  RowTold(page, c)'
<1>1. PICK rec : rec = RecordOf(page, c)
  OBVIOUS
<1>2. rec' = rec /\ RecordOf(page, c)' = rec
  BY <1>1 DEF RecordOf, RowidOf
<1>3. Deliverable(rec)' => Deliverable(rec)
  BY DEF Deliverable, WrongWidth, KeyChecks
<1>4. \A o : Says(o, rec) => Says(o, rec)'
  BY DEF Says
<1>. QED  BY <1>1, <1>2, <1>3, <1>4 DEF RowTold

(* The object changes only before any selected cell is behind main.        *)
LEMMA ObjectSettled ==
  ASSUME TypeOK, Current, [Next]_vars
  PROVE  /\ fmt' = fmt \/ fmt.inputChanged \/ pc \in {"mode", "input"}
         /\ fmt'.inputChanged => fmt.inputChanged \/ pc = "input"
         /\ outputData \subseteq outputData'
<1>1. CASE Format
  <2>1. FTypeOK /\ GenerateOutput(reader)
    BY <1>1 DEF TypeOK, FormatterOK, Format
  <2>. QED  BY <1>1, <2>1, HeaderWithInput, LoadTakesInput DEF Format
<1>2. CASE ~Format
  BY <1>2, CurrentStep, TextsKept
<1>. QED  BY <1>1, <1>2

(* Where main goes on to the next frame. *)
LEMMA FramesInOrder ==
  ASSUME TypeOK, [Next]_vars
  PROVE  /\ UNCHANGED <<file, opts>>
         /\ fi' = fi \/ ((SkipFrame \/ PageDone) /\ fi' = fi + 1)
<1>. USE DEF inputVars, scanVars
<1>1. CASE Prepare
  BY <1>1 DEF Prepare, ShowUsage, RejectArguments, InputMissing, HeaderUnreadable, OpenInput,
              ChooseMode, NoFormat, GiveInput
<1>2. CASE SkipFrame \/ OpenPage \/ PointersCutOff \/ EndOfFile \/ ReadFailure
  BY <1>2 DEF SkipFrame, OpenPage, PointersCutOff, EndOfFile, ReadFailure
<1>3. CASE ReadRecord \/ RecordCutOff \/ PageDone \/ Format \/ PrintNext \/ Finished
  BY <1>3 DEF ReadRecord, RecordCutOff, PageDone, Format, PrintNext, Finished
<1>4. CASE Stopped \/ UNCHANGED vars
  BY <1>4 DEF Stopped, vars
<1>. QED  BY <1>1, <1>2, <1>3, <1>4 DEF Next, Scan

(* How main comes to a cell, and how it gets there before the input is parsed. *)
LEMMA CellsInOrder ==
  ASSUME TypeOK, [Next]_vars
  PROVE  /\ pc' \in {"cell", "format"} => fi' = fi /\ fi \in DOMAIN file.frames
         /\ pc' \in {"cell", "format"} =>
              \/ OpenPage /\ ci' = 1
              \/ pc \in {"cell", "format"} /\ ci' = ci /\ ~Format
              \/ Format /\ ci' = ci + 1
         /\ pc' \in {"arguments", "mode", "input"} => pc \in {"arguments", "mode", "input"}
         /\ pc' = "frame" => pc \in {"input", "frame", "cell"}
<1>. USE DEF inputVars, scanVars, TypeOK, ControlOK
<1>1. CASE Prepare
  BY <1>1 DEF Prepare, ShowUsage, RejectArguments, InputMissing, HeaderUnreadable, OpenInput,
              ChooseMode, NoFormat, GiveInput, Done
<1>2. CASE SkipFrame \/ OpenPage \/ PointersCutOff \/ EndOfFile \/ ReadFailure
  BY <1>2 DEF SkipFrame, OpenPage, PointersCutOff, EndOfFile, ReadFailure, FrameRead
<1>3. CASE ReadRecord \/ RecordCutOff \/ PageDone \/ Format \/ PrintNext \/ Finished
  BY <1>3 DEF ReadRecord, RecordCutOff, PageDone, Format, PrintNext, Finished, Done
<1>4. CASE Stopped \/ UNCHANGED vars
  BY <1>4 DEF Stopped, vars, Format
<1>. QED  BY <1>1, <1>2, <1>3, <1>4 DEF Next, Scan

(* A frame that is skipped is none of the selected. *)
LEMMA SkippedUnselected == PInv /\ SkipFrame => ~Selected(fi)
<1>. SUFFICES ASSUME PInv, SkipFrame PROVE ~Selected(fi)
  OBVIOUS
<1>1. SaltSeen = file.frames[1].salt
  BY SaltStep DEF SkipFrame, inputVars
<1>2. opts.index \in BOOLEAN
  BY OptionsAssumption DEF PInv, TypeOK, InputOK, OptionsType
<1>. QED  BY <1>1, <1>2 DEF SkipFrame, FrameSkipped, IsFrameWeakValid, NodeSkipped, Selected, AskedNode, Page, Frame

LEMMA StepBehind == LInv /\ [Next]_vars => Behind'
<1>. SUFFICES ASSUME LInv, [Next]_vars,
                     NEW k \in DOMAIN file'.frames, k < fi', Selected(k)',
                     NEW c \in DOMAIN file'.frames[k].page.cells
              PROVE  RowTold(file.frames[k].page, c)'
  BY DEF Behind
<1>1. TypeOK /\ UNCHANGED <<file, opts>> /\ Selected(k)
  BY FramesInOrder, SelectedKept DEF LInv, PInv
<1>2. PICK page : page = file.frames[k].page
  OBVIOUS
<1>3. RowTold(page, c) /\ fmt' = fmt
  <2>1. CASE k < fi
    BY <1>1, <1>2, <2>1, ObjectSettled DEF LInv, Behind, Untouched
  <2>2. CASE ~(k < fi)
    <3>1. k \in Nat /\ fi \in Nat
      BY <1>1, FilesAssumption DEF TypeOK, InputOK, ControlOK, FileType
    <3>2. k = fi /\ (SkipFrame \/ PageDone)
      BY <1>1, <2>2, <3>1, FramesInOrder
    <3>3. PageDone /\ page = Page
      BY <1>1, <1>2, <3>2, SkippedUnselected DEF LInv, Page, Frame
    <3>4. c < ci
      BY <1>1, <1>2, <3>1, <3>2, <3>3, PageType DEF PageDone, TypeOK, ControlOK
    <3>. QED  BY <1>1, <1>2, <3>3, <3>4 DEF PageDone, LInv, CellsBehind, fvars
  <2>. QED  BY <2>1, <2>2
<1>4. RowTold(page, c)'
  BY <1>1, <1>3, ObjectSettled, ToldKept DEF LInv
<1>. QED  BY <1>1, <1>2, <1>4 DEF RowTold

(* The row the loop comes from is told by the text it has led to.          *)
LEMMA CurrentTold ==
  ASSUME PInv, Current, Format, NEW page, NEW c, page = Page, c = ci
  PROVE  RowTold(page, c)'
<1>1. UNCHANGED <<file, fi, reader>> /\ pc = "format" /\ ci \in Nat \ {0}
  BY DEF Format, inputVars, PInv, TypeOK, ControlOK
<1>2. PICK rec : rec = reader
  OBVIOUS
<1>3. ASSUME page.cells[c].res = "row" PROVE rec = RecordOf(page, c)
  <2>1. ReaderAfter(ci) /\ reader.rowid = RowidOf(Page, ci)
    BY <1>1 DEF PInv, ReaderOfCell
  <2>2. ci \in RowsUpTo(Page, ci) /\ RowsUpTo(Page, ci) \subseteq 1 .. ci
    BY <1>1, <1>2, <1>3 DEF RowsUpTo
  <2>3. LastRow(ci, ci) /\ \A d : LastRow(d, ci) => d = ci
    BY <1>1, <2>2 DEF LastRow
  <2>4. reader.cols = Page.cells[ci].cols /\ reader.data = Page.cells[ci].data
    BY <2>1, <2>2, <2>3 DEF ReaderAfter
  <2>5. reader \in [cols: Seq(ColumnTypes), rowid: Nat, data: Contents \cup {NoData}]
    BY DEF PInv, TypeOK, DataOK
  <2>. QED  BY <1>2, <2>1, <2>4, <2>5 DEF RecordOf
<1>4. ASSUME page.cells[c].res = "row", Deliverable(rec)'
      PROVE  \E o \in outputData' : Says(o, rec)'
  <2>1. Deliverable(reader)'
    BY <1>1, <1>2, <1>4 DEF Deliverable, WrongWidth, HasInternal, KeyChecks
  <2>2. PICK o \in outputData' : Says(o, reader)'
    BY <2>1, Delivered DEF PInv
  <2>. QED  BY <1>1, <1>2, <2>2 DEF Says
<1>. QED  BY <1>3, <1>4 DEF RowTold, RecordOf, RowidOf

LEMMA StepCellsBehind == LInv /\ [Next]_vars => CellsBehind'
<1>. SUFFICES ASSUME LInv, [Next]_vars, pc' \in {"cell", "format"},
                     NEW c \in DOMAIN (Page.cells)', c < ci'
              PROVE  RowTold(Page, c)'
  BY DEF CellsBehind
<1>1. TypeOK /\ PInv /\ Current /\ UNCHANGED <<file, opts, fi>> /\ fi \in DOMAIN file.frames
  <2>1. TypeOK /\ PInv /\ Current
    BY DEF LInv, PInv
  <2>2. UNCHANGED <<file, opts>>
    BY <2>1, FramesInOrder
  <2>3. fi' = fi /\ fi \in DOMAIN file.frames
    BY <2>1, CellsInOrder
  <2>. QED  BY <2>1, <2>2, <2>3
<1>2. PICK page : page = Page
  OBVIOUS
<1>3. Page' = page /\ c \in DOMAIN page.cells /\ c \in Nat \ {0} /\ ci \in Nat
  BY <1>1, <1>2, PageKept, PageType DEF TypeOK, ControlOK
<1>4. CASE OpenPage /\ ci' = 1
  BY <1>3, <1>4
<1>5. ASSUME c < ci, pc \in {"cell", "format"} PROVE RowTold(page, c)'
  <2>1. RowTold(page, c) /\ ci # 1
    BY <1>2, <1>3, <1>5 DEF LInv, CellsBehind
  <2>2. fmt' = fmt
    BY <1>1, <1>5, <2>1, ObjectSettled DEF LInv, Untouched
  <2>. QED  BY <1>1, <2>1, <2>2, ObjectSettled, ToldKept
<1>6. CASE pc \in {"cell", "format"} /\ ci' = ci
  BY <1>3, <1>5, <1>6 DEF RowTold
<1>7. CASE Format /\ ci' = ci + 1
  <2>1. c < ci \/ c = ci
    BY <1>3, <1>7
  <2>2. pc = "format"
    BY <1>7 DEF Format
  <2>3. RowTold(page, c)'
    BY <1>1, <1>2, <1>5, <1>7, <2>1, <2>2, CurrentTold
  <2>. QED  BY <1>3, <2>3 DEF RowTold
<1>. QED  BY <1>1, <1>4, <1>6, <1>7, CellsInOrder

LEMMA StepUntouched == LInv /\ [Next]_vars => Untouched'
<1>. SUFFICES ASSUME LInv, [Next]_vars, fmt'.inputChanged \/ pc' \in {"arguments", "mode", "input"}
              PROVE  /\ \A k \in DOMAIN file'.frames :
                          k < fi' /\ Selected(k)' => DOMAIN file'.frames[k].page.cells = {}
                     /\ pc' \in {"cell", "format"} => ci' = 1
  BY DEF Untouched
<1>1. TypeOK /\ UNCHANGED <<file, opts>>
  BY FramesInOrder DEF LInv, PInv
<1>2. fmt.inputChanged \/ pc \in {"arguments", "mode", "input"}
  BY <1>1, ObjectSettled, CellsInOrder DEF LInv
<1>3. ASSUME Format PROVE FALSE
  <2>1. fmt.inputChanged /\ FTypeOK /\ GenerateOutput(reader) /\ pc' \in {"cell", "killed"}
    BY <1>1, <1>2, <1>3 DEF Format, TypeOK, FormatterOK
  <2>. QED  BY <2>1, HeaderWithInput, LoadTakesInput
<1>4. ASSUME NEW k \in DOMAIN file.frames, k < fi', Selected(k)
      PROVE  DOMAIN file.frames[k].page.cells = {}
  <2>1. CASE k < fi
    BY <1>2, <1>4, <2>1 DEF LInv, Untouched
  <2>2. CASE ~(k < fi)
    <3>1. k \in Nat /\ fi \in Nat
      BY <1>1, FilesAssumption DEF TypeOK, InputOK, ControlOK, FileType
    <3>2. k = fi /\ (SkipFrame \/ PageDone)
      BY <1>1, <1>4, <2>2, <3>1, FramesInOrder
    <3>3. PageDone
      BY <1>4, <3>2, SkippedUnselected DEF LInv
    <3>4. ci = 1 /\ ci \notin DOMAIN Page.cells /\ Page.cells \in Seq(Cells)
      BY <1>1, <1>2, <3>2, <3>3, PageType DEF PageDone, LInv, Untouched, TypeOK
    <3>. QED  BY <3>2, <3>4 DEF Page, Frame
  <2>. QED  BY <2>1, <2>2
<1>5. ASSUME pc' \in {"cell", "format"} PROVE ci' = 1
  BY <1>1, <1>2, <1>3, <1>5, CellsInOrder DEF LInv, Untouched
<1>6. \A k : Selected(k)' <=> Selected(k)
  BY <1>1, SelectedKept
<1>. QED  BY <1>1, <1>4, <1>5, <1>6

LEMMA StepAllShown == TypeOK /\ AllShown /\ [Next]_vars => AllShown'
<1>. SUFFICES ASSUME TypeOK, AllShown, [Next]_vars, (pc = "done" /\ exit = 0 /\ opts.args = "good")'
              PROVE  (outputData \subseteq Printed)'
  BY DEF AllShown
<1>. USE DEF inputVars, scanVars
<1>1. CASE Prepare
  BY <1>1 DEF Prepare, ShowUsage, RejectArguments, InputMissing, HeaderUnreadable, OpenInput,
              ChooseMode, NoFormat, GiveInput, Done
<1>2. CASE SkipFrame \/ OpenPage \/ PointersCutOff \/ EndOfFile \/ ReadFailure
  BY <1>2 DEF SkipFrame, OpenPage, PointersCutOff, EndOfFile, ReadFailure, FrameRead
<1>3. CASE ReadRecord \/ RecordCutOff \/ PageDone \/ Format \/ PrintNext
  BY <1>3 DEF ReadRecord, RecordCutOff, PageDone, Format, PrintNext
<1>4. CASE Finished
  BY <1>4 DEF Finished, Printed
<1>5. CASE Stopped \/ UNCHANGED vars
  BY <1>5 DEF Stopped, vars, AllShown, Printed
<1>. QED  BY <1>1, <1>2, <1>3, <1>4, <1>5 DEF Next, Scan

LEMMA StepLInv == LInv /\ [Next]_vars => LInv'
<1>. SUFFICES ASSUME LInv, [Next]_vars PROVE LInv'
  OBVIOUS
<1>1. PInv' /\ Current' /\ AllShown'
  BY StepPInv, CurrentStep, StepAllShown DEF LInv, PInv
<1>. QED  BY <1>1, StepBehind, StepCellsBehind, StepUntouched DEF LInv

(***************************************************************************)
(* A successful run has printed every row it could: a frame it skipped, an *)
(* empty cell, a refused record or an exception costs no other row its     *)
(* text, whatever the log, the command line and the schema.                *)
(***************************************************************************)
THEOREM RowsKept == Spec => []NothingLost
<1>1. LInv => NothingLost
  BY DEF LInv, AllShown, Behind, RowTold, NothingLost
<1>. QED  BY <1>1, InitLInv, StepLInv, PTL DEF Spec, Safe

-----------------------------------------------------------------------------
(***************************************************************************)
(* AlwaysNearer.  Counted keeps the differences in a rank from becoming    *)
(* negative, and the set of texts from becoming infinite.                  *)
(***************************************************************************)
Counted ==
  /\ Stage > 2 => fi = 1
  /\ pc = "frame" => fi <= Len(file.frames) + 1
  /\ pc = "cell" => ci <= Len(Page.cells) + 1
  /\ IsFiniteSet(outputData)

LEMMA CountedInit == Init => Counted
BY FS_EmptySet DEF Init, Counted, Stage

(* Lengths of a log of the type. *)
LEMMA Lengths ==
  ASSUME TypeOK
  PROVE  /\ Len(file.frames) \in Nat /\ DOMAIN file.frames = 1 .. Len(file.frames)
         /\ fi \in Nat \ {0} /\ ci \in Nat \ {0}
         /\ fi \in DOMAIN file.frames =>
              Len(Page.cells) \in Nat /\ DOMAIN Page.cells = 1 .. Len(Page.cells)
<1>1. file.frames \in Seq([salt: Salts, page: Pages])
  BY FilesAssumption DEF TypeOK, InputOK, FileType
<1>2. fi \in DOMAIN file.frames => Page.cells \in Seq(Cells)
  BY PageType DEF TypeOK
<1>. QED  BY <1>1, <1>2 DEF TypeOK, ControlOK

LEMMA CountedNext == TypeOK /\ Counted /\ [Next]_vars => Counted'
<1>. SUFFICES ASSUME TypeOK, Counted, [Next]_vars PROVE Counted'
  OBVIOUS
<1>. USE DEF inputVars, scanVars
<1>1. UNCHANGED file
  BY DEF Next, Prepare, ShowUsage, RejectArguments, InputMissing, HeaderUnreadable, OpenInput, ChooseMode,
         NoFormat, GiveInput, Scan, SkipFrame, OpenPage, PointersCutOff, EndOfFile, ReadFailure, ReadRecord,
         RecordCutOff, PageDone, Format, PrintNext, Finished, Stopped, vars
<1>2. CASE Prepare
  <2>1. UNCHANGED <<fi, outputData>> /\ (Stage' > 2 \/ pc' = "frame" => Stage > 2) /\ pc' # "cell"
    BY <1>2 DEF Prepare, ShowUsage, RejectArguments, InputMissing, HeaderUnreadable, OpenInput, ChooseMode,
                NoFormat, GiveInput, Done, Stage
  <2>2. Len(file.frames) \in Nat
    BY Lengths
  <2>. QED  BY <1>1, <2>1, <2>2 DEF Counted
<1>3. CASE SkipFrame
  <2>1. pc' = "frame" /\ fi' = fi + 1 /\ fi \in DOMAIN file.frames /\ outputData' = outputData
    BY <1>3 DEF SkipFrame, FrameRead
  <2>2. fi' <= Len(file.frames) + 1
    BY <2>1, Lengths
  <2>. QED  BY <1>1, <2>1, <2>2 DEF Counted, Stage
<1>4. CASE PageDone
  <2>1. pc' = "frame" /\ fi' = fi + 1 /\ fi \in DOMAIN file.frames /\ outputData' = outputData
    BY <1>4 DEF PageDone, TypeOK, ControlOK
  <2>2. fi' <= Len(file.frames) + 1
    BY <2>1, Lengths
  <2>. QED  BY <1>1, <2>1, <2>2 DEF Counted, Stage
<1>5. CASE OpenPage
  <2>1. pc' = "cell" /\ ci' = 1 /\ fi \in DOMAIN file.frames /\ UNCHANGED <<fi, outputData>>
    BY <1>5 DEF OpenPage, FrameRead
  <2>2. Page' = Page /\ 1 <= Len(Page.cells) + 1
    BY <1>1, <2>1, Lengths, PageKept
  <2>. QED  BY <2>1, <2>2 DEF Counted, Stage
<1>6. CASE ReadRecord
  <2>1. pc' = "format" /\ UNCHANGED outputData
    BY <1>6 DEF ReadRecord
  <2>. QED  BY <2>1 DEF Counted, Stage
<1>7. CASE Format
  <2>1. /\ pc' = "killed" \/ (pc' = "cell" /\ ci' = ci + 1)
        /\ fi' = fi /\ ci \in DOMAIN Page.cells /\ fi \in DOMAIN file.frames
        /\ \/ outputData' = outputData
           \/ outputData' = outputData \cup {result'.out}
    BY <1>7 DEF Format, TypeOK, ControlOK
  <2>2. Page' = Page /\ ci + 1 <= Len(Page.cells) + 1
    BY <1>1, <2>1, Lengths, PageKept
  <2>3. IsFiniteSet(outputData')
    BY <2>1, FS_AddElement DEF Counted
  <2>. QED  BY <2>1, <2>2, <2>3 DEF Counted, Stage
<1>8. CASE PointersCutOff \/ EndOfFile \/ ReadFailure \/ RecordCutOff \/ PrintNext \/ Finished
  <2>1. pc' \in {"killed", "print", "done"} /\ UNCHANGED outputData
    BY <1>8 DEF PointersCutOff, EndOfFile, ReadFailure, RecordCutOff, PrintNext, Finished, Done
  <2>. QED  BY <2>1 DEF Counted, Stage
<1>9. CASE UNCHANGED vars
  BY <1>9, PageKept DEF vars, Counted, Stage
<1>. QED  BY <1>2, <1>3, <1>4, <1>5, <1>6, <1>7, <1>8, <1>9 DEF Next, Scan, Stopped

LEMMA RankType ==
  ASSUME TypeOK, Counted
  PROVE  Stage \in 0..5 /\ EntriesLeft \in Nat /\ CellsLeft \in Nat /\ Unread \in 0..1
<1>1. Stage \in 0..5 /\ Unread \in 0..1
  BY DEF Stage, Unread
<1>2. EntriesLeft \in Nat
  <2>1. Stage = 2 => Len(file.frames) + 1 - fi \in Nat
    <3>1. Stage = 2 => fi <= Len(file.frames) + 1
      BY Lengths DEF Stage, Counted, TypeOK, ControlOK
    <3>. QED  BY <3>1, Lengths
  <2>2. Cardinality(outputData \ Printed) \in Nat
    BY FS_Difference, FS_CardinalityType DEF Counted
  <2>. QED  BY <2>1, <2>2 DEF EntriesLeft
<1>3. CellsLeft \in Nat
  <2>1. pc \in {"cell", "format"} => ci <= Len(Page.cells) + 1
    BY Lengths DEF Counted, TypeOK, ControlOK
  <2>. QED  BY <2>1, Lengths DEF CellsLeft, TypeOK, ControlOK
<1>. QED  BY <1>1, <1>2, <1>3

LEMMA StepLower ==
  ASSUME TypeOK, Counted, Next, ~Stopped
  PROVE  \/ Stage' < Stage
         \/ Stage' = Stage /\ EntriesLeft' < EntriesLeft
         \/ Stage' = Stage /\ EntriesLeft' = EntriesLeft /\ CellsLeft' < CellsLeft
         \/ Stage' = Stage /\ EntriesLeft' = EntriesLeft /\ CellsLeft' = CellsLeft /\ Unread' < Unread
<1>. USE DEF inputVars, scanVars
<1>1. CASE Prepare
  BY <1>1 DEF Prepare, ShowUsage, RejectArguments, InputMissing, HeaderUnreadable, OpenInput, ChooseMode,
              NoFormat, GiveInput, Done, Stage
<1>2. CASE PointersCutOff \/ EndOfFile \/ ReadFailure \/ RecordCutOff \/ Finished
  BY <1>2 DEF PointersCutOff, EndOfFile, ReadFailure, RecordCutOff, Finished, FrameRead, Done, Stage
<1>3. CASE SkipFrame \/ PageDone
  <2>1. Stage = 2 /\ Stage' = 2 /\ file' = file /\ fi' = fi + 1
    BY <1>3 DEF SkipFrame, PageDone, FrameRead, Stage
  <2>2. EntriesLeft' = Len(file.frames) + 1 - (fi + 1) /\ EntriesLeft = Len(file.frames) + 1 - fi
    BY <2>1 DEF EntriesLeft
  <2>. QED  BY <2>1, <2>2, Lengths
<1>4. ASSUME Stage = 2, Stage' = 2, UNCHANGED <<file, fi>>
      PROVE  EntriesLeft' = EntriesLeft /\ Page' = Page
  BY <1>4, PageKept DEF EntriesLeft
<1>5. CASE OpenPage
  <2>1. pc = "frame" /\ pc' = "cell" /\ UNCHANGED <<file, fi>> /\ fi \in DOMAIN file.frames /\ ci' = 1
    BY <1>5 DEF OpenPage, FrameRead
  <2>2. Stage = 2 /\ Stage' = 2
    BY <2>1 DEF Stage
  <2>3. CellsLeft = Len(Page.cells) + 1 /\ CellsLeft' = Len(Page.cells) + 1 - 1
    BY <1>4, <2>1, <2>2 DEF CellsLeft
  <2>. QED  BY <1>4, <2>1, <2>2, <2>3, Lengths
<1>6. CASE ReadRecord
  <2>1. pc = "cell" /\ pc' = "format" /\ UNCHANGED <<file, fi, ci>>
    BY <1>6 DEF ReadRecord
  <2>2. Stage = 2 /\ Stage' = 2
    BY <2>1 DEF Stage
  <2>3. CellsLeft' = CellsLeft
    BY <1>4, <2>1, <2>2 DEF CellsLeft
  <2>. QED  BY <1>4, <2>1, <2>2, <2>3 DEF Unread
<1>7. CASE Format
  <2>1. pc = "format" /\ UNCHANGED <<file, fi>> /\ fi \in DOMAIN file.frames
        /\ (pc' = "killed" \/ (pc' = "cell" /\ ci' = ci + 1))
    BY <1>7 DEF Format, TypeOK, ControlOK
  <2>2. CASE pc' = "killed"
    BY <2>1, <2>2 DEF Stage
  <2>3. CASE pc' = "cell" /\ ci' = ci + 1
    <3>1. Stage = 2 /\ Stage' = 2
      BY <2>1, <2>3 DEF Stage
    <3>2. CellsLeft = Len(Page.cells) + 1 - ci /\ CellsLeft' = Len(Page.cells) + 1 - (ci + 1)
      BY <1>4, <2>1, <2>3, <3>1 DEF CellsLeft
    <3>. QED  BY <1>4, <2>1, <3>1, <3>2, Lengths
  <2>. QED  BY <2>1, <2>2, <2>3
<1>8. CASE PrintNext
  <2>1. PICK o \in outputData \ Printed : printed' = Append(printed, o)
    BY <1>8 DEF PrintNext
  <2>2. pc = "print" /\ pc' = "print" /\ UNCHANGED outputData
    BY <1>8 DEF PrintNext
  <2>3. Printed' = Printed \cup {o}
    BY <2>1, PrintedNext DEF TypeOK, DataOK
  <2>. PICK T : T = outputData \ Printed
    OBVIOUS
  <2>4. outputData' \ Printed' = T \ {o} /\ o \in T /\ IsFiniteSet(T)
    BY <2>2, <2>3, FS_Difference DEF Counted
  <2>5. Cardinality(T \ {o}) < Cardinality(T)
    <3>1. Cardinality(T \ {o}) = Cardinality(T) - 1 /\ Cardinality(T) \in Nat
      BY <2>4, FS_RemoveElement, FS_CardinalityType
    <3>. QED  BY <3>1
  <2>6. Stage = 1 /\ Stage' = 1
    BY <2>2 DEF Stage
  <2>7. EntriesLeft = Cardinality(T) /\ EntriesLeft' = Cardinality(T \ {o})
    BY <2>4, <2>6 DEF EntriesLeft, Stage
  <2>. QED  BY <2>5, <2>6, <2>7
<1>. QED  BY <1>1, <1>2, <1>3, <1>5, <1>6, <1>7, <1>8 DEF Next, Scan

(***************************************************************************)
(* Every run is finite: of any log, with any inputs, no step but the last  *)
(* fails to bring the program nearer to its end.                           *)
(***************************************************************************)
THEOREM ProgramEnds == Spec => AlwaysNearer
<1>1. ASSUME TypeOK, Counted, [Next]_vars PROVE [Lower(Rank', Rank)]_vars
  <2>1. CASE Next /\ ~Stopped
    <3>1. Stage \in Nat /\ EntriesLeft \in Nat /\ CellsLeft \in Nat /\ Unread \in Nat
      BY <1>1, RankType
    <3>2. Lower(<<Stage', EntriesLeft', CellsLeft', Unread'>>, <<Stage, EntriesLeft, CellsLeft, Unread>>)
      BY <1>1, <2>1, <3>1, StepLower, Lowers
    <3>. QED  BY <3>2 DEF Rank
  <2>2. CASE Stopped \/ UNCHANGED vars
    BY <2>2 DEF Stopped
  <2>. QED  BY <1>1, <2>1, <2>2
<1>. QED  BY <1>1, InitType, StepType, CountedInit, CountedNext, PTL DEF Spec, Safe, AlwaysNearer

=============================================================================
