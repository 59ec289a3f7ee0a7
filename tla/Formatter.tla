------------------------------ MODULE Formatter ------------------------------
(***************************************************************************)
(* A formatter object: the Formatter base class (Formatter.h) with its two *)
(* subclasses CSVFormatter and SchemaFormatter.                            *)
(*                                                                         *)
(* The object is created once, registered in the Factory, and lives as     *)
(* long as the process.  A client hands it an input (the column list or    *)
(* the CREATE TABLE text), picks strict or lenient mode and then calls     *)
(* generateOutput once per record.  The input is parsed lazily, by the     *)
(* first generateOutput after setInput, and what the parse leaves in the   *)
(* object is what every later call works with: also when the parse threw.  *)
(*                                                                         *)
(* Text is abstract.  An input is the record of what parsing its text      *)
(* yields; a returned string is the record of what it says (Insert, Csv    *)
(* and HeaderLine below), two of them being equal when the strings are.    *)
(*                                                                         *)
(* A definition named Defect... is a deliberately wrong variant of the     *)
(* definition that follows it: a property has to tell the two apart.       *)
(***************************************************************************)
EXTENDS Naturals, Sequences

CONSTANTS
  Inputs,   \* what setInput can be given, for both classes
  Records,  \* the records generateOutput can be called with
  Names,    \* the names of tables and columns
  NoName,   \* the empty table name
  NoInput,  \* the null _input of a new formatter
  NoData    \* the content of a string that holds no column of a record

VARIABLES
  fmt,      \* the formatter object
  result    \* what the last generateOutput returned or threw

fvars == <<fmt, result>>

-----------------------------------------------------------------------------
(***************************************************************************)
(* Serial types, as the switches of both generateOutput tell them apart.   *)
(* "Number" stands for every type the switches print after std::dec, and   *)
(* "Internal" for the types that reach their default branch.  asData       *)
(* makes nothing of a Blob of no bytes, hence "EmptyBlob".                 *)
(***************************************************************************)
ColumnTypes == {"Null", "Number", "String", "Blob", "EmptyBlob", "Internal"}

(***************************************************************************)
(* The exceptions of SchemaFormatter::parseSchema and FileInput::readFile, *)
(* in the order in which they can be thrown.                               *)
(***************************************************************************)
ParseErrors == {"FileError", "MalformedTableName", "MalformedParentheses",
                "MalformedColumnDefinition", "MalformedPrimaryKey"}

(* "Abort": an access out of bounds ends the process.                      *)
Thrown == ParseErrors \cup {"InvalidPrimaryKeyPosition", "UnexpectedColumnType", "Abort"}

(* _primaryKeyIndex = noPrimaryKeyIndex; positions start at 1 here.        *)
NoPk == 0

(***************************************************************************)
(* What parsing a text yields: its statement's table, the columns up to    *)
(* the first malformed one, the key's position, and how the parse ends.    *)
(***************************************************************************)
InputType == [class: {"csv", "sql"}, table: Names \cup {NoName}, columns: Seq(Names), pk: Nat,
              fails: ParseErrors \cup {"Abort", "no"}]

(* A column list is in memory and of any form: it has no way to fail.      *)
ASSUME InputsAssumption ==
  /\ Inputs \subseteq InputType
  /\ NoInput \notin Inputs
  /\ \A in \in Inputs : in.class = "csv" => in.table = NoName /\ in.pk = NoPk /\ in.fails = "no"

(* The columns' types and the rowid of a record; of its content, data, the *)
(* model only knows whether two are the same.                              *)
IsRecord(rec) == rec.cols \in Seq(ColumnTypes) /\ rec.rowid \in Nat

ASSUME RecordsAssumption == \A r \in Records : IsRecord(r)

Nothing == [kind |-> "nothing", header |-> <<>>, table |-> NoName, columns |-> <<>>,
            values |-> <<>>, data |-> NoData]

NoResult == [out |-> Nothing, thrown |-> "no"]

Return(o) == result' = [out |-> o, thrown |-> "no"]

DefectThrow(e) == result' = [result EXCEPT !.thrown = e]   \* the stream is a member

Throw(e) == result' = [out |-> Nothing, thrown |-> e]

-----------------------------------------------------------------------------
(***************************************************************************)
(* generateOutput's first block: reset, take the input, parse it.          *)
(* getInput lowers _inputChanged before anything can throw, and every      *)
(* exception leaves the members the parse had set by then: the table name  *)
(* is stored before the parentheses are looked at, the columns one by one, *)
(* the key last.  input.columns are those of the text up to the first      *)
(* malformed one.  An input without a single statement is accepted.        *)
(***************************************************************************)
DefectLoadKeepsKey(f) ==   \* reset() forgets _primaryKeyIndex
  [f EXCEPT !.inputChanged = FALSE, !.table = f.input.table, !.columns = f.input.columns,
            !.pk = IF f.input.pk # NoPk THEN f.input.pk ELSE @]

DefectLoadRearmed(f) ==    \* getInput forgets to lower _inputChanged
  [f EXCEPT !.table = f.input.table, !.columns = f.input.columns, !.pk = f.input.pk]

Load(f) ==
  [f EXCEPT
     !.inputChanged = FALSE,
     !.table   = IF f.input.fails \in {"FileError", "MalformedTableName"}
                 THEN NoName ELSE f.input.table,
     !.columns = IF f.input.fails \in {"FileError", "MalformedTableName", "MalformedParentheses", "Abort"}
                 THEN <<>> ELSE f.input.columns,
     !.pk      = IF f.input.fails = "no" THEN f.input.pk ELSE NoPk]

Loaded(f) == IF f.inputChanged THEN Load(f) ELSE f

ParseThrows(f) == f.inputChanged /\ f.input.fails # "no"

-----------------------------------------------------------------------------
(***************************************************************************)
(* The number base the string stream is in when column k is written: a     *)
(* Blob switches it to hexadecimal, only a number switches it back.        *)
(***************************************************************************)
BaseAt(cols, k) ==
  IF \E j \in 1..k-1 : /\ cols[j] = "Blob"
                       /\ \A m \in j+1..k-1 : cols[m] # "Number"
  THEN "hex" ELSE "dec"

(* A column as it is printed: a Null at the key's position is the rowid.   *)
ValueAt(rec, k, pk) ==
  IF rec.cols[k] = "Null" /\ k = pk
  THEN [as |-> "Rowid", base |-> BaseAt(rec.cols, k), rowid |-> rec.rowid]
  ELSE [as |-> rec.cols[k], base |-> "dec", rowid |-> 0]

ValuesOf(rec, pk) == [k \in DOMAIN rec.cols |-> ValueAt(rec, k, pk)]

HasInternal(rec) == \E k \in DOMAIN rec.cols : rec.cols[k] = "Internal"

DataOf(rec) == IF rec.cols = <<>> THEN NoData ELSE rec.data

Insert(f, rec) ==
  [kind |-> "insert", header |-> <<>>, table |-> f.table, columns |-> f.columns,
   values |-> ValuesOf(rec, f.pk), data |-> DataOf(rec)]

Csv(header, rec) ==
  [kind |-> "csv", header |-> header, table |-> NoName, columns |-> <<>>,
   values |-> ValuesOf(rec, NoPk), data |-> DataOf(rec)]

(* The line of column names alone.                                         *)
HeaderLine(header) ==
  [kind |-> "csv", header |-> header, table |-> NoName, columns |-> <<>>,
   values |-> <<>>, data |-> NoData]

(* output.empty() of the string that o stands for.                         *)
IsEmptyText(o) ==
  \/ o = Nothing
  \/ /\ o.kind = "csv"
     /\ o.header = <<>>
     /\ o.values = <<>> \/ (Len(o.values) = 1 /\ o.values[1].as = "EmptyBlob")

DefectWidthUnchecked(f, rec) == f.strict /\ Len(rec.cols) < Len(f.columns)

WrongWidth(f, rec) == f.strict /\ Len(rec.cols) # Len(f.columns)

(***************************************************************************)
(* The test of the key's column.  In lenient mode the record may be too    *)
(* short to have it, and headerData[_primaryKeyIndex] then reads past the  *)
(* vector: the build stops, or goes on with whatever type it found.  The   *)
(* vector of an empty record has no buffer to read: no build goes on.      *)
(***************************************************************************)
DefectKeyUnchecked(f, rec) == {"passed"}

KeyChecks(f, rec) ==
  IF f.pk = NoPk THEN {"passed"}
  ELSE IF rec.cols = <<>> THEN {"undefined"}
  ELSE IF f.pk > Len(rec.cols) THEN {"passed", "refused", "undefined"}
  ELSE IF rec.cols[f.pk] = "Null" THEN {"passed"} ELSE {"refused"}

-----------------------------------------------------------------------------
(* CSVFormatter::generateOutput after its parse. *)
CsvOutput(f, header, rec) ==
  \/ /\ WrongWidth(f, rec)
     /\ Return(HeaderLine(header))
  \/ /\ ~WrongWidth(f, rec)
     /\ HasInternal(rec)
     /\ Throw("UnexpectedColumnType")
  \/ /\ ~WrongWidth(f, rec)
     /\ ~HasInternal(rec)
     /\ Return(Csv(header, rec))

(* SchemaFormatter::generateOutput after its parse. *)
SqlOutput(f, rec) ==
  \/ /\ WrongWidth(f, rec)
     /\ Return(Nothing)
  \/ /\ ~WrongWidth(f, rec)
     /\ \E check \in KeyChecks(f, rec) :
          \/ /\ check = "undefined"
             /\ Throw("Abort")
          \/ /\ check = "refused"
             /\ Throw("InvalidPrimaryKeyPosition")
          \/ /\ check = "passed"
             /\ IF HasInternal(rec)
                THEN Throw("UnexpectedColumnType")
                ELSE Return(Insert(f, rec))

GenerateOutput(rec) ==
  /\ fmt.input # NoInput
  /\ result.thrown # "Abort"
  /\ fmt' = Loaded(fmt)
  /\ \/ /\ ParseThrows(fmt)
        /\ Throw(fmt.input.fails)
     \/ /\ ~ParseThrows(fmt)
        /\ fmt.class = "csv"
        /\ CsvOutput(Loaded(fmt), IF fmt.inputChanged THEN Loaded(fmt).columns ELSE <<>>, rec)
     \/ /\ ~ParseThrows(fmt)
        /\ fmt.class = "sql"
        /\ SqlOutput(Loaded(fmt), rec)

SetInput(i) ==
  /\ result.thrown # "Abort"
  /\ i.class = fmt.class
  /\ fmt' = [fmt EXCEPT !.input = i, !.inputChanged = TRUE]
  /\ UNCHANGED result

SetMode(strict) ==
  /\ result.thrown # "Abort"
  /\ fmt' = [fmt EXCEPT !.strict = strict]
  /\ UNCHANGED result

(* The object as its constructor leaves it. *)
NewFormatter(class) ==
  [class |-> class, input |-> NoInput, inputChanged |-> FALSE, strict |-> TRUE,
   table |-> NoName, columns |-> <<>>, pk |-> NoPk]

FInit ==
  /\ fmt \in {NewFormatter(c) : c \in {"csv", "sql"}}
  /\ result = NoResult

FNext ==
  \/ \E i \in Inputs : SetInput(i)
  \/ \E s \in BOOLEAN : SetMode(s)
  \/ \E r \in Records : GenerateOutput(r)

FSpec == FInit /\ [][FNext]_fvars

-----------------------------------------------------------------------------
Values == [as: {"Rowid"} \cup ColumnTypes, base: {"dec", "hex"}, rowid: Nat]

(***************************************************************************)
(* The type of the object and of what a call of generateOutput delivers:   *)
(* a string of the object's own format, or an exception and no string.     *)
(***************************************************************************)
FTypeOK ==
  /\ fmt \in [class: {"csv", "sql"}, input: Inputs \cup {NoInput}, inputChanged: BOOLEAN,
              strict: BOOLEAN, table: Names \cup {NoName}, columns: Seq(Names), pk: Nat]
  /\ result.thrown \in Thrown \cup {"no"}
  /\ result.out.kind = "insert" => fmt.class = "sql"
  /\ result.out.kind = "csv" => fmt.class = "csv"
  /\ result.out.kind \in {"nothing", "csv", "insert"}
  /\ result.thrown # "no" => result.out = Nothing
  /\ result.out.header \in Seq(Names)
  /\ result.out.columns \in Seq(Names)
  /\ result.out.table \in Names \cup {NoName}
  /\ result.out.values \in Seq(Values)

(***************************************************************************)
(* Nothing of an earlier input survives the parse of the next one: after   *)
(* the first generateOutput that follows setInput, table, columns and key  *)
(* are those of the current input, or unset where its parse stopped; a key *)
(* is only ever set together with all the columns (SchemaFormatter::reset, *)
(* the order of the assignments in parseName and parseParams).             *)
(***************************************************************************)
ParsedFromCurrentInput ==
  fmt.input # NoInput /\ ~fmt.inputChanged =>
    /\ fmt.table   \in {NoName, fmt.input.table}
    /\ fmt.columns \in {<<>>, fmt.input.columns}
    /\ fmt.pk      \in {NoPk, fmt.input.pk}
    /\ fmt.pk # NoPk => fmt.input.fails = "no" /\ fmt.columns = fmt.input.columns

(***************************************************************************)
(* In strict mode no INSERT has more or fewer values than columns, and no  *)
(* CSV row has more or fewer values than the parsed column list, whatever  *)
(* sequence of setInput, mode changes and failed parses came before.       *)
(***************************************************************************)
StrictRow ==
  result' # result /\ fmt'.strict /\ result'.out.values # <<>> =>
    Len(result'.out.values) = Len(fmt'.columns)

StrictRowsFit == [][StrictRow]_fvars

(***************************************************************************)
(* A CSV header goes out with the first string after setInput and with no  *)
(* later one: the call that delivers it has consumed the input change.     *)
(***************************************************************************)
HeaderTakesInput ==
  result' # result /\ result'.out.header # <<>> => fmt.inputChanged /\ ~fmt'.inputChanged

HeaderOncePerInput == [][HeaderTakesInput]_fvars

(***************************************************************************)
(* With an accepted schema an INSERT has the rowid at the column of its    *)
(* integer primary key and nowhere else: the Null stored there is never    *)
(* printed, and no other Null is taken for the key.                        *)
(***************************************************************************)
RowidAtKey ==
  result' # result /\ result'.out.kind = "insert" /\ fmt'.input.fails = "no" =>
    \A k \in DOMAIN result'.out.values :
      (result'.out.values[k].as = "Rowid") <=> (k = fmt'.input.pk)

KeyColumnIsRowid == [][RowidAtKey]_fvars

(***************************************************************************)
(* A CREATE TABLE that is rejected never yields an INSERT: the tests with  *)
(* a malformed schema fail with "generation passed when it should have     *)
(* failed" when generateOutput returns.  A schema file that cannot be read *)
(* is left out: its exception is none that main goes on after.             *)
(***************************************************************************)
RejectedSchemaNeverInserts ==
  [][ result' # result /\ result'.out.kind = "insert" =>
        fmt'.input.fails \in {"no", "FileError"} ]_fvars

(***************************************************************************)
(* The rowid is printed in decimal, as in every expected INSERT of the     *)
(* tests, wherever the key's column stands among the others.               *)
(***************************************************************************)
RowidInDecimal ==
  \A k \in DOMAIN result.out.values : result.out.values[k].base = "dec"

=============================================================================
