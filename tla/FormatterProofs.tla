---------------------------- MODULE FormatterProofs ----------------------------
(***************************************************************************)
(* What holds of a formatter for every set of inputs and records: the      *)
(* lemmas say it of one call of generateOutput with any record, the        *)
(* theorems of every sequence of calls.                                    *)
(***************************************************************************)
EXTENDS Formatter, TLAPS

(* A record's columns are printed as values of the right type.             *)
LEMMA ValuesType ==
  ASSUME NEW rec, IsRecord(rec), NEW pk \in Nat
  PROVE  ValuesOf(rec, pk) \in Seq(Values)
<1>1. rec.cols \in Seq(ColumnTypes) /\ DOMAIN rec.cols = 1..Len(rec.cols) /\ Len(rec.cols) \in Nat
  BY DEF IsRecord
<1>2. ASSUME NEW k \in DOMAIN rec.cols
      PROVE  ValueAt(rec, k, pk) \in Values
  <2>1. BaseAt(rec.cols, k) \in {"dec", "hex"}
    BY DEF BaseAt
  <2>2. rec.cols[k] \in ColumnTypes
    BY <1>1
  <2>. QED  BY <2>1, <2>2 DEF ValueAt, Values, IsRecord
<1>. QED  BY <1>1, <1>2 DEF ValuesOf

(* A new object is well-typed.                                             *)
LEMMA InitFormatterType == FInit => FTypeOK
<1>. SUFFICES ASSUME FInit PROVE FTypeOK
  OBVIOUS
<1>1. PICK c \in {"csv", "sql"} : fmt = NewFormatter(c)
  BY DEF FInit
<1>2. <<>> \in Seq(Names) /\ <<>> \in Seq(Values)
  OBVIOUS
<1>. QED  BY <1>1, <1>2 DEF FInit, FTypeOK, NewFormatter, NoResult, Nothing, NoPk

(* Parsing any input leaves a well-typed object behind.                    *)
LEMMA LoadedType ==
  ASSUME FTypeOK, fmt.input # NoInput
  PROVE  /\ Loaded(fmt).table \in Names \cup {NoName}
         /\ Loaded(fmt).columns \in Seq(Names)
         /\ Loaded(fmt).pk \in Nat
         /\ Loaded(fmt) = [fmt EXCEPT !.inputChanged = FALSE, !.table = Loaded(fmt).table,
                                      !.columns = Loaded(fmt).columns, !.pk = Loaded(fmt).pk]
<1>1. fmt.input \in InputType
  BY InputsAssumption DEF FTypeOK
<1>2. <<>> \in Seq(Names)
  OBVIOUS
<1>3. CASE fmt.inputChanged
  <2>1. Loaded(fmt) = Load(fmt)
    BY <1>3 DEF Loaded
  <2>2. /\ Load(fmt).table \in Names \cup {NoName}
        /\ Load(fmt).columns \in Seq(Names)
        /\ Load(fmt).pk \in Nat
    BY <1>1, <1>2 DEF Load, InputType, NoPk, FTypeOK
  <2>3. Load(fmt) = [fmt EXCEPT !.inputChanged = FALSE, !.table = Load(fmt).table,
                                !.columns = Load(fmt).columns, !.pk = Load(fmt).pk]
    BY DEF Load, FTypeOK
  <2>. QED  BY <2>1, <2>2, <2>3
<1>4. CASE ~fmt.inputChanged
  BY <1>4 DEF Loaded, FTypeOK
<1>. QED  BY <1>3, <1>4

(* The ways a call of generateOutput can end.                              *)
LEMMA Outcomes ==
  ASSUME FTypeOK, NEW rec, GenerateOutput(rec)
  PROVE  \/ \E e \in Thrown : result' = [out |-> Nothing, thrown |-> e]
         \/ result' = NoResult
         \/ /\ fmt.class = "csv"
            /\ \E header \in {<<>>, Loaded(fmt).columns} :
                 \/ result' = [out |-> HeaderLine(header), thrown |-> "no"]
                 \/ /\ result' = [out |-> Csv(header, rec), thrown |-> "no"]
                    /\ ~WrongWidth(Loaded(fmt), rec)
         \/ /\ fmt.class = "sql"
            /\ result' = [out |-> Insert(Loaded(fmt), rec), thrown |-> "no"]
            /\ ~WrongWidth(Loaded(fmt), rec)
            /\ "passed" \in KeyChecks(Loaded(fmt), rec)
<1>1. CASE ParseThrows(fmt) /\ Throw(fmt.input.fails)
  <2>1. fmt.input \in InputType
    BY InputsAssumption DEF FTypeOK, GenerateOutput
  <2>2. fmt.input.fails \in Thrown
    BY <1>1, <2>1 DEF ParseThrows, InputType, Thrown
  <2>. QED  BY <1>1, <2>2 DEF Throw
<1>2. ASSUME fmt.class = "csv",
             NEW header \in {<<>>, Loaded(fmt).columns}, CsvOutput(Loaded(fmt), header, rec)
      PROVE  \/ \E e \in Thrown : result' = [out |-> Nothing, thrown |-> e]
             \/ result' = [out |-> HeaderLine(header), thrown |-> "no"]
             \/ /\ result' = [out |-> Csv(header, rec), thrown |-> "no"]
                /\ ~WrongWidth(Loaded(fmt), rec)
  <2>1. CASE Return(HeaderLine(header))
    BY <2>1 DEF Return
  <2>2. CASE Throw("UnexpectedColumnType")
    BY <2>2 DEF Throw, Thrown
  <2>3. CASE ~WrongWidth(Loaded(fmt), rec) /\ Return(Csv(header, rec))
    BY <2>3 DEF Return
  <2>. QED  BY <1>2, <2>1, <2>2, <2>3 DEF CsvOutput
<1>3. CASE fmt.class = "csv"
           /\ CsvOutput(Loaded(fmt), IF fmt.inputChanged THEN Loaded(fmt).columns ELSE <<>>, rec)
  <2>1. PICK header \in {<<>>, Loaded(fmt).columns} : CsvOutput(Loaded(fmt), header, rec)
    BY <1>3
  <2>. QED  BY <1>2, <1>3, <2>1
<1>4. CASE fmt.class = "sql" /\ SqlOutput(Loaded(fmt), rec)
  <2>1. CASE Return(Nothing)
    BY <2>1 DEF Return, NoResult
  <2>2. CASE \E e \in Thrown : Throw(e)
    BY <2>2 DEF Throw
  <2>3. CASE /\ ~WrongWidth(Loaded(fmt), rec)
             /\ "passed" \in KeyChecks(Loaded(fmt), rec)
             /\ Return(Insert(Loaded(fmt), rec))
    BY <1>4, <2>3 DEF Return
  <2>4. {"Abort", "InvalidPrimaryKeyPosition", "UnexpectedColumnType"} \subseteq Thrown
    BY DEF Thrown
  <2>. QED  BY <1>4, <2>1, <2>2, <2>3, <2>4 DEF SqlOutput
<1>. QED  BY <1>1, <1>3, <1>4 DEF GenerateOutput

(* generateOutput never changes what the object was given.                 *)
LEMMA GenerateOutputKeeps ==
  ASSUME FTypeOK, NEW rec, GenerateOutput(rec)
  PROVE  fmt'.class = fmt.class /\ fmt'.input = fmt.input /\ fmt'.strict = fmt.strict
BY LoadedType DEF GenerateOutput, FTypeOK

(* One call of generateOutput, on any record, keeps the types.             *)
LEMMA GenerateOutputType ==
  ASSUME FTypeOK, NEW rec, IsRecord(rec), GenerateOutput(rec)
  PROVE  FTypeOK'
<1>1. fmt' \in [class: {"csv", "sql"}, input: Inputs \cup {NoInput}, inputChanged: BOOLEAN,
                strict: BOOLEAN, table: Names \cup {NoName}, columns: Seq(Names), pk: Nat]
  BY LoadedType DEF GenerateOutput, FTypeOK
<1>2. fmt'.class = fmt.class
  BY GenerateOutputKeeps
<1>3. /\ Loaded(fmt).columns \in Seq(Names)
      /\ Loaded(fmt).table \in Names \cup {NoName}
      /\ ValuesOf(rec, Loaded(fmt).pk) \in Seq(Values)
      /\ ValuesOf(rec, NoPk) \in Seq(Values)
  BY LoadedType, ValuesType DEF GenerateOutput, NoPk
<1>. DEFINE OutType(o) ==
       /\ o.kind = "insert" => fmt.class = "sql"
       /\ o.kind = "csv" => fmt.class = "csv"
       /\ o.kind \in {"nothing", "csv", "insert"}
       /\ o.header \in Seq(Names)
       /\ o.columns \in Seq(Names)
       /\ o.table \in Names \cup {NoName}
       /\ o.values \in Seq(Values)
<1>4. OutType(Nothing)
  BY DEF Nothing
<1>5. ASSUME fmt.class = "csv", NEW header \in {<<>>, Loaded(fmt).columns}
      PROVE  OutType(HeaderLine(header)) /\ OutType(Csv(header, rec))
  <2>1. <<>> \in Seq(Names) /\ <<>> \in Seq(Values)
    OBVIOUS
  <2>2. header \in Seq(Names)
    BY <1>3, <2>1
  <2>. QED  BY <1>3, <1>5, <2>1, <2>2 DEF HeaderLine, Csv
<1>6. ASSUME fmt.class = "sql"
      PROVE  OutType(Insert(Loaded(fmt), rec))
  BY <1>3, <1>6 DEF Insert
<1>7. /\ OutType(result'.out)
      /\ result'.thrown \in Thrown \cup {"no"}
      /\ result'.thrown # "no" => result'.out = Nothing
  BY Outcomes, <1>4, <1>5, <1>6 DEF NoResult
<1>. QED  BY <1>1, <1>2, <1>7 DEF FTypeOK

-----------------------------------------------------------------------------
(***************************************************************************)
(* Every step keeps the types: an object of one class only ever delivers   *)
(* strings of that class, and an exception delivers none.                  *)
(***************************************************************************)
THEOREM FormatterTypeCorrect == FSpec => []FTypeOK
<1>1. FInit => FTypeOK
  BY InitFormatterType
<1>2. FTypeOK /\ [FNext]_fvars => FTypeOK'
  <2>. SUFFICES ASSUME FTypeOK, [FNext]_fvars PROVE FTypeOK'
    OBVIOUS
  <2>1. ASSUME NEW input \in Inputs, SetInput(input) PROVE FTypeOK'
    BY <2>1 DEF SetInput, FTypeOK
  <2>2. ASSUME NEW s \in BOOLEAN, SetMode(s) PROVE FTypeOK'
    BY <2>2 DEF SetMode, FTypeOK
  <2>3. ASSUME NEW r \in Records, GenerateOutput(r) PROVE FTypeOK'
    BY <2>3, GenerateOutputType, RecordsAssumption
  <2>4. CASE UNCHANGED fvars
    BY <2>4 DEF fvars, FTypeOK
  <2>. QED  BY <2>1, <2>2, <2>3, <2>4 DEF FNext
<1>. QED  BY <1>1, <1>2, PTL DEF FSpec

(***************************************************************************)
(* An object that has taken its input is as the parse of that input leaves *)
(* it.  This is what makes ParsedFromCurrentInput inductive.               *)
(***************************************************************************)
Current == fmt.input # NoInput /\ ~fmt.inputChanged => fmt = Load(fmt)

LEMMA GenerateOutputCurrent ==
  ASSUME FTypeOK, Current, NEW rec, GenerateOutput(rec)
  PROVE  fmt' = Load(fmt')
<1>1. fmt' = Loaded(fmt) /\ fmt.input # NoInput
  BY DEF GenerateOutput
<1>2. Load(Load(fmt)) = Load(fmt)
  BY DEF Load, FTypeOK
<1>. QED  BY <1>1, <1>2 DEF Loaded, Current

LEMMA InitCurrent == FInit => Current
<1>. SUFFICES ASSUME FInit PROVE fmt.input = NoInput
  BY DEF Current
<1>1. PICK c \in {"csv", "sql"} : fmt = NewFormatter(c)
  BY DEF FInit
<1>. QED  BY <1>1 DEF NewFormatter

LEMMA StepCurrent == FTypeOK /\ Current /\ [FNext]_fvars => Current'
<1>. SUFFICES ASSUME FTypeOK, Current, [FNext]_fvars PROVE Current'
  OBVIOUS
<1>1. ASSUME NEW input \in Inputs, SetInput(input) PROVE Current'
  BY <1>1 DEF SetInput, FTypeOK, Current
<1>2. ASSUME NEW s \in BOOLEAN, SetMode(s) PROVE Current'
  <2>1. fmt' = [fmt EXCEPT !.strict = s]
    BY <1>2 DEF SetMode
  <2>2. fmt = Load(fmt) => fmt' = Load(fmt')
    BY <2>1 DEF Load, FTypeOK
  <2>. QED  BY <2>1, <2>2 DEF Current, FTypeOK
<1>3. ASSUME NEW r \in Records, GenerateOutput(r) PROVE Current'
  BY <1>3, GenerateOutputCurrent DEF Current
<1>4. CASE UNCHANGED fvars
  BY <1>4 DEF fvars, Current, Load
<1>. QED  BY <1>1, <1>2, <1>3, <1>4 DEF FNext

(***************************************************************************)
(* What an earlier input left behind is gone, also when its parse threw    *)
(* half-way, for any sequence of calls.                                    *)
(***************************************************************************)
THEOREM Parsed == FSpec => []ParsedFromCurrentInput
<1>1. FTypeOK /\ Current => ParsedFromCurrentInput
  BY DEF FTypeOK, Current, ParsedFromCurrentInput, Load
<1>. QED  BY FormatterTypeCorrect, InitCurrent, StepCurrent, <1>1, PTL DEF FSpec

(***************************************************************************)
(* In strict mode a row is as wide as the columns it goes with, whatever   *)
(* was parsed, rejected or switched before.                                *)
(***************************************************************************)
THEOREM StrictFits == FSpec => StrictRowsFit
<1>1. FTypeOK /\ [FNext]_fvars => [StrictRow]_fvars
  <2>. SUFFICES ASSUME FTypeOK, [FNext]_fvars,
                       result' # result, fmt'.strict, result'.out.values # <<>>
                PROVE  Len(result'.out.values) = Len(fmt'.columns)
    BY DEF StrictRow
  <2>1. PICK r \in Records : GenerateOutput(r)
    BY DEF FNext, SetInput, SetMode, fvars
  <2>2. fmt' = Loaded(fmt) /\ IsRecord(r)
    BY <2>1, RecordsAssumption DEF GenerateOutput
  <2>3. /\ ~WrongWidth(Loaded(fmt), r)
        /\ \E pk : result'.out.values = ValuesOf(r, pk)
    BY <2>1, Outcomes DEF Nothing, NoResult, HeaderLine, Csv, Insert
  <2>4. Len(r.cols) = Len(fmt'.columns)
    BY <2>2, <2>3 DEF WrongWidth
  <2>5. \A pk : Len(ValuesOf(r, pk)) = Len(r.cols)
    BY <2>2 DEF ValuesOf, IsRecord
  <2>. QED  BY <2>3, <2>4, <2>5
<1>. QED  BY FormatterTypeCorrect, <1>1, PTL DEF FSpec, StrictRowsFit

(* The call that delivers a CSV header is the one that takes the input.    *)
THEOREM HeaderOnce == FSpec => HeaderOncePerInput
<1>1. FTypeOK /\ [FNext]_fvars => [HeaderTakesInput]_fvars
  <2>. SUFFICES ASSUME FTypeOK, [FNext]_fvars, result' # result, result'.out.header # <<>>
                PROVE  fmt.inputChanged /\ ~fmt'.inputChanged
    BY DEF HeaderTakesInput
  <2>1. PICK r \in Records : GenerateOutput(r)
    BY DEF FNext, SetInput, SetMode, fvars
  <2>2. CASE fmt.inputChanged
    BY <2>1, <2>2, LoadedType DEF GenerateOutput, FTypeOK
  <2>3. CASE ~fmt.inputChanged
    <3>1. result'.out.header = <<>>
      BY <2>1, <2>3 DEF GenerateOutput, ParseThrows, CsvOutput, SqlOutput, Throw, Return,
                        Nothing, HeaderLine, Csv, Insert
    <3>. QED  BY <3>1
  <2>. QED  BY <2>2, <2>3
<1>. QED  BY FormatterTypeCorrect, <1>1, PTL DEF FSpec, HeaderOncePerInput

(***************************************************************************)
(* The rowid stands at the key's column of an accepted schema and at no    *)
(* other: the key is that of the current input (Current), and the record   *)
(* has passed the check of its type.                                       *)
(***************************************************************************)
THEOREM KeyIsRowid == FSpec => KeyColumnIsRowid
<1>1. FTypeOK /\ Current /\ [FNext]_fvars => [RowidAtKey]_fvars
  <2>. SUFFICES ASSUME FTypeOK, Current, [FNext]_fvars,
                       result' # result, result'.out.kind = "insert", fmt'.input.fails = "no",
                       NEW k \in DOMAIN result'.out.values
                PROVE  (result'.out.values[k].as = "Rowid") <=> (k = fmt'.input.pk)
    BY DEF RowidAtKey
  <2>1. PICK r \in Records : GenerateOutput(r)
    BY DEF FNext, SetInput, SetMode, fvars
  <2>2. fmt' = Loaded(fmt) /\ IsRecord(r)
    BY <2>1, RecordsAssumption DEF GenerateOutput
  <2>3. fmt' = Load(fmt')
    BY <2>1, GenerateOutputCurrent
  <2>4. fmt'.pk = fmt'.input.pk /\ fmt'.pk \in Nat
    BY <2>1, <2>2, <2>3, LoadedType DEF Load, GenerateOutput, FTypeOK
  <2>5. /\ result'.out.values = ValuesOf(r, fmt'.pk)
        /\ "passed" \in KeyChecks(fmt', r)
    BY <2>1, <2>2, Outcomes DEF Nothing, NoResult, HeaderLine, Csv, Insert
  <2>6. k \in 1..Len(r.cols) /\ r.cols[k] \in ColumnTypes
    BY <2>2, <2>5 DEF ValuesOf, IsRecord
  <2>7. k = fmt'.pk => r.cols[k] = "Null"
    BY <2>2, <2>4, <2>5, <2>6 DEF KeyChecks, NoPk, IsRecord
  <2>8. result'.out.values[k] = ValueAt(r, k, fmt'.pk)
    BY <2>5, <2>2, <2>6 DEF ValuesOf, IsRecord
  <2>. QED  BY <2>4, <2>6, <2>7, <2>8 DEF ValueAt, ColumnTypes
<1>. QED  BY FormatterTypeCorrect, InitCurrent, StepCurrent, <1>1, PTL DEF FSpec, KeyColumnIsRowid

===============================================================================
