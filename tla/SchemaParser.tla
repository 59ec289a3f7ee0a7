---------------------------- MODULE SchemaParser ----------------------------
(***************************************************************************)
(* SchemaFormatter::parseSchema with what it calls: the table, columns and *)
(* key that module Formatter takes as given by the text.                   *)
(*                                                                         *)
(* A text is a sequence of pieces: a piece is a blank, another white space *)
(* ("nl"), a parenthesis, a comma, a semicolon, a quote, or a part of a    *)
(* word.  Words that stand next to each other are one word of the text, so *)
(* that a keyword may be the start or the end of a name, as tokenPos sees  *)
(* it.  Texts that split a keyword are left out.                           *)
(***************************************************************************)
EXTENDS Integers, SequencesExt

CONSTANTS
  Words,    \* the parts of words
  Chars,    \* the number of characters of each piece
  Schemas   \* the texts, each with what SQL means by it

Marks  == {" ", "nl", "(", ")", ",", ";", "quote"}
Pieces == Words \cup Marks

Keywords    == {"CREATE", "TABLE", "EXISTS", "PRIMARY", "KEY", "INTEGER"}
Constraints == {"CONSTRAINT", "PRIMARY", "UNIQUE", "CHECK", "FOREIGN"}

ASSUME WordsAssumption == Words \cap Marks = {} /\ Keywords \cup Constraints \subseteq Words

ASSUME CharsAssumption == Chars \in [Pieces -> Nat \ {0}]

Name == Seq(Words)

(* The table, its columns and the columns of its primary key; plain tells  *)
(* whether the text is laid out like those of the tests.                   *)
ASSUME SchemasAssumption ==
  Schemas \subseteq [text: Seq(Pieces), table: Name, columns: Seq(Name), key: Seq(Name), plain: BOOLEAN]

VARIABLES
  schema,   \* the text that is parsed
  stmt,     \* statement
  it,       \* the position parsing is at; Len(stmt) + 1 is its end
  parts,    \* what is left of the split column definitions
  pc,       \* what is parsed next, or "parsed"
  table,    \* _tableName
  columns,  \* _columnNames
  pk,       \* _primaryKeyIndex, positions starting at 1
  fails     \* the exception thrown, or "no"

members == <<table, columns, pk>>
vars == <<schema, stmt, it, parts, pc, table, columns, pk, fails>>

NoName == <<>>
NoPk   == 0

-----------------------------------------------------------------------------
(* The first, and the last, position of a range that has a piece as asked  *)
(* for; the position after the range, or before it, if none has.           *)
FirstIn(t, from, stop, Test(_)) == Min({k \in from .. stop - 1 : Test(t[k])} \cup {stop})
LastIn(t, from, stop, Test(_))  == Max({k \in stop + 1 .. from : Test(t[k])} \cup {stop})

NotSpace(p) == p # " "
NotWord(p)  == p \in Marks

(* The end of the token if only blanks stand before it, or stop.           *)
TokenPos(t, token, from, stop) ==
  LET at == FirstIn(t, from, stop, NotSpace) IN
  IF at < stop /\ t[at] = token THEN at + 1 ELSE stop

(* tokenPos backwards, from the piece before from down to stop: its start. *)
TokenBefore(t, token, from, stop) ==
  LET at == LastIn(t, from - 1, stop - 1, NotSpace) IN
  IF at >= stop /\ t[at] = token THEN at ELSE stop

(***************************************************************************)
(* extractColnameFrom: blanks in front are passed over, and what ends the  *)
(* name must be a blank or the end of the range, else there is no name.    *)
(***************************************************************************)
NameAt(t, from, stop) ==
  LET start == FirstIn(t, from, stop, NotSpace)
      end   == FirstIn(t, start, stop, NotWord)
  IN [name |-> IF end < stop /\ t[end] # " " THEN NoName ELSE SubSeq(t, start, end - 1),
      next |-> end + 1]

DefectNameBefore(t, from, stop) ==   \* the piece at stop counts
  LET end   == LastIn(t, from, stop - 1, NotSpace)
      start == LastIn(t, end, stop - 1, NotWord)
  IN IF start >= stop /\ t[start] # " " THEN NoName ELSE SubSeq(t, start + 1, end)

(* The same backwards; the piece at stop is not looked at any more.        *)
NameBefore(t, from, stop) ==
  LET end   == LastIn(t, from, stop, NotSpace)
      start == LastIn(t, end, stop, NotWord)
  IN IF start > stop /\ t[start] # " " THEN NoName ELSE SubSeq(t, start + 1, end)

(* What stands at the positions of t that are in S. *)
At(t, S) ==
  LET kept[k \in 0 .. Len(t)] ==
        IF k = 0 THEN <<>> ELSE IF k \in S THEN Append(kept[k - 1], t[k]) ELSE kept[k - 1]
  IN kept[Len(t)]

(* tokenizers::split without its empty parts. *)
Split(t, delim) ==
  LET Ends(p) == p = delim
      from(k) == SubSeq(t, k, FirstIn(t, k, Len(t) + 1, Ends) - 1)
  IN At([k \in DOMAIN t |-> from(k)], {k \in DOMAIN t : t[k] # delim /\ (k = 1 \/ t[k - 1] = delim)})

Count(t, piece, from, to) == Cardinality({k \in from..to : t[k] = piece})

Open(t, from, to) == Count(t, "(", from, to) - Count(t, ")", from, to)

(* getParenthesesRange: the first parenthesis and the one that closes it.  *)
ParenthesesAt(t, from, stop) ==
  LET start == FirstIn(t, from, stop, LAMBDA p : p = "(") IN
  [start |-> start, stop |-> Min({k \in start + 1 .. stop - 1 : Open(t, start, k) = 0} \cup {stop})]

DefectClearAllParentheses(t) == t

(* Nothing is closed in t that is not opened in it before. *)
ClearAllParentheses(t) == At(t, {k \in DOMAIN t : Open(t, 1, k - 1) = 0 /\ t[k] # "("})

Characters(t) == MapThenSumSet(LAMBDA k : Chars[t[k]], DOMAIN t)

-----------------------------------------------------------------------------
End == Len(stmt) + 1

Reject(e) ==
  /\ fails' = e
  /\ pc' = "parsed"

(* parseSchema: the first statement that is not empty, behind its CREATE   *)
(* TABLE.  Where these are not found parsing goes on at the end.           *)
FindStatement ==
  /\ pc = "text"
  /\ LET clean == At(schema.text, {k \in DOMAIN schema.text : schema.text[k] # "nl"})
         found == Split(clean, ";")
     IN IF found = <<>> THEN pc' = "parsed" /\ UNCHANGED <<stmt, it>>
        ELSE LET s == found[1] IN
             /\ stmt' = s
             /\ it' = TokenPos(s, "TABLE", TokenPos(s, "CREATE", 1, Len(s) + 1), Len(s) + 1)
             /\ pc' = "name"
  /\ UNCHANGED <<schema, parts, members, fails>>

(* parseName.  IF NOT is not passed over: EXISTS is looked for right here. *)
TableName ==
  LET exists == TokenPos(stmt, "EXISTS", it, End) IN
  NameAt(stmt, IF exists = End THEN it ELSE exists, End)

DefectParseName ==   \* a name that is not found is taken for an empty one
  /\ pc = "name"
  /\ table' = TableName.name
  /\ it' = TableName.next
  /\ pc' = "params"
  /\ UNCHANGED <<schema, stmt, parts, columns, pk, fails>>

ParseName ==
  /\ pc = "name"
  /\ TableName.name # NoName
  /\ table' = TableName.name
  /\ it' = TableName.next
  /\ pc' = "params"
  /\ UNCHANGED <<schema, stmt, parts, columns, pk, fails>>

RejectName ==
  /\ pc = "name"
  /\ TableName.name = NoName
  /\ Reject("MalformedTableName")
  /\ UNCHANGED <<schema, stmt, it, parts, members>>

(* parseParams.  A name that ends the statement leaves the position behind *)
(* its end.  The search for a parenthesis from there is undefined: it runs *)
(* past the string until the build stops, or, as its start is behind its   *)
(* stop, gives up at once and finds none.                                  *)
ParamsOverrun ==
  /\ pc = "params"
  /\ it > End
  /\ \E e \in {"Abort", "MalformedParentheses"} : Reject(e)
  /\ UNCHANGED <<schema, stmt, it, parts, members>>

Params == ParenthesesAt(stmt, it, End)

(* "minimum table column can be: (a INT)" *)
MinDist == 5

Malformed == Characters(SubSeq(stmt, Params.start, Params.stop - 1)) < MinDist

RejectParams ==
  /\ pc = "params"
  /\ it <= End
  /\ Malformed
  /\ Reject("MalformedParentheses")
  /\ UNCHANGED <<schema, stmt, it, parts, members>>

Definitions == Split(ClearAllParentheses(SubSeq(stmt, Params.start + 1, Params.stop - 1)), ",")

OpenParams ==
  /\ pc = "params"
  /\ it <= End
  /\ ~Malformed
  /\ parts' = Definitions
  /\ pc' = "columns"
  /\ UNCHANGED <<schema, stmt, it, members, fails>>

(* A token that ends with the part is as good as none. *)
IsTableConstraint(part) ==
  \E c \in Constraints : TokenPos(part, c, 1, Len(part) + 1) # Len(part) + 1

NameIn(part) == NameAt(part, 1, Len(part) + 1).name

ColumnName == NameIn(parts[1])

TakeColumn ==
  /\ pc = "columns"
  /\ parts # <<>>
  /\ ~IsTableConstraint(parts[1])
  /\ ColumnName # NoName
  /\ columns' = Append(columns, ColumnName)
  /\ parts' = Tail(parts)
  /\ UNCHANGED <<schema, stmt, it, pc, table, pk, fails>>

DefectDropConstraint ==   \* nothing is read behind a constraint
  /\ pc = "columns"
  /\ parts # <<>>
  /\ IsTableConstraint(parts[1])
  /\ parts' = <<>>
  /\ UNCHANGED <<schema, stmt, it, pc, members, fails>>

DropConstraint ==
  /\ pc = "columns"
  /\ parts # <<>>
  /\ IsTableConstraint(parts[1])
  /\ parts' = Tail(parts)
  /\ UNCHANGED <<schema, stmt, it, pc, members, fails>>

RejectColumn ==
  /\ pc = "columns"
  /\ parts # <<>>
  /\ ~IsTableConstraint(parts[1])
  /\ ColumnName = NoName
  /\ Reject("MalformedColumnDefinition")
  /\ UNCHANGED <<schema, stmt, it, parts, members>>

(***************************************************************************)
(* findPrimaryColumnIndex: the first PRIMARY anywhere behind the table's   *)
(* name, within a word or within parentheses as well; then KEY and a       *)
(* parenthesis, or else INTEGER before and KEY behind it.  A missing       *)
(* INTEGER leaves the search at the start, where no name is found.         *)
(***************************************************************************)
Primary == FirstIn(stmt, it, End, LAMBDA p : p = "PRIMARY")

KeyBehind == TokenPos(stmt, "KEY", Primary + 1, End)

KeyName ==
  LET open    == IF KeyBehind = End THEN End ELSE TokenPos(stmt, "(", KeyBehind, End)
      integer == TokenBefore(stmt, "INTEGER", Primary, it)
  IN IF open # End THEN NameAt(stmt, open, End).name
     ELSE IF KeyBehind # End /\ integer > it THEN NameBefore(stmt, integer - 1, it) ELSE NoName

IsColumn(name) == \E k \in DOMAIN columns : columns[k] = name

DefectFindKey ==   \* the name is not looked for among the columns
  /\ pc = "columns"
  /\ parts = <<>>
  /\ Primary # End => KeyName # NoName
  /\ pk' = IF Primary = End THEN NoPk
           ELSE Min({k \in DOMAIN columns : columns[k] = KeyName} \cup {Len(columns) + 1})
  /\ pc' = "parsed"
  /\ UNCHANGED <<schema, stmt, it, parts, table, columns, fails>>

FindKey ==
  /\ pc = "columns"
  /\ parts = <<>>
  /\ Primary # End => IsColumn(KeyName)
  /\ pk' = IF Primary = End THEN NoPk
           ELSE Min({k \in DOMAIN columns : columns[k] = KeyName})
  /\ pc' = "parsed"
  /\ UNCHANGED <<schema, stmt, it, parts, table, columns, fails>>

DefectRejectKey ==   \* a key that is not understood is none
  /\ pc = "columns"
  /\ parts = <<>>
  /\ Primary # End
  /\ ~IsColumn(KeyName)
  /\ Reject("no")
  /\ UNCHANGED <<schema, stmt, it, parts, members>>

RejectKey ==
  /\ pc = "columns"
  /\ parts = <<>>
  /\ Primary # End
  /\ ~IsColumn(KeyName)
  /\ Reject("MalformedPrimaryKey")
  /\ UNCHANGED <<schema, stmt, it, parts, members>>

Stopped == pc = "parsed" /\ UNCHANGED vars

(* generateOutput has called reset(). *)
Init ==
  /\ schema \in Schemas
  /\ stmt = <<>>
  /\ it = 1
  /\ parts = <<>>
  /\ pc = "text"
  /\ table = NoName
  /\ columns = <<>>
  /\ pk = NoPk
  /\ fails = "no"

Next == \/ FindStatement \/ ParseName \/ RejectName \/ ParamsOverrun \/ RejectParams \/ OpenParams
        \/ TakeColumn \/ DropConstraint \/ RejectColumn \/ FindKey \/ RejectKey \/ Stopped

Spec == Init /\ [][Next]_vars

-----------------------------------------------------------------------------
(* Types.  A key, once found, is one of the columns.                       *)
TypeOK ==
  /\ stmt \in Seq(Pieces)
  /\ it \in 1 .. Len(stmt) + 2
  /\ parts \in Seq(Seq(Pieces))
  /\ pc \in {"text", "name", "params", "columns", "parsed"}
  /\ table \in Name
  /\ columns \in Seq(Name)
  /\ pk \in {NoPk} \cup DOMAIN columns
  /\ fails \in {"no", "MalformedTableName", "MalformedParentheses", "MalformedColumnDefinition",
                "MalformedPrimaryKey", "Abort"}

(* What Formatter makes of a text in one step. *)
F == INSTANCE Formatter WITH
       Inputs <- {}, Records <- {}, Names <- Name, NoName <- NoName, NoInput <- "none", NoData <- "none",
       fmt <- [table |-> table, columns |-> columns, pk |-> pk], result <- fails

(* A line's end is dropped: without a blank beside it, it joins two words. *)
Joined == \E k \in 2 .. Len(schema.text) - 1 :
            schema.text[k] = "nl" /\ {schema.text[k - 1], schema.text[k + 1]} \subseteq Words

HasIfNotExists == \E k \in DOMAIN schema.text :
                    IsPrefix(<<"IF", " ", "NOT", " ", "EXISTS">>, SubSeq(schema.text, k, Len(schema.text)))

(* A column whose name starts with the keyword of a constraint, or a       *)
(* constraint with nothing behind its keyword but parentheses.             *)
LooksOtherwise ==
  \/ \E k \in DOMAIN schema.columns : schema.columns[k][1] \in Constraints
  \/ \E k \in 2 .. Len(schema.text) : schema.text[k] = "(" /\ schema.text[k - 1] \in Constraints

(***************************************************************************)
(* "the ending of IF NOT EXISTS": these words may stand in front of the    *)
(* table's name and are passed over, so that the table of an accepted text *)
(* with them, its parentheses closed, is the one the text defines.         *)
(***************************************************************************)
IfNotExistsPassedOver ==
  pc = "parsed" /\ fails = "no" /\ HasIfNotExists /\ ~Joined /\ Open(stmt, 1, Len(stmt)) = 0 =>
    table = schema.table

LoadOf(input) ==
  F!Load([inputChanged |-> TRUE, table |-> NoName, columns |-> <<>>, pk |-> NoPk, input |-> input])

Loads == LoadOf([class |-> "sql", table |-> schema.table, columns |-> schema.columns, pk |-> pk, fails |-> fails])

(***************************************************************************)
(* What a parse leaves in the object is the text's definition, cut off as  *)
(* Formatter!Load says for the way the parse ended: the table from the     *)
(* name on, the columns up to the first malformed one, a key only of an    *)
(* accepted text; whatever is nested in parentheses, stands before the     *)
(* statement or follows it.  Texts with IF NOT EXISTS are left out, and    *)
(* texts in which a column looks like a constraint or the reverse, as what *)
(* the parser makes of them is not their definition.                       *)
(***************************************************************************)
LoadedAsDefined ==
  pc = "parsed" /\ stmt # <<>> /\ ~Joined /\ ~HasIfNotExists /\ ~LooksOtherwise =>
    /\ table = Loads.table
    /\ columns = Loads.columns
    /\ pk = Loads.pk

(* The input, in Formatter's sense, that a finished parse amounts to.      *)
Left == [class |-> "sql", table |-> table, columns |-> columns, pk |-> pk, fails |-> fails]

(***************************************************************************)
(* However a parse ends, what it leaves in the object is what Formatter!   *)
(* Load leaves of an input that ends the same way, whose rows can then be  *)
(* printed: an accepted statement has a name for its table, and no column  *)
(* ever has an empty one.                                                  *)
(***************************************************************************)
LeavesAnInput ==
  pc = "parsed" =>
    /\ Left \in F!InputType
    /\ LoadOf(Left).table = table /\ LoadOf(Left).columns = columns /\ LoadOf(Left).pk = pk
    /\ fails = "no" /\ stmt # <<>> => table # NoName
    /\ \A k \in DOMAIN columns : columns[k] # NoName

(* How many definitions were read when the parse ended. *)
DefinitionsRead ==
  IF fails = "MalformedColumnDefinition" THEN Len(Definitions) - Len(parts) ELSE Len(Definitions)

(***************************************************************************)
(* Once the parentheses are found, the columns are the names of the        *)
(* definitions between them that are no constraints, each once and in      *)
(* their order, whatever stands between two of them: of all the            *)
(* definitions, or of those before the first that has no name.             *)
(***************************************************************************)
ColumnsAreNames ==
  pc = "parsed" /\ stmt # <<>> /\ fails \in {"no", "MalformedColumnDefinition", "MalformedPrimaryKey"} =>
    /\ columns = At([k \in DOMAIN Definitions |-> NameIn(Definitions[k])],
                    {k \in 1 .. DefinitionsRead : ~IsTableConstraint(Definitions[k])})
    /\ \A k \in 1 .. DefinitionsRead : IsTableConstraint(Definitions[k]) \/ NameIn(Definitions[k]) # NoName
    /\ fails = "MalformedColumnDefinition" =>
         LET k == DefinitionsRead + 1 IN ~IsTableConstraint(Definitions[k]) /\ NameIn(Definitions[k]) = NoName

(***************************************************************************)
(* An accepted text has a key exactly if PRIMARY stands anywhere behind    *)
(* the table's name, and the key is the first of the columns of its name:  *)
(* no PRIMARY is passed over and none is accepted without a column.        *)
(***************************************************************************)
KeyIfPrimary ==
  pc = "parsed" /\ fails = "no" =>
    /\ pk # NoPk <=> \E k \in it .. Len(stmt) : stmt[k] = "PRIMARY"
    /\ pk # NoPk => pk \in DOMAIN columns /\ \A k \in 1 .. pk - 1 : columns[k] # columns[pk]

(***************************************************************************)
(* An accepted text has a key's position exactly if its definition has a   *)
(* primary key, and the column there, counted among those that were kept,  *)
(* is the key's first: a key findPrimaryColumnIndex does not understand    *)
(* is never passed over, and no other PRIMARY is mistaken for it.          *)
(***************************************************************************)
KeyAsDefined ==
  pc = "parsed" /\ fails = "no" /\ ~Joined =>
    IF schema.key = <<>> THEN pk = NoPk ELSE pk # NoPk /\ columns[pk] = schema.key[1]

(***************************************************************************)
(* A text laid out like those of SchemaFormatterTests.cpp is accepted,     *)
(* wherever in it the key stands and however many constraints it has.      *)
(***************************************************************************)
PlainAccepted == pc = "parsed" /\ schema.plain => fails = "no"

=============================================================================
