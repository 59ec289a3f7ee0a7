----------------------------- MODULE MCFormatter -----------------------------
(* Inputs and records for checking Formatter. *)
EXTENDS Formatter

Sql(table, columns, pk, fails) ==
  [class |-> "sql", table |-> table, columns |-> columns, pk |-> pk, fails |-> fails]

(* Two tables of different width, keyed and not, one text per way to fail, *)
(* and a text without a statement.                                         *)
MCInputs ==
  { Sql("foo", <<"a", "b">>, NoPk, "no"),
    Sql("foo", <<"a", "b">>, 1, "no"),
    Sql("bar", <<"c", "d">>, 2, "no"),
    Sql("bar", <<"c">>, 1, "no"),
    Sql(NoName, <<>>, NoPk, "no"),
    Sql(NoName, <<>>, NoPk, "FileError"),
    Sql(NoName, <<>>, NoPk, "MalformedTableName"),
    Sql("foo", <<>>, NoPk, "MalformedParentheses"),
    Sql("foo", <<>>, NoPk, "Abort"),
    Sql("foo", <<"a">>, NoPk, "MalformedColumnDefinition"),
    Sql("foo", <<"a", "b">>, NoPk, "MalformedPrimaryKey"),
    [class |-> "csv", table |-> NoName, columns |-> <<"a", "b">>, pk |-> NoPk, fails |-> "no"],
    [class |-> "csv", table |-> NoName, columns |-> <<"c">>, pk |-> NoPk, fails |-> "no"],
    [class |-> "csv", table |-> NoName, columns |-> <<>>, pk |-> NoPk, fails |-> "no"] }

(* Records of up to two columns; the rowid tells them apart. *)
MCColumns == {<<>>} \cup {<<t>> : t \in ColumnTypes}
             \cup {<<t, u>> : t, u \in {"Null", "Number", "Blob", "Internal"}}

MCRecords == {[cols |-> c, rowid |-> 7, data |-> "d1"] : c \in MCColumns}
=============================================================================
