----------------------------- MODULE MCWalParser -----------------------------
(* Logs and command lines for checking WalParser. *)
EXTENDS WalParser

Sql(table, columns, pk, fails) ==
  [class |-> "sql", table |-> table, columns |-> columns, pk |-> pk, fails |-> fails]

Schema  == Sql("foo", <<"a", "b">>, 1, "no")
BadText == Sql("foo", <<"a", "b">>, NoPk, "MalformedPrimaryKey")
NoFile  == Sql(NoName, <<>>, NoPk, "FileError")
Columns == [class |-> "csv", table |-> NoName, columns |-> <<"a", "b">>, pk |-> NoPk, fails |-> "no"]

NameAlone == Sql("foo", <<>>, NoPk, "Abort")

MCInputs == {Schema, BadText, NoFile, NameAlone, Columns}

MCCell(res, cols, rowid, data) == [res |-> res, cols |-> cols, rowid |-> rowid, data |-> data]

Row1   == MCCell("row", <<"Null", "Number">>, 1, "d1")
Row2   == MCCell("row", <<"Null", "Blob">>, 2, "d2")
Wide   == MCCell("row", <<"Number", "Number", "String">>, 3, "d3")
Narrow == MCCell("row", <<"Internal">>, 4, "d4")
Empty  == MCCell("empty", <<>>, 5, NoData)
CutOff == MCCell("range", <<>>, 6, NoData)

MCPage(node, fit, cells) == [node |-> node, pointersFit |-> fit, cells |-> cells]

(* One page per thing that can happen to a page, two with empty cells.     *)
MCPages ==
  { MCPage("leafTable", TRUE, <<Row1, Empty>>),
    MCPage("leafTable", TRUE, <<Empty, Row2>>),
    MCPage("leafTable", TRUE, <<Narrow, Wide>>),
    MCPage("leafTable", TRUE, <<Row2, CutOff>>),
    MCPage("leafIndex", TRUE, <<Wide>>),
    MCPage("other", TRUE, <<Row1>>),
    MCPage("other", FALSE, <<>>),
    MCPage("interior", TRUE, <<Row1>>) }

Good  == "good"
Stale == "stale"

MCFrames == [salt: {Good}, page: MCPages]
            \cup [salt: {Stale}, page: {MCPage("leafTable", TRUE, <<Row1>>),
                                        MCPage("leafIndex", TRUE, <<Wide>>)}]

MCLogs == {<<>>} \cup {<<f>> : f \in MCFrames} \cup {<<f, g>> : f, g \in MCFrames}

Log(header, frames, tail) == [header |-> header, salt |-> Good, frames |-> frames, tail |-> tail]

MCFiles == {Log("good", l, "clean") : l \in MCLogs}
           \cup {Log("good", <<>>, "page"), Log("short", <<>>, "clean"), Log("missing", <<>>, "clean")}

Cmd(args, csv, sql, strict, valid, index) ==
  [args |-> args, csv |-> csv, sql |-> sql, strict |-> strict, validFrames |-> valid,
   index |-> index, verbose |-> "no", quiet |-> FALSE]

MCOptions ==
  {Cmd("good", c, NoInput, s, v, x) : c \in {Columns}, s, v, x \in BOOLEAN}
  \cup {Cmd("good", NoInput, q, s, v, x) : q \in {Schema, BadText}, s, v, x \in BOOLEAN}
  \cup {Cmd("good", NoInput, NoFile, FALSE, FALSE, FALSE),
        Cmd("good", NoInput, NameAlone, FALSE, FALSE, FALSE),
        Cmd("good", Columns, Schema, FALSE, FALSE, FALSE),
        Cmd("good", NoInput, NoInput, FALSE, FALSE, FALSE),
        Cmd("help", NoInput, NoInput, FALSE, FALSE, FALSE),
        Cmd("bad", NoInput, NoInput, FALSE, FALSE, FALSE),
        [Cmd("good", NoInput, Schema, FALSE, FALSE, FALSE) EXCEPT !.quiet = TRUE],
        [Cmd("good", NoInput, Schema, FALSE, FALSE, FALSE) EXCEPT !.verbose = "info"],
        [Cmd("good", NoInput, Schema, FALSE, FALSE, FALSE) EXCEPT !.verbose = "debug"]}

(* FNext is not used here: what is formatted comes from the log. *)
MCRecords == {}
=============================================================================
