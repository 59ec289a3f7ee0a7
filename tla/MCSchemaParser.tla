--------------------------- MODULE MCSchemaParser ---------------------------
(* CREATE TABLE texts for checking SchemaParser. *)
EXTENDS SchemaParser

MCWords == Keywords \cup Constraints \cup {"foo", "a", "b", "ID", "IF", "NOT", "ASC", "TEXT"}

(* The words by their length; a mark has one character. *)
OfLength(n) ==
  CASE n = 1 -> Marks \cup {"a", "b"}
    [] n = 2 -> {"ID", "IF"}
    [] n = 3 -> {"foo", "KEY", "NOT", "ASC"}
    [] n = 4 -> {"TEXT"}
    [] n = 5 -> {"TABLE", "CHECK"}
    [] n = 6 -> {"CREATE", "EXISTS", "UNIQUE"}
    [] n = 7 -> {"PRIMARY", "INTEGER", "FOREIGN"}
    [] n = 10 -> {"CONSTRAINT"}
    [] OTHER -> {}

MCChars == [p \in MCWords \cup Marks |-> CHOOSE n \in 1..10 : p \in OfLength(n)]

(* An entry of the parentheses: the column and the key it defines, whether *)
(* it is malformed, and whether it is laid out like in the tests.          *)
Entry(text, column, key, bad, plain) ==
  [text |-> text, column |-> column, key |-> key, bad |-> bad, plain |-> plain]

A == <<"a">>
B == <<"b">>
InlineKey == <<" ", "INTEGER", " ", "PRIMARY", " ", "KEY">>

Plain ==
  { Entry(A \o <<" ", "INTEGER">>, <<A>>, <<>>, FALSE, TRUE),
    Entry(B \o <<" ", "TEXT", "(", "a", ",", "(", "b", ")", "a", ")">>, <<B>>, <<>>, FALSE, TRUE),
    Entry(<<"b", "UNIQUE", " ", "TEXT">>, <<<<"b", "UNIQUE">>>>, <<>>, FALSE, TRUE),
    Entry(A \o InlineKey, <<A>>, <<A>>, FALSE, TRUE),
    Entry(<<"PRIMARY", " ", "KEY", "(", "a", " ", "ASC", ")">>, <<>>, <<A>>, FALSE, TRUE),
    Entry(<<"UNIQUE", " ", "(", "a", ",", " ", "b", ")">>, <<>>, <<>>, FALSE, TRUE) }

Other ==
  { Entry(<<"PRIMARY", " ", "KEY", "(", "a", ")">>, <<>>, <<A>>, FALSE, FALSE),
    Entry(<<"PRIMARY", " ", "KEY", " ", "a">>, <<>>, <<A>>, FALSE, FALSE),
    Entry(<<"CONSTRAINT", " ", "b", " ", "PRIMARY", " ", "KEY", "(", "a", " ", ",", "b", ")">>, <<>>, <<A, B>>, FALSE, FALSE),
    Entry(B, <<B>>, <<>>, FALSE, FALSE),
    Entry(<<"a", "nl", "INTEGER">>, <<A>>, <<>>, FALSE, FALSE),
    Entry(A \o <<" ", "TEXT", " ", "PRIMARY", " ", "KEY">>, <<A>>, <<A>>, FALSE, FALSE),
    Entry(A \o <<" ", "TEXT">> \o InlineKey, <<A>>, <<A>>, FALSE, FALSE),
    Entry(<<"UNIQUE", "ID", " ", "TEXT">>, <<<<"UNIQUE", "ID">>>>, <<>>, FALSE, FALSE),
    Entry(<<"CHECK", "ID">> \o InlineKey, <<<<"CHECK", "ID">>>>, <<<<"CHECK", "ID">>>>, FALSE, FALSE),
    Entry(<<"ID", "PRIMARY", " ", "TEXT">>, <<<<"ID", "PRIMARY">>>>, <<>>, FALSE, FALSE),
    Entry(<<"UNIQUE", "(", "a", ")">>, <<>>, <<>>, FALSE, FALSE),
    Entry(<<"quote", "a", "quote">>, <<>>, <<>>, TRUE, FALSE),
    Entry(<<" ">>, <<>>, <<>>, TRUE, FALSE) }

Entries == Plain \cup Other

Between(entries, sep) ==
  IF entries = <<>> THEN <<>>
  ELSE FoldLeft(LAMBDA text, e : text \o sep \o e.text, entries[1].text, Tail(entries))

UpToBad(entries) == IF \E k \in DOMAIN entries : entries[k].bad
                    THEN SubSeq(entries, 1, Min({k \in DOMAIN entries : entries[k].bad}) - 1)
                    ELSE entries

Create == <<"CREATE", " ", "TABLE", " ">>

(* A text is plain only if its keys are columns of the table.              *)
Text(head, entries, sep, tail, plain) ==
  LET cols == FlattenSeq([k \in DOMAIN UpToBad(entries) |-> UpToBad(entries)[k].column])
      key  == FlattenSeq([k \in DOMAIN entries |-> entries[k].key])
  IN [text    |-> head \o Between(entries, sep) \o tail,
      table   |-> <<"foo">>,
      columns |-> cols,
      key     |-> key,
      plain   |-> /\ plain
                  /\ \A k \in DOMAIN entries : entries[k].plain
                  /\ ToSet(key) \subseteq ToSet(cols)]

Lists(max) == UNION {[1..n -> Entries] : n \in 1..max}

Standard == Create \o <<"foo", " ", "(">>

Heads ==
  { Create \o <<"foo", " ", " ", "(">>, Create \o <<"foo", "(">>,
    Create \o <<"IF", " ", "NOT", " ", "EXISTS", " ", "foo", " ", "(">>,
    Create \o <<"nl", "foo", " ", "(", "nl">>, <<"TABLE", " ", "foo", " ", "(">>,
    Create \o <<"(">>, <<" ">> \o Create \o <<"foo", " ", "(", " ">> }

Leads == {<<";">>, <<"nl", ";", ";">>, <<" ", ";">>}

Tails == {<<")">>, <<")", ";", "CREATE", " ", "TABLE", " ", "b", " ", "(", "b", ")", ";">>, <<>>}

(* All lists of two entries under each head, also with text behind them or *)
(* no closing parenthesis; of three in one layout; and no list at all.     *)
MCSchemas ==
  {Text(Standard, list, <<",", " ">>, <<")", ";">>, TRUE) : list \in Lists(2)}
  \cup {Text(Standard, list, <<",">>, <<")">>, FALSE) : list \in Lists(3)}
  \cup {Text(head, list, <<",", " ">>, tail, FALSE) : head \in Heads, list \in Lists(2), tail \in Tails}
  \cup {Text(lead \o Standard, list, <<",", " ">>, <<")">>, FALSE) : lead \in Leads, list \in Lists(1)}
  \cup {Text(Create \o name, <<>>, <<>>, <<>>, FALSE) : name \in {<<>>, <<"foo">>, <<"foo", " ">>, <<"foo", ";">>}}
  \cup {[Text(text, <<>>, <<>>, <<>>, FALSE) EXCEPT !.table = NoName] : text \in {<<>>, <<";", "nl">>}}
=============================================================================
