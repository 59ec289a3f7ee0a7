---------------------------- MODULE MCPageReader ----------------------------
(* Pages for checking PageReader and PageCells: a header and pointers, then free bytes.  *)
EXTENDS PageCells

CONSTANT MaxBody  \* the length of the free bytes

PageHead(node, count) == <<node, 0, 0, 0, count, 0, 0, 0>>
Ptr(p) == <<0, p>>

OneCell(node, body) == PageHead(node, 1) \o Ptr(10) \o body

TwoCells(node, a, b) == PageHead(node, 2) \o Ptr(12) \o Ptr(12 + Len(a)) \o a \o b

ThreeCells(node, a, b, c) ==
  PageHead(node, 3) \o Ptr(14 + Len(a) + Len(b)) \o Ptr(14) \o Ptr(14 + Len(a)) \o a \o b \o c

(* Any few bytes: sizes, types and bytes that announce another. *)
Bodies == UNION {[1..n -> {0, 2, 3, 15, 16}] : n \in 0..MaxBody}

(* A record of two columns of any types, with all or some of its bytes. *)
Content(t, low) == [k \in 1..FormatOf(t).size |-> IF k \in low THEN 0 ELSE k + 1]

Record(t, u, low) == <<9, 7, 3, t, u>> \o Content(t, low) \o Content(u, low)

Typed == {Record(t, u, low) : t, u \in 0..15, low \in {{}, {7, 8}, {1, 2}}}

Cut(bytes, n) == SubSeq(bytes, 1, Len(bytes) - n)

(* Cells before and after one with a record header that says nothing. *)
Rows == {<<3, 1, 2, 9>>, <<3, 2, 3, 1, 0, 4>>, <<3, 3, 1>>, <<3, 4, 16, 3, 9>>, <<3, 5, 4, 2, 7>>,
         <<3, 6, 4, 16, 1, 9, 7>>}

MCPages ==
  {OneCell(13, b) : b \in Bodies}
  \cup {OneCell(13, b) : b \in Typed} \cup {OneCell(13, Cut(b, 1)) : b \in Typed}
  \cup {TwoCells(t, a, b) : t \in {13, 10, 1}, a, b \in Rows}
  \cup {ThreeCells(t, a, b, c) : t \in {13, 10}, a, b, c \in Rows}
  \cup {PageHead(t, c) \o Ptr(p) \o <<1, 1, 2, 9>> : t \in {13, 10, 5}, c \in 0..3, p \in {0, 8, 13, 14, 31}}
  \cup {Cut(PageHead(13, 1), n) : n \in 0..8}
=============================================================================
