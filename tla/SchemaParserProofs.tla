------------------------- MODULE SchemaParserProofs -------------------------
(***************************************************************************)
(* Whatever text is parsed, what parseSchema leaves in the object is well  *)
(* formed: names are words of the text and a key is one of the columns.    *)
(***************************************************************************)
EXTENDS SchemaParser, NatProofs, SequenceTheorems

(* The first of some positions before a range ends, or its end. *)
LEMMA First ==
  ASSUME NEW stop \in Nat, NEW S \in SUBSET Nat, NEW m, m = Min(S \cup {stop})
  PROVE  m \in 0 .. stop /\ m \in S \cup {stop} /\ \A k \in S : m <= k
<1>. DEFINE T == S \cup {stop}
<1>1. T \in SUBSET Nat /\ T # {}
  OBVIOUS
<1>2. m \in T /\ \A k \in T : m <= k
  BY <1>1, MinIsMember
<1>. QED  BY <1>1, <1>2

LEMMA FirstFrom ==
  ASSUME NEW from \in Nat, NEW stop \in Nat, from <= stop, NEW S \in SUBSET (from .. stop - 1),
         NEW m, m = Min(S \cup {stop})
  PROVE  m \in from .. stop /\ \A k \in S : m <= k
<1>1. S \in SUBSET Nat
  OBVIOUS
<1>2. m \in 0 .. stop /\ m \in S \cup {stop} /\ \A k \in S : m <= k
  BY <1>1, First
<1>. QED  BY <1>2

LEMMA Piece ==
  ASSUME NEW t \in Seq(Pieces), NEW k \in 1 .. Len(t)
  PROVE  t[k] \in Pieces
BY ElementOfSeq, Zenon

(* tokenPos does not leave its range. *)
LEMMA TokenPosInRange ==
  ASSUME NEW t, NEW token, NEW from \in Nat \ {0}, NEW stop \in Nat \ {0}
  PROVE  TokenPos(t, token, from, stop) \in 1 .. stop
<1>. DEFINE S == {k \in from .. stop - 1 : NotSpace(t[k])}
<1>. PICK at : at = Min(S \cup {stop})
  OBVIOUS
<1>1. at \in 0 .. stop /\ at \in S \cup {stop}
  BY First
<1>2. at \in 1 .. stop
  BY <1>1
<1>3. at < stop => at + 1 \in 1 .. stop
  BY <1>2
<1>4. FirstIn(t, from, stop, NotSpace) = at
  BY DEF FirstIn
<1>. HIDE DEF S
<1>. QED  BY <1>2, <1>3, <1>4 DEF TokenPos

(***************************************************************************)
(* What extractColnameFrom finds is made of words, and the position behind *)
(* it is at most one behind the end of the text.                           *)
(***************************************************************************)
LEMMA NameFound ==
  ASSUME NEW t \in Seq(Pieces), NEW from \in Nat \ {0}, NEW stop, stop = Len(t) + 1
  PROVE  /\ NameAt(t, from, stop).name \in Name
         /\ NameAt(t, from, stop).next \in 1 .. Len(t) + 2
<1>. PICK n \in Nat : n = Len(t) /\ stop = n + 1
  OBVIOUS
<1>. DEFINE S == {k \in from .. stop - 1 : NotSpace(t[k])}
<1>. PICK start : start = Min(S \cup {stop})
  OBVIOUS
<1>1. start \in 1 .. stop
  <2>1. S \in SUBSET Nat /\ stop \in Nat
    OBVIOUS
  <2>2. 0 \notin S /\ stop # 0
    OBVIOUS
  <2>. HIDE DEF S
  <2>3. start \in 0 .. stop /\ start \in S \cup {stop}
    <3>1. \A x : x = Min(S \cup {stop}) => x \in 0 .. stop /\ x \in S \cup {stop}
      BY <2>1, First, Zenon
    <3>. QED  BY <3>1, Zenon
  <2>. QED  BY <2>1, <2>2, <2>3
<1>. DEFINE E == {k \in start .. stop - 1 : NotWord(t[k])}
<1>. PICK end : end = Min(E \cup {stop})
  OBVIOUS
<1>2. end \in start .. stop /\ \A k \in E : end <= k
  <2>1. E \in SUBSET (start .. stop - 1)
    BY Zenon
  <2>. HIDE DEF S, E
  <2>2. stop \in Nat /\ start \in Nat /\ start <= stop
    BY <1>1
  <2>. QED  BY <2>1, <2>2, FirstFrom, Zenon
<1>3. FirstIn(t, from, stop, NotSpace) = start
  BY DEF FirstIn
<1>4. FirstIn(t, start, stop, NotWord) = end
  BY DEF FirstIn
<1>5. ASSUME NEW k \in start .. end - 1 PROVE t[k] \in Words
  <2>1. k \in 1 .. n /\ k \in start .. stop - 1 /\ ~(end <= k)
    BY <1>1, <1>2
  <2>2. k \notin E
    BY <1>2, <2>1
  <2>3. ~NotWord(t[k])
    BY <2>1, <2>2
  <2>4. t[k] \in Pieces
    BY <2>1, Piece
  <2>. QED  BY <2>3, <2>4 DEF NotWord, Pieces
<1>. HIDE DEF S, E
<1>6. SubSeq(t, start, end - 1) \in Seq(Words)
  <2>1. start \in Int /\ end - 1 \in Int
    BY <1>1, <1>2
  <2>2. \A k \in start .. end - 1 : t[k] \in Words
    BY <1>5
  <2>. QED  BY <2>1, <2>2, SubSeqProperties
<1>7. NoName \in Seq(Words)
  BY DEF NoName
<1>8. end + 1 \in 1 .. n + 2
  BY <1>1, <1>2
<1>9. NameAt(t, from, stop).next = end + 1
  BY <1>3, <1>4, Zenon DEF NameAt
<1>10. NameAt(t, from, stop).name \in Name
  <2>1. NameAt(t, from, stop).name = IF end < stop /\ t[end] # " " THEN NoName ELSE SubSeq(t, start, end - 1)
    BY <1>3, <1>4, Zenon DEF NameAt
  <2>. QED  BY <1>6, <1>7, <2>1 DEF Name
<1>. QED  BY <1>8, <1>9, <1>10

-----------------------------------------------------------------------------
(* kept[k] is what stands at the positions in S up to k. *)
IsKept(t, S, kept) ==
  kept = [k \in 0 .. Len(t) |->
            IF k = 0 THEN <<>> ELSE IF k \in S THEN Append(kept[k - 1], t[k]) ELSE kept[k - 1]]

LEMMA KeptExists ==
  ASSUME NEW X, NEW t \in Seq(X), NEW S
  PROVE  \E kept \in [0 .. Len(t) -> Seq(X)] : IsKept(t, S, kept)
<1>. PICK n \in Nat : n = Len(t)
  OBVIOUS
<1>. DEFINE step == [x \in (1..n) \X Seq(X) |-> IF x[1] \in S THEN Append(x[2], t[x[1]]) ELSE x[2]]
<1>1. \A k \in 1..n, s \in Seq(X) : step[<<k, s>>] = IF k \in S THEN Append(s, t[k]) ELSE s
  OBVIOUS
<1>2. step \in [(1..n) \X Seq(X) -> Seq(X)]
  <2>1. ASSUME NEW k \in 1..n, NEW s \in Seq(X) PROVE Append(s, t[k]) \in Seq(X)
    <3>1. t[k] \in X
      BY ElementOfSeq
    <3>. QED  BY <3>1, AppendProperties, Zenon
  <2>. QED  BY <2>1
<1>3. PICK f \in [0..n -> Seq(X)] : f[0] = <<>> /\ \A k \in 1..n : f[k] = step[<<k, f[k-1]>>]
  <2>1. <<>> \in Seq(X)
    OBVIOUS
  <2>. HIDE DEF step
  <2>2. \E f \in [0..n -> Seq(X)] : Follows(f, n, <<>>, step)
    BY <1>2, <2>1, BoundedRecursion
  <2>. QED  BY <2>2 DEF Follows
<1>4. ASSUME NEW k \in 0..n
      PROVE  f[k] = IF k = 0 THEN <<>> ELSE IF k \in S THEN Append(f[k - 1], t[k]) ELSE f[k - 1]
  <2>1. k # 0 => k \in 1..n /\ f[k - 1] \in Seq(X)
    OBVIOUS
  <2>. HIDE DEF step
  <2>2. k # 0 => step[<<k, f[k-1]>>] = IF k \in S THEN Append(f[k - 1], t[k]) ELSE f[k - 1]
    BY <1>1, <2>1, Zenon
  <2>3. IF k = 0 THEN f[k] = <<>> ELSE f[k] = step[<<k, f[k-1]>>]
    BY <1>3, <2>1, Zenon
  <2>. QED  BY <2>2, <2>3, Zenon
<1>. HIDE DEF step
<1>5. f = [k \in 0..n |-> IF k = 0 THEN <<>> ELSE IF k \in S THEN Append(f[k - 1], t[k]) ELSE f[k - 1]]
  BY <1>3, <1>4, Zenon
<1>6. IsKept(t, S, f)
  BY <1>5 DEF IsKept
<1>. QED  BY <1>6

LEMMA KeptStep ==
  ASSUME NEW t, NEW S, NEW f, IsKept(t, S, f), Len(t) \in Nat
  PROVE  /\ f[0] = <<>>
         /\ \A k \in 1 .. Len(t) : f[k] = IF k \in S THEN Append(f[k - 1], t[k]) ELSE f[k - 1]
<1>. PICK n \in Nat : n = Len(t)
  OBVIOUS
<1>1. ASSUME NEW k \in 0..n
      PROVE  f[k] = IF k = 0 THEN <<>> ELSE IF k \in S THEN Append(f[k - 1], t[k]) ELSE f[k - 1]
  BY Zenon DEF IsKept
<1>2. \A k \in 1..n : k \in 0..n /\ k # 0
  OBVIOUS
<1>3. 0 \in 0..n
  OBVIOUS
<1>. QED  BY <1>1, <1>2, <1>3, Zenon

LEMMA KeptIsUnique ==
  ASSUME NEW t, NEW S, Len(t) \in Nat, NEW f, IsKept(t, S, f), NEW g, IsKept(t, S, g)
  PROVE  f[Len(t)] = g[Len(t)]
<1>. PICK n \in Nat : n = Len(t)
  OBVIOUS
<1>. DEFINE A == {k \in Nat : k <= n => f[k] = g[k]}
<1>1. /\ f[0] = g[0]
      /\ \A k \in 1..n : f[k] = IF k \in S THEN Append(f[k - 1], t[k]) ELSE f[k - 1]
      /\ \A k \in 1..n : g[k] = IF k \in S THEN Append(g[k - 1], t[k]) ELSE g[k - 1]
  <2>1. f[0] = <<>> /\ g[0] = <<>>
    BY KeptStep
  <2>2. ASSUME NEW k \in 1..n PROVE f[k] = IF k \in S THEN Append(f[k - 1], t[k]) ELSE f[k - 1]
    BY KeptStep
  <2>3. ASSUME NEW k \in 1..n PROVE g[k] = IF k \in S THEN Append(g[k - 1], t[k]) ELSE g[k - 1]
    BY KeptStep
  <2>. QED  BY <2>1, <2>2, <2>3
<1>2. 0 \in A
  BY <1>1
<1>3. ASSUME NEW k \in Nat, k \in A PROVE k + 1 \in A
  <2>. SUFFICES ASSUME k + 1 <= n PROVE f[k + 1] = g[k + 1]
    OBVIOUS
  <2>1. f[k] = g[k] /\ k + 1 \in 1..n /\ (k + 1) - 1 = k
    BY <1>3
  <2>. QED  BY <1>1, <2>1
<1>4. n \in A
  <2>. HIDE DEF A
  <2>. QED  BY <1>2, <1>3, Induction
<1>. QED  BY <1>4

(* Parts of a text are of the same pieces. *)
LEMMA AtIsSeq ==
  ASSUME NEW X, NEW t \in Seq(X), NEW S
  PROVE  At(t, S) \in Seq(X)
<1>1. PICK kept \in [0 .. Len(t) -> Seq(X)] : IsKept(t, S, kept)
  BY KeptExists
<1>. PICK f : f = CHOOSE g : IsKept(t, S, g)
  OBVIOUS
<1>2. IsKept(t, S, f)
  BY <1>1
<1>3. At(t, S) = f[Len(t)]
  BY DEF At, IsKept
<1>4. Len(t) \in Nat
  OBVIOUS
<1>5. f[Len(t)] = kept[Len(t)]
  BY <1>1, <1>2, <1>4, KeptIsUnique
<1>6. kept[Len(t)] \in Seq(X)
  BY <1>4
<1>. QED  BY <1>3, <1>5, <1>6

(* tokenizers::split gives parts of the text. *)
LEMMA SplitIsSeq ==
  ASSUME NEW t \in Seq(Pieces), NEW delim
  PROVE  Split(t, delim) \in Seq(Seq(Pieces))
<1>. PICK n \in Nat : n = Len(t) /\ DOMAIN t = 1 .. n
  OBVIOUS
<1>. PICK stop \in Nat : stop = n + 1
  OBVIOUS
<1>. DEFINE e(k) == FirstIn(t, k, stop, LAMBDA p : p = delim)
            f == [k \in DOMAIN t |-> SubSeq(t, k, e(k) - 1)]
<1>1. ASSUME NEW k \in 1 .. n PROVE SubSeq(t, k, e(k) - 1) \in Seq(Pieces)
  <2>. DEFINE K == {j \in k .. stop - 1 : t[j] = delim}
  <2>. PICK m : m = Min(K \cup {stop})
    OBVIOUS
  <2>1. K \in SUBSET (k .. stop - 1)
    BY Zenon
  <2>2. e(k) = m
    BY DEF FirstIn
  <2>. HIDE DEF K, e
  <2>3. k \in Nat /\ k <= stop
    OBVIOUS
  <2>4. m \in k .. stop
    BY <2>1, <2>3, FirstFrom, Zenon
  <2>5. k \in 1 .. n + 1 /\ k \in Int /\ m - 1 \in Int /\ m - 1 <= n
    BY <2>4
  <2>6. \A j \in k .. m - 1 : t[j] \in Pieces
    <3>1. \A j \in k .. m - 1 : j \in 1 .. Len(t)
      BY <2>5
    <3>. QED  BY <3>1, Piece
  <2>. QED  BY <2>2, <2>5, <2>6, SubSeqProperties
<1>2. f \in Seq(Seq(Pieces))
  <2>. HIDE DEF e
  <2>. QED  BY <1>1
<1>. PICK T : T = {k \in DOMAIN t : t[k] # delim /\ (k = 1 \/ t[k - 1] = delim)}
  OBVIOUS
<1>3. Split(t, delim) = At(f, T)
  BY DEF Split
<1>. HIDE DEF f
<1>. QED  BY <1>2, <1>3, AtIsSeq

LEMMA ClearIsSeq ==
  ASSUME NEW t \in Seq(Pieces)
  PROVE  ClearAllParentheses(t) \in Seq(Pieces)
BY AtIsSeq DEF ClearAllParentheses

(* getParenthesesRange stays in the range and does not end before it starts. *)
LEMMA ParenthesesInRange ==
  ASSUME NEW t, NEW from \in Nat \ {0}, NEW stop \in Nat, from <= stop
  PROVE  /\ ParenthesesAt(t, from, stop).start \in from .. stop
         /\ ParenthesesAt(t, from, stop).stop \in ParenthesesAt(t, from, stop).start .. stop
<1>. DEFINE S == {k \in from .. stop - 1 : t[k] = "("}
<1>. PICK start : start = Min(S \cup {stop})
  OBVIOUS
<1>. DEFINE E == {k \in start + 1 .. stop - 1 : Open(t, start, k) = 0}
<1>. PICK end : end = Min(E \cup {stop})
  OBVIOUS
<1>1. ParenthesesAt(t, from, stop) = [start |-> start, stop |-> end]
  BY DEF ParenthesesAt, FirstIn
<1>2. start \in from .. stop
  <2>1. S \in SUBSET (from .. stop - 1) /\ from \in Nat
    OBVIOUS
  <2>. HIDE DEF S
  <2>. QED  BY <2>1, FirstFrom, Zenon
<1>3. end \in start .. stop
  <2>1. E \in SUBSET (start .. stop - 1)
    BY <1>2
  <2>. HIDE DEF E
  <2>2. start \in Nat /\ start <= stop
    BY <1>2
  <2>. QED  BY <2>1, <2>2, FirstFrom, Zenon
<1>. QED  BY <1>1, <1>2, <1>3

-----------------------------------------------------------------------------
IInv == TypeOK /\ schema \in Schemas

LEMMA InitIInv == Init => IInv
BY DEF Init, IInv, TypeOK, Name, NoName, NoPk

LEMMA FirstOf ==
  ASSUME NEW X, NEW parsed \in Seq(X), parsed # <<>>
  PROVE  parsed[1] \in X
OBVIOUS

LEMMA StatementStart ==
  ASSUME NEW s, Len(s) \in Nat
  PROVE  TokenPos(s, "TABLE", TokenPos(s, "CREATE", 1, Len(s) + 1), Len(s) + 1) \in 1 .. Len(s) + 2
<1>. PICK stop \in Nat \ {0} : stop = Len(s) + 1
  OBVIOUS
<1>. PICK at : at = TokenPos(s, "CREATE", 1, stop)
  OBVIOUS
<1>1. 1 \in Nat \ {0}
  OBVIOUS
<1>2. at \in 1 .. stop
  BY <1>1, TokenPosInRange, Zenon
<1>3. at \in Nat \ {0}
  BY <1>2
<1>4. TokenPos(s, "TABLE", at, stop) \in 1 .. stop
  BY <1>3, TokenPosInRange, Zenon
<1>5. 1 .. stop \subseteq 1 .. Len(s) + 2
  OBVIOUS
<1>. QED  BY <1>4, <1>5, Zenon

(* The statement is a part of the text, and parsing starts within it.      *)
LEMMA FindStatementTypes ==
  ASSUME IInv, FindStatement
  PROVE  TypeOK'
<1>. USE DEF IInv
<1>. PICK clean : clean = At(schema.text, {k \in DOMAIN schema.text : schema.text[k] # "nl"})
  OBVIOUS
<1>. PICK found : found = Split(clean, ";")
  OBVIOUS
<1>1. found \in Seq(Seq(Pieces))
  <2>1. schema.text \in Seq(Pieces)
    BY SchemasAssumption
  <2>2. clean \in Seq(Pieces)
    BY <2>1, AtIsSeq
  <2>. QED  BY <2>2, SplitIsSeq
<1>2. CASE found = <<>>
  <2>1. pc' = "parsed" /\ UNCHANGED <<stmt, it, parts, table, columns, pk, fails>>
    BY <1>2 DEF FindStatement, members
  <2>. QED  BY <2>1 DEF TypeOK
<1>3. CASE found # <<>>
  <2>. DEFINE s == found[1]
              stop == Len(s) + 1
              at == TokenPos(s, "CREATE", 1, stop)
  <2>1. s \in Seq(Pieces) /\ Len(s) \in Nat
    <3>1. s \in Seq(Pieces)
      BY <1>1, <1>3, FirstOf
    <3>. HIDE DEF s, stop
    <3>. QED  BY <3>1, LenProperties, Zenon
  <2>2. /\ stmt' = s /\ it' = TokenPos(s, "TABLE", at, stop) /\ pc' = "name"
        /\ UNCHANGED <<parts, table, columns, pk, fails>>
    BY <1>3 DEF FindStatement, members
  <2>3. TokenPos(s, "TABLE", at, stop) \in 1 .. Len(s) + 2
    BY <2>1, StatementStart, Zenon
  <2>. HIDE DEF at, stop
  <2>4. it' \in 1 .. Len(stmt') + 2
    BY <2>2, <2>3, Zenon
  <2>. HIDE DEF s
  <2>. QED  BY <2>1, <2>2, <2>4 DEF TypeOK
<1>. QED  BY <1>2, <1>3

(* The table's name. *)
LEMMA ParseNameTypes ==
  ASSUME IInv, ParseName
  PROVE  TypeOK'
<1>. USE DEF IInv
<1>. PICK exists : exists = TokenPos(stmt, "EXISTS", it, End)
  OBVIOUS
<1>. PICK from : from = IF exists = End THEN it ELSE exists
  OBVIOUS
<1>1. stmt \in Seq(Pieces) /\ it \in Nat \ {0} /\ End \in Nat \ {0} /\ End = Len(stmt) + 1
  BY DEF TypeOK, End
<1>2. exists \in 1 .. End
  BY <1>1, TokenPosInRange
<1>3. from \in Nat \ {0}
  BY <1>1, <1>2
<1>4. TableName = NameAt(stmt, from, End)
  BY DEF TableName
<1>5. TableName.name \in Name /\ TableName.next \in 1 .. Len(stmt) + 2
  BY <1>1, <1>3, <1>4, NameFound
<1>. QED  BY <1>5 DEF ParseName, TypeOK

LEMMA InnerPart ==
  ASSUME NEW X, NEW t \in Seq(X), NEW a \in 1 .. Len(t) + 1, NEW b \in a .. Len(t) + 1
  PROVE  SubSeq(t, a + 1, b - 1) \in Seq(X)
<1>1. a + 1 \in Int /\ b - 1 \in Int /\ \A i \in a + 1 .. b - 1 : i \in 1 .. Len(t)
  OBVIOUS
<1>2. \A i \in a + 1 .. b - 1 : t[i] \in X
  BY <1>1
<1>. QED  BY <1>1, <1>2, SubSeqProperties

(* The parts between the parentheses. *)
LEMMA OpenParamsTypes ==
  ASSUME IInv, OpenParams
  PROVE  TypeOK'
<1>. PICK n \in Nat : n = Len(stmt)
  BY DEF IInv, TypeOK
<1>1. stmt \in Seq(Pieces) /\ it \in Nat \ {0} /\ it <= End /\ End = n + 1
  <2>1. stmt \in Seq(Pieces) /\ it \in 1 .. n + 2 /\ End = n + 1
    BY DEF IInv, TypeOK, End
  <2>2. it <= End
    BY DEF OpenParams
  <2>. QED  BY <2>1, <2>2
<1>. PICK a, b : a = Params.start /\ b = Params.stop
  OBVIOUS
<1>2. a \in it .. End /\ b \in a .. End
  BY <1>1, ParenthesesInRange DEF Params
<1>. PICK t : t = SubSeq(stmt, a + 1, b - 1)
  OBVIOUS
<1>3. t \in Seq(Pieces)
  BY <1>1, <1>2, InnerPart
<1>4. Split(ClearAllParentheses(t), ",") \in Seq(Seq(Pieces))
  BY <1>3, ClearIsSeq, SplitIsSeq
<1>5. parts' \in Seq(Seq(Pieces)) /\ pc' = "columns" /\ UNCHANGED <<stmt, it, table, columns, pk, fails>>
  BY <1>4 DEF OpenParams, Definitions, members
<1>. QED  BY <1>5 DEF IInv, TypeOK

(* A column is added behind those before. *)
LEMMA TakeColumnTypes ==
  ASSUME IInv, TakeColumn
  PROVE  TypeOK'
<1>. USE DEF IInv
<1>1. parts \in Seq(Seq(Pieces)) /\ parts # <<>> /\ columns \in Seq(Name)
  BY DEF TypeOK, TakeColumn
<1>2. parts[1] \in Seq(Pieces) /\ Tail(parts) \in Seq(Seq(Pieces))
  BY <1>1
<1>3. ColumnName \in Name
  BY <1>2, NameFound DEF ColumnName, NameIn
<1>. PICK name \in Name : name = ColumnName
  BY <1>3
<1>4. /\ columns' = Append(columns, name) /\ parts' = Tail(parts)
      /\ UNCHANGED <<stmt, it, pc, table, pk, fails>>
  BY DEF TakeColumn
<1>5. columns' \in Seq(Name) /\ DOMAIN columns \subseteq DOMAIN columns'
  BY <1>1, <1>4
<1>. QED  BY <1>2, <1>4, <1>5 DEF TypeOK

LEMMA DropConstraintTypes ==
  ASSUME IInv, DropConstraint
  PROVE  TypeOK'
<1>1. parts \in Seq(Seq(Pieces)) /\ parts # <<>>
  BY DEF IInv, TypeOK, DropConstraint
<1>2. Tail(parts) \in Seq(Seq(Pieces))
  BY <1>1
<1>. QED  BY <1>2 DEF IInv, TypeOK, DropConstraint, members

(* The key is the first of the columns with its name. *)
LEMMA FindKeyTypes ==
  ASSUME IInv, FindKey
  PROVE  TypeOK'
<1>. DEFINE K == {k \in DOMAIN columns : columns[k] = KeyName}
<1>1. columns \in Seq(Name)
  BY DEF IInv, TypeOK
<1>2. Primary # End => K # {}
  BY DEF FindKey, IsColumn
<1>3. Primary # End => Min(K) \in DOMAIN columns
  <2>. SUFFICES ASSUME K # {} PROVE Min(K) \in DOMAIN columns
    BY <1>2
  <2>1. K \in SUBSET Nat /\ K \subseteq DOMAIN columns
    BY <1>1
  <2>. HIDE DEF K
  <2>2. Min(K) \in K
    BY <2>1, MinIsMember
  <2>. QED  BY <2>1, <2>2
<1>4. pk' = IF Primary = End THEN NoPk ELSE Min(K)
  BY DEF FindKey
<1>. HIDE DEF K
<1>5. pk' \in {NoPk} \cup DOMAIN columns
  BY <1>3, <1>4
<1>6. pc' = "parsed" /\ UNCHANGED <<stmt, it, parts, table, columns, fails>>
  BY DEF FindKey
<1>. QED  BY <1>5, <1>6 DEF IInv, TypeOK

LEMMA NextTypes ==
  ASSUME IInv, [Next]_vars
  PROVE  IInv'
<1>1. schema' = schema
  BY DEF Next, vars, FindStatement, ParseName, RejectName, ParamsOverrun, RejectParams, OpenParams,
         TakeColumn, DropConstraint, RejectColumn, FindKey, RejectKey, Stopped
<1>2. CASE RejectName \/ ParamsOverrun \/ RejectParams \/ RejectColumn \/ RejectKey
  <2>1. /\ UNCHANGED <<stmt, it, parts, table, columns, pk>> /\ pc' = "parsed"
        /\ fails' \in {"MalformedTableName", "MalformedParentheses", "MalformedColumnDefinition",
                       "MalformedPrimaryKey", "Abort"}
    BY <1>2 DEF RejectName, ParamsOverrun, RejectParams, RejectColumn, RejectKey, Reject, members
  <2>. QED  BY <1>1, <2>1 DEF IInv, TypeOK
<1>3. CASE Stopped \/ UNCHANGED vars
  BY <1>3 DEF IInv, TypeOK, Stopped, vars, members
<1>4. TypeOK'
  BY <1>2, <1>3, FindStatementTypes, ParseNameTypes, OpenParamsTypes, TakeColumnTypes,
     DropConstraintTypes, FindKeyTypes DEF Next, IInv
<1>. QED  BY <1>1, <1>4 DEF IInv

(***************************************************************************)
(* However parseSchema ends, with the whole text or by an exception half   *)
(* way, the search is at most one position behind the end of the statement,*)
(* the table and the columns left in the formatter are made of words, and  *)
(* the key is one of these columns.                                        *)
(***************************************************************************)
THEOREM TypeCorrect == Spec => []TypeOK
<1>1. Spec => []IInv
  BY InitIInv, NextTypes, PTL DEF Spec
<1>2. IInv => TypeOK
  BY DEF IInv
<1>. QED  BY <1>1, <1>2, PTL

-----------------------------------------------------------------------------
(* What the members hold while a text is parsed, and when the parse ends.  *)
Halfway ==
  /\ pc # "parsed" => fails = "no" /\ pk = NoPk
  /\ pc \in {"text", "name"} => table = NoName
  /\ pc \in {"params", "columns"} => table # NoName
  /\ pc \in {"text", "name", "params"} => columns = <<>>
  /\ pc = "text" => stmt = <<>>
  /\ \A k \in DOMAIN columns : columns[k] # NoName

Ended ==
  pc = "parsed" =>
    /\ fails = "MalformedTableName" => table = NoName
    /\ fails \in {"MalformedTableName", "MalformedParentheses", "Abort"} => columns = <<>>
    /\ fails # "no" => pk = NoPk
    /\ fails = "no" /\ stmt # <<>> => table # NoName

LInv == IInv /\ Halfway /\ Ended /\ KeyIfPrimary

LEMMA InitLInv == Init => LInv
BY InitIInv DEF Init, LInv, Halfway, Ended, KeyIfPrimary

(* A parse that has not ended has no result to speak of. *)
LEMMA GoesOn ==
  ASSUME pc' # "parsed"
  PROVE  Ended' /\ KeyIfPrimary'
BY DEF Ended, KeyIfPrimary

LEMMA FindStatementLeaves ==
  ASSUME LInv, FindStatement
  PROVE  Halfway' /\ Ended' /\ KeyIfPrimary'
<1>1. /\ pc = "text" /\ UNCHANGED <<table, columns, pk, fails>>
      /\ pc' = "name" \/ (pc' = "parsed" /\ UNCHANGED <<stmt, it>>)
  <2>. PICK found : found = Split(At(schema.text, {k \in DOMAIN schema.text : schema.text[k] # "nl"}), ";")
    OBVIOUS
  <2>1. CASE found = <<>>
    BY <2>1 DEF FindStatement, members
  <2>2. CASE found # <<>>
    BY <2>2 DEF FindStatement, members
  <2>. QED  BY <2>1, <2>2
<1>2. table = NoName /\ columns = <<>> /\ pk = NoPk /\ fails = "no" /\ stmt = <<>>
  BY <1>1 DEF LInv, Halfway
<1>3. CASE pc' = "name"
  BY <1>1, <1>2, <1>3, GoesOn DEF Halfway
<1>4. CASE pc' = "parsed"
  <2>1. ~ \E k \in it .. Len(stmt) : stmt[k] = "PRIMARY"
    <3>1. it \in Nat \ {0} /\ Len(stmt) = 0
      BY <1>2 DEF LInv, IInv, TypeOK
    <3>. QED  BY <3>1
  <2>. PICK found : found = (\E k \in it .. Len(stmt) : stmt[k] = "PRIMARY")
    OBVIOUS
  <2>2. it' = it /\ stmt' = stmt /\ pk' = NoPk
    BY <1>1, <1>2, <1>4
  <2>3. KeyIfPrimary'
    BY <2>1, <2>2 DEF KeyIfPrimary
  <2>. QED  BY <1>1, <1>2, <1>4, <2>3 DEF Halfway, Ended
<1>. QED  BY <1>1, <1>3, <1>4

LEMMA RejectLeaves ==
  ASSUME LInv, RejectName \/ ParamsOverrun \/ RejectParams \/ RejectColumn \/ RejectKey
  PROVE  Halfway' /\ Ended' /\ KeyIfPrimary'
<1>1. /\ pc # "parsed" /\ pc' = "parsed" /\ UNCHANGED <<stmt, it, table, columns, pk>>
      /\ fails' # "no"
      /\ fails' = "MalformedTableName" => pc = "name"
      /\ fails' \in {"MalformedParentheses", "Abort"} => pc = "params"
  BY DEF RejectName, ParamsOverrun, RejectParams, RejectColumn, RejectKey, Reject, members
<1>. QED  BY <1>1 DEF LInv, Halfway, Ended, KeyIfPrimary

LEMMA TakeColumnLeaves ==
  ASSUME LInv, TakeColumn
  PROVE  Halfway' /\ Ended' /\ KeyIfPrimary'
<1>. PICK name : name = ColumnName
  OBVIOUS
<1>1. /\ pc = "columns" /\ name # NoName /\ columns' = Append(columns, name)
      /\ UNCHANGED <<stmt, pc, table, pk, fails>>
  BY DEF TakeColumn
<1>. PICK n \in Nat : n = Len(columns)
  BY DEF LInv, IInv, TypeOK
<1>2. columns \in Seq(Name)
  BY DEF LInv, IInv, TypeOK
<1>3. ASSUME NEW k \in DOMAIN columns' PROVE columns'[k] # NoName
  <2>1. \A j \in 1 .. n : columns[j] # NoName
    BY <1>2 DEF LInv, Halfway
  <2>2. k \in 1 .. n + 1 /\ columns'[k] = IF k = n + 1 THEN name ELSE columns[k]
    BY <1>1, <1>2
  <2>. QED  BY <1>1, <2>1, <2>2
<1>. QED  BY <1>1, <1>3, GoesOn DEF LInv, Halfway

(* The search for PRIMARY ends at the end exactly if there is none. *)
LEMMA PrimaryFound ==
  ASSUME IInv
  PROVE  Primary # End <=> \E k \in it .. Len(stmt) : stmt[k] = "PRIMARY"
<1>. DEFINE S == {k \in it .. End - 1 : stmt[k] = "PRIMARY"}
<1>1. it \in Nat /\ End \in Nat /\ End - 1 = Len(stmt) /\ Len(stmt) \in Nat
  BY DEF IInv, TypeOK, End
<1>2. Primary = Min(S \cup {End})
  BY DEF Primary, FirstIn
<1>3. S # {} <=> \E k \in it .. Len(stmt) : stmt[k] = "PRIMARY"
  BY <1>1
<1>4. S \in SUBSET Nat /\ End \notin S /\ \A k \in S : ~(End <= k)
  BY <1>1
<1>. HIDE DEF S
<1>. PICK T, end, first : T = S /\ end = End /\ first = Primary
  OBVIOUS
<1>5. first \in T \cup {end} /\ \A k \in T : first <= k
  <2>1. end \in Nat /\ T \in SUBSET Nat /\ first = Min(T \cup {end})
    BY <1>1, <1>2, <1>4
  <2>. QED  BY <2>1, First, Zenon
<1>. QED  BY <1>3, <1>4, <1>5

LEMMA FindKeyLeaves ==
  ASSUME LInv, FindKey
  PROVE  Halfway' /\ Ended' /\ KeyIfPrimary'
<1>. DEFINE K == {k \in DOMAIN columns : columns[k] = KeyName}
<1>1. /\ pc = "columns" /\ pc' = "parsed" /\ UNCHANGED <<stmt, it, table, columns, fails>>
      /\ Primary # End => IsColumn(KeyName)
      /\ pk' = IF Primary = End THEN NoPk ELSE Min(K)
  BY DEF FindKey
<1>2. columns \in Seq(Name)
  BY DEF LInv, IInv, TypeOK
<1>. PICK n \in Nat : n = Len(columns) /\ DOMAIN columns = 1 .. n
  BY <1>2
<1>3. K # {} => Min(K) \in 1 .. n /\ columns[Min(K)] = KeyName /\ \A k \in 1 .. Min(K) - 1 : columns[k] # KeyName
  <2>. SUFFICES ASSUME K # {} PROVE Min(K) \in 1 .. n /\ columns[Min(K)] = KeyName /\ \A k \in 1 .. Min(K) - 1 : columns[k] # KeyName
    OBVIOUS
  <2>. PICK m, key : m = Min(K) /\ key = KeyName
    OBVIOUS
  <2>1. K \in SUBSET Nat /\ \A k : k \in K <=> k \in 1 .. n /\ columns[k] = key
    OBVIOUS
  <2>. HIDE DEF K
  <2>2. m \in K /\ \A k \in K : m <= k
    BY <2>1, MinIsMember
  <2>3. m \in 1 .. n /\ columns[m] = key
    BY <2>1, <2>2
  <2>4. ASSUME NEW k \in 1 .. m - 1 PROVE columns[k] # key
    <3>1. k \in 1 .. n /\ ~(m <= k)
      BY <2>3
    <3>. QED  BY <2>1, <2>2, <3>1
  <2>. QED  BY <2>3, <2>4
<1>4. IsColumn(KeyName) => K # {}
  BY DEF IsColumn
<1>. PICK m, key, end, first : m = Min(K) /\ key = KeyName /\ end = End /\ first = Primary
  OBVIOUS
<1>. HIDE DEF K
<1>5. CASE first = end
  <2>1. pk' = NoPk
    BY <1>1, <1>5
  <2>2. ~ \E k \in it .. Len(stmt) : stmt[k] = "PRIMARY"
    BY <1>5, PrimaryFound DEF LInv
  <2>3. KeyIfPrimary'
    BY <1>1, <2>1, <2>2 DEF KeyIfPrimary
  <2>. QED  BY <1>1, <2>1, <2>3 DEF LInv, Halfway, Ended
<1>6. CASE first # end
  <2>1. pk' = m /\ m \in 1 .. n /\ columns[m] = key /\ \A k \in 1 .. m - 1 : columns[k] # key
    BY <1>1, <1>3, <1>4, <1>6
  <2>2. m # NoPk
    BY <2>1 DEF NoPk
  <2>3. \E k \in it .. Len(stmt) : stmt[k] = "PRIMARY"
    BY <1>6, PrimaryFound DEF LInv
  <2>4. KeyIfPrimary'
    <3>1. \E k \in it' .. Len(stmt') : stmt'[k] = "PRIMARY"
      BY <1>1, <2>3
    <3>2. m \in DOMAIN columns' /\ \A k \in 1 .. m - 1 : columns'[k] # columns'[m]
      BY <1>1, <2>1
    <3>. QED  BY <2>1, <2>2, <3>1, <3>2 DEF KeyIfPrimary
  <2>. QED  BY <1>1, <2>4 DEF LInv, Halfway, Ended
<1>. QED  BY <1>5, <1>6

LEMMA NextLeaves ==
  ASSUME LInv, [Next]_vars
  PROVE  LInv'
<1>1. IInv'
  BY NextTypes DEF LInv
<1>2. CASE ParseName
  <2>1. pc = "name" /\ pc' = "params" /\ table' # NoName /\ UNCHANGED <<stmt, columns, pk, fails>>
    BY <1>2 DEF ParseName
  <2>. QED  BY <1>1, <2>1, GoesOn DEF LInv, Halfway
<1>3. CASE OpenParams
  <2>1. pc = "params" /\ pc' = "columns" /\ UNCHANGED <<stmt, table, columns, pk, fails>>
    BY <1>3 DEF OpenParams, members
  <2>. QED  BY <1>1, <2>1, GoesOn DEF LInv, Halfway
<1>4. CASE DropConstraint
  <2>1. pc = "columns" /\ UNCHANGED <<stmt, pc, table, columns, pk, fails>>
    BY <1>4 DEF DropConstraint, members
  <2>. QED  BY <1>1, <2>1, GoesOn DEF LInv, Halfway
<1>5. CASE Stopped \/ UNCHANGED vars
  BY <1>1, <1>5 DEF LInv, Halfway, Ended, KeyIfPrimary, Stopped, vars, members
<1>. QED
  BY <1>1, <1>2, <1>3, <1>4, <1>5, FindStatementLeaves, RejectLeaves, TakeColumnLeaves, FindKeyLeaves
  DEF Next, LInv

LEMMA LeavesSafe == Spec => []LInv
BY InitLInv, NextLeaves, PTL DEF Spec

(***************************************************************************)
(* Whatever the text is, the table, columns and key that parseSchema       *)
(* leaves when it returns or throws are those Formatter!Load leaves of     *)
(* some input: the abstract parse of module Formatter is one the texts can *)
(* bring about, and what is proved of a formatter for all inputs holds for *)
(* all texts.                                                              *)
(***************************************************************************)
THEOREM ParseIsLoad == Spec => []LeavesAnInput
<1>1. LInv => LeavesAnInput
  <2>. SUFFICES ASSUME LInv, pc = "parsed" PROVE LeavesAnInput
    BY DEF LeavesAnInput
  <2>1. /\ table \in Name /\ columns \in Seq(Name) /\ pk \in {NoPk} \cup DOMAIN columns
        /\ fails \in {"no", "MalformedTableName", "MalformedParentheses", "MalformedColumnDefinition",
                      "MalformedPrimaryKey", "Abort"}
    BY DEF LInv, IInv, TypeOK
  <2>2. pk \in Nat
    BY <2>1 DEF NoPk
  <2>3. Left \in F!InputType
    BY <2>1, <2>2 DEF Left, F!InputType, F!ParseErrors
  <2>4. LoadOf(Left).table = IF fails = "MalformedTableName" THEN NoName ELSE table
    BY <2>1 DEF LoadOf, Left, F!Load
  <2>5. LoadOf(Left).columns = IF fails \in {"MalformedTableName", "MalformedParentheses", "Abort"}
                               THEN <<>> ELSE columns
    BY <2>1 DEF LoadOf, Left, F!Load
  <2>6. LoadOf(Left).pk = IF fails = "no" THEN pk ELSE NoPk
    BY DEF LoadOf, Left, F!Load, F!NoPk, NoPk
  <2>. QED  BY <2>3, <2>4, <2>5, <2>6 DEF LInv, Halfway, Ended, LeavesAnInput
<1>. QED  BY <1>1, LeavesSafe, PTL

(***************************************************************************)
(* Whatever the text is, an accepted one has a key exactly if PRIMARY      *)
(* stands behind the table's name, and that key is the first of the        *)
(* columns of its name.                                                    *)
(***************************************************************************)
THEOREM PrimaryIsKey == Spec => []KeyIfPrimary
<1>1. LInv => KeyIfPrimary
  BY DEF LInv
<1>. QED  BY <1>1, LeavesSafe, PTL

-----------------------------------------------------------------------------
(***************************************************************************)
(* The columns are the names of the definitions.  At is taken one position *)
(* further.                                                                *)
(***************************************************************************)
LEMMA AtIsKept ==
  ASSUME NEW X, NEW t \in Seq(X), NEW S
  PROVE  \E f : IsKept(t, S, f) /\ At(t, S) = f[Len(t)]
<1>1. PICK kept : IsKept(t, S, kept)
  BY KeptExists
<1>. PICK f : f = CHOOSE g : IsKept(t, S, g)
  OBVIOUS
<1>2. IsKept(t, S, f)
  BY <1>1
<1>3. At(t, S) = f[Len(t)]
  BY DEF At, IsKept
<1>. QED  BY <1>2, <1>3

UpTo(S, r) == \A k \in S : k <= r

(* Behind the last position in S nothing is added. *)
LEMMA KeptStays ==
  ASSUME NEW t, NEW S, NEW f, IsKept(t, S, f), Len(t) \in Nat, NEW r \in 0 .. Len(t), UpTo(S, r)
  PROVE  f[Len(t)] = f[r]
<1>. PICK n \in Nat : n = Len(t)
  OBVIOUS
<1>. DEFINE A == {k \in Nat : k \in r .. n => f[k] = f[r]}
<1>1. ASSUME NEW k \in r + 1 .. n PROVE f[k] = f[k - 1]
  <2>1. k \in 1 .. n /\ k \notin S
    BY <1>1 DEF UpTo
  <2>. QED  BY <2>1, KeptStep
<1>2. 0 \in A
  OBVIOUS
<1>3. ASSUME NEW k \in Nat, k \in A PROVE k + 1 \in A
  <2>. SUFFICES ASSUME k + 1 \in r .. n PROVE f[k + 1] = f[r]
    OBVIOUS
  <2>1. CASE k + 1 = r
    BY <2>1
  <2>2. CASE k + 1 # r
    <3>1. k \in r .. n /\ k + 1 \in r + 1 .. n /\ (k + 1) - 1 = k
      BY <2>2
    <3>2. f[k] = f[r]
      BY <1>3, <3>1
    <3>3. f[k + 1] = f[k]
      BY <1>1, <3>1
    <3>. QED  BY <3>2, <3>3
  <2>. QED  BY <2>1, <2>2
<1>4. n \in A
  <2>. HIDE DEF A
  <2>. QED  BY <1>2, <1>3, Induction
<1>5. n \in r .. n
  OBVIOUS
<1>. QED  BY <1>4, <1>5

Agree(S, T, r) == \A k \in 1 .. r : k \in S <=> k \in T

(* Up to a position two sets agree on, the same is kept. *)
LEMMA KeptAgrees ==
  ASSUME NEW t, NEW S, NEW T, NEW f, IsKept(t, S, f), NEW g, IsKept(t, T, g), Len(t) \in Nat,
         NEW r \in 0 .. Len(t), Agree(S, T, r)
  PROVE  f[r] = g[r]
<1>. PICK n \in Nat : n = Len(t)
  OBVIOUS
<1>. DEFINE A == {k \in Nat : k <= r => f[k] = g[k]}
<1>1. 0 \in A
  BY KeptStep
<1>2. ASSUME NEW k \in Nat, k \in A PROVE k + 1 \in A
  <2>. SUFFICES ASSUME k + 1 <= r PROVE f[k + 1] = g[k + 1]
    OBVIOUS
  <2>. PICK j : j = k + 1
    OBVIOUS
  <2>1. f[k] = g[k] /\ j \in 1 .. n /\ j \in 1 .. r /\ j - 1 = k
    BY <1>2
  <2>2. f[j] = IF j \in S THEN Append(f[j - 1], t[j]) ELSE f[j - 1]
    BY <2>1, KeptStep
  <2>3. g[j] = IF j \in T THEN Append(g[j - 1], t[j]) ELSE g[j - 1]
    BY <2>1, KeptStep
  <2>4. j \in S <=> j \in T
    BY <2>1 DEF Agree
  <2>. QED  BY <2>1, <2>2, <2>3, <2>4
<1>3. r \in A
  <2>. HIDE DEF A
  <2>. QED  BY <1>1, <1>2, Induction
<1>. QED  BY <1>3

IsNext(S, T, r) ==
  /\ Agree(S, T, r)
  /\ r + 1 \in T
  /\ UpTo(S, r) /\ UpTo(T, r + 1)

LEMMA KeptNext ==
  ASSUME NEW t, Len(t) \in Nat, NEW r \in Nat, r + 1 <= Len(t), NEW S, NEW T, IsNext(S, T, r),
         NEW f, IsKept(t, S, f), NEW g, IsKept(t, T, g)
  PROVE  g[Len(t)] = Append(f[Len(t)], t[r + 1])
<1>. PICK n \in Nat : n = Len(t)
  OBVIOUS
<1>. PICK j \in 1 .. n : j = r + 1 /\ j - 1 = r /\ j \in 0 .. Len(t) /\ r \in 0 .. Len(t)
  OBVIOUS
<1>1. f[n] = f[r]
  BY KeptStays DEF IsNext
<1>2. g[n] = g[j]
  BY KeptStays DEF IsNext
<1>3. f[r] = g[r]
  BY KeptAgrees DEF IsNext
<1>4. g[j] = Append(g[r], t[j])
  <2>1. j \in T
    BY DEF IsNext
  <2>2. g[j] = IF j \in T THEN Append(g[j - 1], t[j]) ELSE g[j - 1]
    BY KeptStep
  <2>. QED  BY <2>1, <2>2
<1>. QED  BY <1>1, <1>2, <1>3, <1>4

LEMMA AtNext ==
  ASSUME NEW X, NEW t \in Seq(X), NEW r \in Nat, r + 1 <= Len(t), NEW S \in SUBSET (1 .. r)
  PROVE  At(t, S \cup {r + 1}) = Append(At(t, S), t[r + 1])
<1>1. ASSUME NEW T, IsNext(S, T, r) PROVE At(t, T) = Append(At(t, S), t[r + 1])
  <2>1. PICK f : IsKept(t, S, f) /\ At(t, S) = f[Len(t)]
    BY AtIsKept
  <2>2. PICK g : IsKept(t, T, g) /\ At(t, T) = g[Len(t)]
    BY AtIsKept
  <2>3. Len(t) \in Nat
    OBVIOUS
  <2>4. g[Len(t)] = Append(f[Len(t)], t[r + 1])
    BY <1>1, <2>1, <2>2, <2>3, KeptNext
  <2>. QED  BY <2>1, <2>2, <2>4
<1>2. IsNext(S, S \cup {r + 1}, r)
  BY DEF IsNext, Agree, UpTo
<1>. QED  BY <1>1, <1>2, Zenon

LEMMA AtNone ==
  ASSUME NEW X, NEW t \in Seq(X)
  PROVE  At(t, {}) = <<>>
<1>. PICK n \in Nat : n = Len(t)
  OBVIOUS
<1>1. PICK f : IsKept(t, {}, f) /\ At(t, {}) = f[n]
  BY AtIsKept
<1>2. f[n] = f[0]
  <2>1. 0 \in 0 .. Len(t) /\ UpTo({}, 0)
    BY DEF UpTo
  <2>. QED  BY <1>1, <2>1, KeptStays
<1>3. f[0] = <<>>
  BY <1>1, KeptStep
<1>. QED  BY <1>1, <1>2, <1>3

-----------------------------------------------------------------------------
(* cols are the names of the first r definitions. *)
NamesTo(defs, cols, r) ==
  /\ cols = At([k \in DOMAIN defs |-> NameIn(defs[k])], {k \in 1 .. r : ~IsTableConstraint(defs[k])})
  /\ \A k \in 1 .. r : IsTableConstraint(defs[k]) \/ NameIn(defs[k]) # NoName

LEMMA NamesStart ==
  ASSUME NEW defs \in Seq(Seq(Pieces))
  PROVE  NamesTo(defs, <<>>, 0)
<1>. PICK t : t = [k \in DOMAIN defs |-> NameIn(defs[k])]
  OBVIOUS
<1>. PICK T : T = {k \in 1 .. 0 : ~IsTableConstraint(defs[k])}
  OBVIOUS
<1>1. t \in Seq({NameIn(defs[k]) : k \in DOMAIN defs})
  OBVIOUS
<1>2. T = {}
  OBVIOUS
<1>3. At(t, T) = <<>>
  BY <1>1, <1>2, AtNone
<1>. QED  BY <1>3 DEF NamesTo

LEMMA NamesNext ==
  ASSUME NEW defs \in Seq(Seq(Pieces)), NEW cols, NEW r \in Nat, r + 1 <= Len(defs), NamesTo(defs, cols, r),
         NEW part, part = defs[r + 1]
  PROVE  /\ IsTableConstraint(part) => NamesTo(defs, cols, r + 1)
         /\ ~IsTableConstraint(part) /\ NameIn(part) # NoName =>
              NamesTo(defs, Append(cols, NameIn(part)), r + 1)
<1>. PICK t : t = [k \in DOMAIN defs |-> NameIn(defs[k])]
  OBVIOUS
<1>. PICK C : C = {k \in 1 .. r + 1 : IsTableConstraint(defs[k])}
  OBVIOUS
<1>. PICK S, T : S = {k \in 1 .. r : ~IsTableConstraint(defs[k])} /\ T = {k \in 1 .. r + 1 : ~IsTableConstraint(defs[k])}
  OBVIOUS
<1>1. t \in Seq({NameIn(defs[k]) : k \in DOMAIN defs}) /\ Len(t) = Len(defs) /\ t[r + 1] = NameIn(part)
  OBVIOUS
<1>2. cols = At(t, S) /\ \A k \in 1 .. r : IsTableConstraint(defs[k]) \/ NameIn(defs[k]) # NoName
  BY DEF NamesTo
<1>3. CASE IsTableConstraint(part)
  <2>1. \A k \in 1 .. r + 1 : k = r + 1 \/ k \in 1 .. r
    OBVIOUS
  <2>2. T = S
    <3>1. \A k \in T : k \in S
      BY <1>3, <2>1
    <3>2. \A k \in S : k \in T
      OBVIOUS
    <3>. QED  BY <3>1, <3>2
  <2>3. \A k \in 1 .. r + 1 : IsTableConstraint(defs[k]) \/ NameIn(defs[k]) # NoName
    BY <1>2, <1>3, <2>1
  <2>. QED  BY <1>2, <1>3, <2>2, <2>3 DEF NamesTo
<1>4. CASE ~IsTableConstraint(part) /\ NameIn(part) # NoName
  <2>1. \A k \in 1 .. r + 1 : k = r + 1 \/ k \in 1 .. r
    OBVIOUS
  <2>2. T = S \cup {r + 1}
    <3>1. r + 1 \in T
      BY <1>4
    <3>2. \A k \in T : k \in S \/ k = r + 1
      BY <2>1
    <3>3. \A k \in S : k \in T
      OBVIOUS
    <3>. QED  BY <3>1, <3>2, <3>3
  <2>3. At(t, T) = Append(cols, NameIn(part))
    <3>1. S \in SUBSET (1 .. r) /\ r + 1 <= Len(t)
      BY <1>1
    <3>. QED  BY <1>1, <1>2, <2>2, <3>1, AtNext
  <2>4. \A k \in 1 .. r + 1 : IsTableConstraint(defs[k]) \/ NameIn(defs[k]) # NoName
    BY <1>2, <1>4, <2>1
  <2>. QED  BY <1>4, <2>3, <2>4 DEF NamesTo
<1>. QED  BY <1>3, <1>4

(* left are the last of the definitions. *)
LastOf(defs, left) ==
  /\ defs \in Seq(Seq(Pieces))
  /\ Len(left) <= Len(defs)
  /\ \A k \in 1 .. Len(left) : left[k] = defs[Len(defs) - Len(left) + k]

CInv ==
  /\ pc = "columns" => LastOf(Definitions, parts) /\ NamesTo(Definitions, columns, Len(Definitions) - Len(parts))
  /\ ColumnsAreNames

LEMMA LastOfTail ==
  ASSUME NEW defs, NEW left \in Seq(Seq(Pieces)), left # <<>>, LastOf(defs, left)
  PROVE  /\ LastOf(defs, Tail(left))
         /\ Len(defs) - Len(Tail(left)) = (Len(defs) - Len(left)) + 1
         /\ Len(defs) - Len(left) \in Nat /\ (Len(defs) - Len(left)) + 1 <= Len(defs)
         /\ left[1] = defs[(Len(defs) - Len(left)) + 1]
<1>. PICK m \in Nat : m = Len(left)
  OBVIOUS
<1>. PICK n \in Nat : n = Len(defs)
  BY DEF LastOf
<1>1. m # 0 /\ m <= n /\ \A k \in 1 .. m : left[k] = defs[n - m + k]
  BY DEF LastOf
<1>2. Len(Tail(left)) = m - 1 /\ \A k \in 1 .. m - 1 : Tail(left)[k] = left[k + 1]
  BY <1>1
<1>3. \A k \in 1 .. m - 1 : Tail(left)[k] = defs[n - (m - 1) + k]
  <2>1. ASSUME NEW k \in 1 .. m - 1 PROVE Tail(left)[k] = defs[n - (m - 1) + k]
    <3>1. k + 1 \in 1 .. m /\ n - m + (k + 1) = n - (m - 1) + k
      OBVIOUS
    <3>2. left[k + 1] = defs[n - m + (k + 1)]
      BY <1>1, <3>1
    <3>. QED  BY <1>2, <3>1, <3>2
  <2>. QED  BY <2>1
<1>4. left[1] = defs[n - m + 1]
  BY <1>1
<1>5. LastOf(defs, Tail(left))
  <2>1. m - 1 <= n
    BY <1>1
  <2>. QED  BY <1>2, <1>3, <2>1 DEF LastOf
<1>. QED  BY <1>1, <1>2, <1>4, <1>5

(* The definitions do not change while they are read. *)
LEMMA DefinitionsStay ==
  ASSUME UNCHANGED <<stmt, it>>
  PROVE  Definitions' = Definitions
BY DEF Definitions, Params, End

LEMMA OpenParamsNames ==
  ASSUME LInv, OpenParams
  PROVE  CInv'
<1>. PICK defs : defs = Definitions
  OBVIOUS
<1>1. parts' = defs /\ columns' = <<>> /\ pc' = "columns" /\ UNCHANGED <<stmt, it>>
  BY DEF OpenParams, LInv, Halfway, members
<1>2. Definitions' = defs
  BY <1>1, DefinitionsStay
<1>3. defs \in Seq(Seq(Pieces))
  BY <1>1, OpenParamsTypes DEF LInv, TypeOK
<1>4. LastOf(defs, defs) /\ NamesTo(defs, <<>>, 0)
  <2>1. LastOf(defs, defs)
    <3>. PICK n \in Nat : n = Len(defs)
      BY <1>3
    <3>1. \A k \in 1 .. n : n - n + k = k
      OBVIOUS
    <3>. QED  BY <1>3, <3>1 DEF LastOf
  <2>. QED  BY <1>3, <2>1, NamesStart
<1>5. Len(defs) - Len(defs) = 0
  BY <1>3
<1>. QED  BY <1>1, <1>2, <1>4, <1>5 DEF CInv, ColumnsAreNames

LEMMA ReadNames ==
  ASSUME LInv, CInv, TakeColumn \/ DropConstraint
  PROVE  CInv'
<1>. PICK defs, left, part, cols : defs = Definitions /\ left = parts /\ part = parts[1] /\ cols = columns
  OBVIOUS
<1>. PICK r : r = Len(defs) - Len(left)
  OBVIOUS
<1>1. /\ pc = "columns" /\ left # <<>> /\ parts' = Tail(left) /\ UNCHANGED <<stmt, it, pc>>
      /\ left \in Seq(Seq(Pieces))
  BY DEF TakeColumn, DropConstraint, LInv, IInv, TypeOK
<1>2. Definitions' = defs
  BY <1>1, DefinitionsStay
<1>3. LastOf(defs, left) /\ NamesTo(defs, cols, r)
  BY <1>1 DEF CInv
<1>4. LastOf(defs, Tail(left)) /\ Len(defs) - Len(Tail(left)) = r + 1 /\ r \in Nat /\ r + 1 <= Len(defs) /\ part = defs[r + 1]
  BY <1>1, <1>3, LastOfTail
<1>5. defs \in Seq(Seq(Pieces))
  BY <1>3 DEF LastOf
<1>6. /\ IsTableConstraint(part) => NamesTo(defs, cols, r + 1)
      /\ ~IsTableConstraint(part) /\ NameIn(part) # NoName => NamesTo(defs, Append(cols, NameIn(part)), r + 1)
  BY <1>3, <1>4, <1>5, NamesNext
<1>7. \/ IsTableConstraint(part) /\ columns' = cols
      \/ ~IsTableConstraint(part) /\ NameIn(part) # NoName /\ columns' = Append(cols, NameIn(part))
  BY DEF TakeColumn, DropConstraint, members, ColumnName
<1>8. NamesTo(defs, columns', r + 1)
  BY <1>6, <1>7
<1>. QED  BY <1>1, <1>2, <1>4, <1>8 DEF CInv, ColumnsAreNames

LEMMA EndNames ==
  ASSUME LInv, CInv, RejectColumn \/ FindKey \/ RejectKey
  PROVE  CInv'
<1>. PICK defs, left, part, cols : defs = Definitions /\ left = parts /\ part = parts[1] /\ cols = columns
  OBVIOUS
<1>. PICK r : r = Len(defs) - Len(left)
  OBVIOUS
<1>1. /\ pc = "columns" /\ pc' = "parsed" /\ UNCHANGED <<stmt, it, parts, columns>>
      /\ left \in Seq(Seq(Pieces))
      /\ \/ fails' = "MalformedColumnDefinition" /\ left # <<>> /\ ~IsTableConstraint(part) /\ NameIn(part) = NoName
         \/ fails' # "MalformedColumnDefinition" /\ left = <<>>
  BY DEF RejectColumn, FindKey, RejectKey, Reject, members, ColumnName, LInv, IInv, TypeOK, Halfway
<1>2. Definitions' = defs
  BY <1>1, DefinitionsStay
<1>3. LastOf(defs, left) /\ NamesTo(defs, cols, r)
  BY <1>1 DEF CInv
<1>4. defs \in Seq(Seq(Pieces))
  BY <1>3 DEF LastOf
<1>5. DefinitionsRead' = r
  <2>1. left = <<>> => r = Len(defs)
    BY <1>4
  <2>2. DefinitionsRead' = IF fails' = "MalformedColumnDefinition" THEN r ELSE Len(defs)
    BY <1>1, <1>2 DEF DefinitionsRead
  <2>. QED  BY <1>1, <2>1, <2>2
<1>6. left # <<>> => part = defs[r + 1]
  BY <1>1, <1>3, LastOfTail
<1>7. NamesTo(Definitions, columns, DefinitionsRead)'
  BY <1>1, <1>2, <1>3, <1>5
<1>8. fails' = "MalformedColumnDefinition" =>
        ~IsTableConstraint(Definitions'[DefinitionsRead' + 1]) /\ NameIn(Definitions'[DefinitionsRead' + 1]) = NoName
  BY <1>1, <1>2, <1>5, <1>6
<1>. QED  BY <1>1, <1>7, <1>8 DEF CInv, ColumnsAreNames, NamesTo

LEMMA NextNames ==
  ASSUME LInv, CInv, [Next]_vars
  PROVE  CInv'
<1>1. CASE ParseName
  <2>1. pc' = "params"
    BY <1>1 DEF ParseName
  <2>. QED  BY <2>1 DEF CInv, ColumnsAreNames
<1>2. CASE FindStatement
  <2>1. pc' = "name" \/ (pc' = "parsed" /\ stmt' = <<>>)
    <3>. PICK found : found = Split(At(schema.text, {k \in DOMAIN schema.text : schema.text[k] # "nl"}), ";")
      OBVIOUS
    <3>1. stmt = <<>>
      BY <1>2 DEF FindStatement, LInv, Halfway
    <3>2. CASE found = <<>>
      BY <1>2, <3>1, <3>2 DEF FindStatement
    <3>3. CASE found # <<>>
      BY <1>2, <3>3 DEF FindStatement
    <3>. QED  BY <3>2, <3>3
  <2>. QED  BY <2>1 DEF CInv, ColumnsAreNames
<1>3. CASE RejectName \/ ParamsOverrun \/ RejectParams
  <2>1. pc' = "parsed" /\ fails' \in {"MalformedTableName", "Abort", "MalformedParentheses"}
    BY <1>3 DEF RejectName, ParamsOverrun, RejectParams, Reject
  <2>. QED  BY <2>1 DEF CInv, ColumnsAreNames
<1>4. CASE Stopped \/ UNCHANGED vars
  <2>1. UNCHANGED <<stmt, it, parts, pc, columns, fails>>
    BY <1>4 DEF Stopped, vars, members
  <2>2. Definitions' = Definitions
    BY <2>1, DefinitionsStay
  <2>3. DefinitionsRead' = DefinitionsRead
    BY <2>1, <2>2 DEF DefinitionsRead
  <2>. QED  BY <2>1, <2>2, <2>3 DEF CInv, ColumnsAreNames
<1>. QED  BY <1>1, <1>2, <1>3, <1>4, OpenParamsNames, ReadNames, EndNames DEF Next

(***************************************************************************)
(* Whatever the text is, the columns are the names of the definitions      *)
(* between the parentheses, without the constraints and in their order:    *)
(* none is lost behind a constraint, none is there twice, and a parse that *)
(* ends half way ends at the first definition that has no name.            *)
(***************************************************************************)
THEOREM ColumnsOfDefinitions == Spec => []ColumnsAreNames
<1>1. Init => CInv
  BY DEF Init, CInv, ColumnsAreNames
<1>2. CInv => ColumnsAreNames
  BY DEF CInv
<1>. QED  BY <1>1, <1>2, LeavesSafe, NextNames, PTL DEF Spec

=============================================================================
