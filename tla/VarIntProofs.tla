----------------------------- MODULE VarIntProofs -----------------------------
(***************************************************************************)
(* Where readVarInt takes the caller's iterator, and what it computes from *)
(* the bytes, for every radix, every maxSize and every set of pages.       *)
(***************************************************************************)
EXTENDS VarInt, SequenceTheorems, NatProofs

(***************************************************************************)
(* The caller's iterator runs one byte ahead of the byte looked at, and    *)
(* all bytes before that one announced another.                            *)
(***************************************************************************)
Ahead(n) ==
  IF localIt = Null THEN n = 0 /\ dataIt = Null
  ELSE /\ localIt + n - 1 \in 0..Len(page)
       /\ dataIt = Behind(page, localIt, n + 1)
       /\ \A k \in 0 .. n-1 : localIt + k \in DOMAIN page /\ page[localIt + k] >= Radix

(* How the last call left the iterator. *)
Left ==
  values # <<>> =>
    /\ localIt # Null
    /\ values[Len(values)].at = localIt
    /\ i < MaxSize - 1 => Encoded(page, localIt, i + 1) /\ dataIt = Behind(page, localIt, i + 1)

Inv ==
  /\ TypeOK
  /\ pc = "loop" => Ahead(i)
  /\ pc = "idle" => Left
  /\ StopsWhereThePageEnds

LEMMA InitInv == Init => Inv
<1>. SUFFICES ASSUME Init PROVE Inv
  OBVIOUS
<1>1. page \in Seq(Byte) \ {<<>>}
  BY PagesAssumption DEF Init
<1>2. 1 \in DOMAIN page
  BY <1>1
<1>. QED  BY <1>1, <1>2, RadixAssumption, MaxSizeAssumption
          DEF Init, Inv, TypeOK, Left, StopsWhereThePageEnds

LEMMA PageLength == ASSUME TypeOK PROVE Len(page) \in Nat \ {0} /\ DOMAIN page = 1..Len(page)
BY DEF TypeOK

LEMMA AfterType == ASSUME TypeOK PROVE After(page, dataIt) \in {Null} \cup DOMAIN page
BY PageLength DEF TypeOK, After, Null

LEMMA ByteType ==
  ASSUME TypeOK, Readable, localIt # Null PROVE localIt + i \in DOMAIN page /\ Indexed \in Nat
<1>1. localIt + i \in DOMAIN page
  BY PageLength DEF TypeOK, Readable, Null
<1>2. Indexed \in Byte
  BY <1>1 DEF TypeOK, Indexed
<1>. QED  BY <1>1, <1>2, RadixAssumption DEF Byte

LEMMA CallInv == ASSUME Inv, Call PROVE Inv'
<1>1. TypeOK'
  BY AfterType, MaxSizeAssumption DEF Inv, Call, TypeOK
<1>2. Ahead(i)'
  BY PageLength DEF Inv, Call, TypeOK, Ahead, After, Behind, Null
<1>. QED  BY <1>1, <1>2 DEF Inv, Call, StopsWhereThePageEnds

LEMMA ReturnsType ==
  ASSUME TypeOK, localIt # Null, NEW value \in Nat, Returns(value)
  PROVE  /\ values' \in Seq([at: DOMAIN page, value: Nat])
         /\ values' # <<>>
         /\ values'[Len(values')].at = localIt
BY DEF TypeOK, Returns

LEMMA LastByteInv == ASSUME Inv, LastByte PROVE Inv'
<1>1. localIt # Null /\ Indexed \in Nat /\ localIt + i \in DOMAIN page
  BY ByteType DEF Inv, LastByte, Readable
<1>2. TypeOK'
  BY <1>1, ReturnsType DEF Inv, LastByte, TypeOK, Returns
<1>3. Encoded(page, localIt, i + 1) /\ dataIt = Behind(page, localIt, i + 1)
  <2>1. Ahead(i) /\ i \in Nat /\ i < MaxSize - 1
    BY DEF Inv, LastByte, TypeOK
  <2>2. Indexed < Radix
    BY DEF LastByte
  <2>. QED  BY <1>1, <2>1, <2>2, MaxSizeAssumption DEF Ahead, Encoded, Ends, Indexed, Inv, TypeOK
<1>4. Left'
  <2>1. UNCHANGED <<page, dataIt, localIt, i>>
    BY DEF LastByte
  <2>2. (Encoded(page, localIt, i + 1) /\ dataIt = Behind(page, localIt, i + 1))'
    BY <1>3, <2>1 DEF Encoded, Ends, Behind
  <2>3. Returns(v + Indexed) /\ v + Indexed \in Nat
    BY <1>1 DEF LastByte, Inv, TypeOK
  <2>4. values' # <<>> /\ values'[Len(values')].at = localIt
    BY <1>1, <2>3, ReturnsType DEF Inv
  <2>. QED  BY <1>1, <2>1, <2>2, <2>4 DEF Left
<1>. QED  BY <1>2, <1>4 DEF Inv, LastByte, Returns, StopsWhereThePageEnds

LEMMA NextByteInv == ASSUME Inv, NextByte PROVE Inv'
<1>1. localIt # Null /\ Indexed \in Nat /\ localIt + i \in DOMAIN page
  BY ByteType DEF Inv, NextByte, Readable
<1>2. TypeOK'
  <2>1. v' \in Nat
    BY <1>1, ModulusAssumption, RadixAssumption DEF Inv, NextByte, TypeOK
  <2>. QED  BY <2>1, AfterType, MaxSizeAssumption DEF Inv, NextByte, TypeOK
<1>3. Ahead(i)'
  <2>1. Ahead(i) /\ i \in Nat /\ localIt \in Nat
    BY PageLength DEF Inv, NextByte, TypeOK, Null
  <2>2. dataIt' = Behind(page, localIt, i + 2)
    BY <1>1, <2>1, PageLength DEF NextByte, Ahead, Behind, After, Null, Inv
  <2>3. ASSUME NEW k \in 0 .. i
        PROVE  localIt + k \in DOMAIN page /\ page[localIt + k] >= Radix
    <3>1. CASE k = i
      BY <1>1, <3>1 DEF NextByte, Indexed
    <3>2. CASE k # i
      BY <1>1, <2>1, <3>2 DEF Ahead
    <3>. QED  BY <3>1, <3>2
  <2>. QED  BY <1>1, <2>1, <2>2, <2>3, PageLength DEF NextByte, Ahead, Behind, Inv
<1>. QED  BY <1>2, <1>3 DEF Inv, NextByte, StopsWhereThePageEnds

LEMMA FullByteInv == ASSUME Inv, FullByte PROVE Inv'
<1>1. localIt # Null /\ Indexed \in Nat
  BY ByteType DEF Inv, FullByte, Readable
<1>2. ((v * 2 * Radix) % Modulus) + Indexed \in Nat
  BY <1>1, ModulusAssumption, RadixAssumption DEF Inv, TypeOK
<1>3. TypeOK'
  BY <1>1, <1>2, ReturnsType, AfterType DEF Inv, FullByte, TypeOK, Returns
<1>4. Left'
  BY <1>1, <1>2, ReturnsType DEF Inv, FullByte, Left
<1>. QED  BY <1>3, <1>4 DEF Inv, FullByte, Returns, StopsWhereThePageEnds

LEMMA OutOfRangeInv == ASSUME Inv, OutOfRange PROVE Inv'
BY DEF Inv, OutOfRange, TypeOK, Ahead, StopsWhereThePageEnds

LEMMA OverrunInv == ASSUME Inv, Overrun PROVE Inv'
<1>1. TypeOK'
  BY DEF Inv, Overrun, TypeOK
<1>2. localIt \in DOMAIN page /\ \A k \in localIt .. Len(page) : page[k] >= Radix
  <2>1. Ahead(i) /\ localIt \in DOMAIN page /\ i \in Nat /\ localIt + i > Len(page)
    BY DEF Inv, Overrun, TypeOK
  <2>2. ASSUME NEW k \in localIt .. Len(page) PROVE page[k] >= Radix
    <3>1. k - localIt \in 0 .. i-1 /\ localIt + (k - localIt) = k
      BY <2>1, PageLength DEF Inv
    <3>. QED  BY <2>1, <3>1 DEF Ahead, Overrun
  <2>. QED  BY <2>1, <2>2
<1>3. ASSUME NEW n \in 1 .. MaxSize, Encoded(page, localIt, n) PROVE FALSE
  <2>1. n < MaxSize => page[localIt + n - 1] < Radix
    BY <1>3 DEF Encoded, Ends
  <2>2. localIt + n - 1 \in DOMAIN page
    BY <1>3 DEF Encoded, Ends
  <2>3. i \in 0 .. MaxSize - 1 /\ localIt + i > Len(page) /\ localIt \in Nat /\ n \in Nat
    BY <1>2, PageLength DEF Inv, TypeOK, Overrun
  <2>4. n < MaxSize
    BY <2>2, <2>3, PageLength, MaxSizeAssumption DEF Inv
  <2>5. localIt + n - 1 \in localIt .. Len(page)
    BY <1>3, <2>2, <2>3, PageLength DEF Inv
  <2>6. page[localIt + n - 1] \in Nat
    BY <2>2, RadixAssumption DEF Inv, TypeOK, Byte
  <2>. QED  BY <1>2, <2>1, <2>4, <2>5, <2>6, RadixAssumption
<1>4. pc' = "aborted" /\ UNCHANGED <<page, localIt>>
  BY DEF Overrun
<1>5. StopsWhereThePageEnds'
  BY <1>2, <1>3, <1>4 DEF StopsWhereThePageEnds, Encoded, Ends
<1>. QED  BY <1>1, <1>4, <1>5 DEF Inv

LEMMA StepInv == Inv /\ [Next]_vars => Inv'
<1>. SUFFICES ASSUME Inv, [Next]_vars PROVE Inv'
  OBVIOUS
<1>1. CASE Stopped \/ UNCHANGED vars
  BY <1>1 DEF Stopped, vars, Inv, TypeOK, Ahead, Left, Behind, StopsWhereThePageEnds, Encoded, Ends
<1>. QED  BY <1>1, CallInv, LastByteInv, NextByteInv, FullByteInv, OutOfRangeInv, OverrunInv
          DEF Next

THEOREM Invariant == Spec => []Inv
BY InitInv, StepInv, PTL DEF Spec, Safe

-----------------------------------------------------------------------------
(* The iterators stay within the page or become null, whatever its bytes.  *)
THEOREM TypeCorrect == Spec => []TypeOK
<1>1. Inv => TypeOK
  BY DEF Inv
<1>. QED  BY Invariant, <1>1, PTL

(* An integer shorter than maxSize is consumed exactly.                    *)
THEOREM ShortIsConsumed == Spec => []ShortConsumed
<1>1. Inv => ShortConsumed
  BY DEF Inv, Left, ShortConsumed
<1>. QED  BY Invariant, <1>1, PTL

(* out_of_range means the page's end, the overrun a cut off integer.       *)
THEOREM StopsAtTheEnd == Spec => []StopsWhereThePageEnds
<1>1. Inv => StopsWhereThePageEnds
  BY DEF Inv
<1>. QED  BY Invariant, <1>1, PTL

(***************************************************************************)
(* No step takes the caller's iterator back, and every call that returns   *)
(* has taken it further: so reading a page ends.                           *)
(***************************************************************************)
THEOREM Progresses == Spec => AlwaysForward
<1>1. Inv /\ [Next]_vars => [Forward]_vars
  <2>. SUFFICES ASSUME Inv, Next PROVE Forward
    BY DEF Inv
  <2>. USE PageLength DEF Inv, TypeOK, Null
  <2>1. CASE Call
    BY <2>1 DEF Call, After, Forward
  <2>2. CASE LastByte
    BY <2>2 DEF LastByte, Ahead, Behind, Readable, Forward
  <2>3. CASE NextByte
    BY <2>3 DEF NextByte, After, Forward
  <2>4. CASE FullByte
    BY <2>4, MaxSizeAssumption DEF FullByte, Ahead, Behind, Readable, After, Forward
  <2>5. CASE OutOfRange \/ Overrun \/ Stopped
    BY <2>5 DEF OutOfRange, Overrun, Stopped, vars, Forward
  <2>. QED  BY <2>1, <2>2, <2>3, <2>4, <2>5 DEF Next
<1>. QED  BY Invariant, <1>1, PTL DEF Spec, Safe, AlwaysForward

-----------------------------------------------------------------------------
(***************************************************************************)
(* What an integer says: the recursions of Power and of ShortValue have a  *)
(* solution, a digit more makes Radix times the value and the digit, and   *)
(* no value reaches the power behind its last digit.                       *)
(***************************************************************************)
LEMMA PowerStep ==
  /\ Power \in [0..MaxSize -> Nat]
  /\ Power[0] = 1
  /\ \A k \in 1..MaxSize : Power[k] = Radix * Power[k - 1]
<1>. DEFINE IsPower(f) == f = [k \in 0..MaxSize |-> IF k = 0 THEN 1 ELSE Radix * f[k - 1]]
            step == [x \in (1..MaxSize) \X Nat |-> Radix * x[2]]
<1>1. step \in [(1..MaxSize) \X Nat -> Nat]
  BY RadixAssumption
<1>2. \A k \in 1..MaxSize, n \in Nat : step[<<k, n>>] = Radix * n
  OBVIOUS
<1>3. PICK f \in [0..MaxSize -> Nat] : f[0] = 1 /\ \A k \in 1..MaxSize : f[k] = step[<<k, f[k-1]>>]
  <2>1. MaxSize \in Nat /\ 1 \in Nat
    BY MaxSizeAssumption
  <2>. HIDE DEF step
  <2>2. \E f \in [0..MaxSize -> Nat] : Follows(f, MaxSize, 1, step)
    BY <1>1, <2>1, BoundedRecursion
  <2>. QED  BY <2>2 DEF Follows
<1>4. IsPower(f)
  <2>1. ASSUME NEW k \in 0..MaxSize PROVE f[k] = IF k = 0 THEN 1 ELSE Radix * f[k - 1]
    <3>1. k # 0 => k \in 1..MaxSize /\ f[k - 1] \in Nat
      BY MaxSizeAssumption
    <3>2. k # 0 => step[<<k, f[k-1]>>] = Radix * f[k - 1]
      BY <1>2, <3>1
    <3>3. IF k = 0 THEN f[k] = 1 ELSE f[k] = step[<<k, f[k-1]>>]
      BY <1>3, <3>1
    <3>. QED  BY <3>2, <3>3
  <2>. QED  BY <1>3, <2>1
<1>5. Power = CHOOSE g : IsPower(g)
  BY DEF Power
<1>6. IsPower(Power)
  <2>. HIDE DEF IsPower
  <2>. QED  BY <1>4, <1>5
<1>7. Power[0] = 1 /\ \A k \in 1..MaxSize : Power[k] = Radix * Power[k - 1]
  BY <1>6, MaxSizeAssumption
<1>8. \A k \in 0..MaxSize : Power[k] \in Nat
  <2>1. StaysIn(Power, MaxSize, Nat)
    BY <1>7, RadixAssumption DEF StaysIn
  <2>. QED  BY <2>1, Stays, MaxSizeAssumption
<1>. QED  BY <1>6, <1>7, <1>8

(* The sum ShortValue takes, its terms up to the k-th. *)
IsSum(arr, p, n, s) ==
  s = [k \in 0..n |-> IF k = 0 THEN 0 ELSE s[k - 1] + (arr[p + k - 1] % Radix) * Power[n - k]]

(* n bytes of arr from p. *)
Within(arr, p, n) ==
  arr \in Seq(Byte) /\ p \in DOMAIN arr /\ n \in 0..MaxSize /\ p + n - 1 \in 0 .. Len(arr)

LEMMA WithinNat == ASSUME NEW arr, NEW p, NEW n, Within(arr, p, n) PROVE p \in Nat \ {0} /\ n \in Nat
BY MaxSizeAssumption DEF Within

LEMMA DigitType ==
  ASSUME NEW arr, NEW p, NEW n, Within(arr, p, n), NEW k \in 1..n
  PROVE  /\ arr[p + k - 1] \in Nat /\ arr[p + k - 1] % Radix \in 0 .. Radix - 1
         /\ Power[n - k] \in Nat
<1>1. p + k - 1 \in DOMAIN arr /\ n - k \in 0..MaxSize
  BY MaxSizeAssumption DEF Within
<1>2. arr[p + k - 1] \in Nat
  BY <1>1, RadixAssumption DEF Within, Byte
<1>. QED  BY <1>1, <1>2, PowerStep, RadixAssumption

Summed(arr, p, n, s) ==
  /\ s \in [0..n -> Nat]
  /\ s[0] = 0
  /\ \A k \in 1..n : s[k] = s[k - 1] + (arr[p + k - 1] % Radix) * Power[n - k]

LEMMA SumStep ==
  ASSUME NEW arr, NEW p, NEW n, Within(arr, p, n), NEW s, IsSum(arr, p, n, s)
  PROVE  Summed(arr, p, n, s)
<1>1. n \in Nat
  BY MaxSizeAssumption DEF Within
<1>2. s[0] = 0 /\ \A k \in 1..n : s[k] = s[k - 1] + (arr[p + k - 1] % Radix) * Power[n - k]
  BY <1>1 DEF IsSum
<1>3. \A k \in 0..n : s[k] \in Nat
  <2>1. ASSUME NEW k \in 1..n, s[k - 1] \in Nat PROVE s[k] \in Nat
    <3>1. PICK d \in Nat : d = arr[p + k - 1] % Radix
      BY DigitType, RadixAssumption
    <3>2. PICK w \in Nat : w = Power[n - k]
      BY DigitType
    <3>3. s[k - 1] + d * w \in Nat
      BY <2>1
    <3>. QED  BY <1>2, <3>1, <3>2, <3>3
  <2>2. StaysIn(s, n, Nat)
    BY <1>2, <2>1 DEF StaysIn
  <2>. QED  BY <1>1, <2>2, Stays
<1>. QED  BY <1>2, <1>3 DEF IsSum, Summed

LEMMA SumExists ==
  ASSUME NEW arr, NEW p, NEW n, Within(arr, p, n)
  PROVE  \E s : IsSum(arr, p, n, s) /\ ShortValue(arr, p, n) = s[n]
<1>. DEFINE step == [x \in (1..n) \X Nat |-> x[2] + (arr[p + x[1] - 1] % Radix) * Power[n - x[1]]]
<1>1. n \in Nat
  BY MaxSizeAssumption DEF Within
<1>2. \A k \in 1..n, m \in Nat : step[<<k, m>>] = m + (arr[p + k - 1] % Radix) * Power[n - k]
  OBVIOUS
<1>3. step \in [(1..n) \X Nat -> Nat]
  <2>1. ASSUME NEW k \in 1..n, NEW m \in Nat PROVE m + (arr[p + k - 1] % Radix) * Power[n - k] \in Nat
    <3>1. PICK d \in Nat : d = arr[p + k - 1] % Radix
      BY DigitType, RadixAssumption
    <3>2. PICK w \in Nat : w = Power[n - k]
      BY DigitType
    <3>3. m + d * w \in Nat
      OBVIOUS
    <3>. QED  BY <3>1, <3>2, <3>3
  <2>. QED  BY <2>1
<1>4. PICK f \in [0..n -> Nat] : f[0] = 0 /\ \A k \in 1..n : f[k] = step[<<k, f[k-1]>>]
  <2>1. 0 \in Nat
    OBVIOUS
  <2>. HIDE DEF step
  <2>2. \E f \in [0..n -> Nat] : Follows(f, n, 0, step)
    BY <1>1, <1>3, <2>1, BoundedRecursion
  <2>. QED  BY <2>2 DEF Follows
<1>5. IsSum(arr, p, n, f)
  <2>1. ASSUME NEW k \in 0..n
        PROVE  f[k] = IF k = 0 THEN 0 ELSE f[k - 1] + (arr[p + k - 1] % Radix) * Power[n - k]
    <3>1. k # 0 => k \in 1..n /\ f[k - 1] \in Nat
      BY <1>1
    <3>2. k # 0 => step[<<k, f[k-1]>>] = f[k - 1] + (arr[p + k - 1] % Radix) * Power[n - k]
      BY <1>2, <3>1
    <3>3. IF k = 0 THEN f[k] = 0 ELSE f[k] = step[<<k, f[k-1]>>]
      BY <1>4, <3>1
    <3>. QED  BY <3>2, <3>3
  <2>. QED  BY <1>4, <2>1 DEF IsSum
<1>6. ShortValue(arr, p, n) = (CHOOSE s : IsSum(arr, p, n, s))[n]
  BY DEF ShortValue, IsSum
<1>7. IsSum(arr, p, n, CHOOSE s : IsSum(arr, p, n, s))
  BY <1>5
<1>. QED  BY <1>6, <1>7

(* A digit more. *)
LEMMA OneDigitMore ==
  ASSUME NEW arr, NEW p, NEW n \in Nat, Within(arr, p, n), Within(arr, p, n + 1)
  PROVE  /\ ShortValue(arr, p, n) \in Nat
         /\ ShortValue(arr, p, n + 1) = Radix * ShortValue(arr, p, n) + (arr[p + n] % Radix)
<1>1. PICK s : IsSum(arr, p, n, s) /\ ShortValue(arr, p, n) = s[n]
  BY SumExists
<1>2. PICK t : IsSum(arr, p, n + 1, t) /\ ShortValue(arr, p, n + 1) = t[n + 1]
  BY SumExists
<1>3. /\ s \in [0..n -> Nat] /\ s[0] = 0
      /\ \A k \in 1..n : s[k] = s[k - 1] + (arr[p + k - 1] % Radix) * Power[n - k]
  BY <1>1, SumStep DEF Summed
<1>4. n + 1 \in Nat /\ n + 1 \in 0..MaxSize
  BY DEF Within
<1>5. /\ t \in [0..n + 1 -> Nat] /\ t[0] = 0
      /\ \A k \in 1..n + 1 : t[k] = t[k - 1] + (arr[p + k - 1] % Radix) * Power[n + 1 - k]
  <2>1. Summed(arr, p, n + 1, t)
    BY <1>2, SumStep
  <2>. QED  BY <2>1 DEF Summed
<1>6. t[n] = Radix * s[n]
  <2>. DEFINE S == {j \in Nat : j <= n => t[j] = Radix * s[j]}
  <2>1. 0 \in S
    BY <1>3, <1>5, RadixAssumption
  <2>2. ASSUME NEW j \in Nat, j \in S PROVE j + 1 \in S
    <3>. SUFFICES ASSUME j + 1 <= n PROVE t[j + 1] = Radix * s[j + 1]
      OBVIOUS
    <3>1. j + 1 \in 1..n /\ j + 1 \in 1..n + 1 /\ (j + 1) - 1 = j /\ j \in 0..n
      OBVIOUS
    <3>2. PICK d \in Nat : d = arr[p + (j + 1) - 1] % Radix
      BY <3>1, DigitType, RadixAssumption
    <3>3. PICK w \in Nat : w = Power[n - (j + 1)]
      BY <3>1, DigitType
    <3>4. Power[n + 1 - (j + 1)] = Radix * w
      <4>1. n + 1 - (j + 1) \in 1..MaxSize /\ (n + 1 - (j + 1)) - 1 = n - (j + 1)
        BY <1>4, <3>1, MaxSizeAssumption
      <4>. QED  BY <3>3, <4>1, PowerStep
    <3>5. PICK u \in Nat : u = s[j]
      BY <1>3, <3>1
    <3>6. t[j] = Radix * u
      BY <2>2, <3>1, <3>5
    <3>7. s[j + 1] = u + d * w
      BY <1>3, <3>1, <3>2, <3>3, <3>5
    <3>8. t[j + 1] = Radix * u + d * (Radix * w)
      BY <1>5, <3>1, <3>2, <3>4, <3>6
    <3>9. Radix * (u + d * w) = Radix * u + d * (Radix * w)
      BY RadixAssumption
    <3>. QED  BY <3>7, <3>8, <3>9
  <2>3. n \in S
    <3>. HIDE DEF S
    <3>. QED  BY <2>1, <2>2, Induction
  <2>. QED  BY <2>3
<1>7. t[n + 1] = t[n] + (arr[p + n] % Radix)
  <2>1. n + 1 \in 1..n + 1 /\ (n + 1) - 1 = n /\ n + 1 - (n + 1) = 0 /\ p + (n + 1) - 1 = p + n
    BY DEF Within
  <2>2. t[n + 1] = t[n] + (arr[p + n] % Radix) * Power[0]
    BY <1>5, <2>1
  <2>3. PICK d \in Nat : d = arr[p + n] % Radix
    BY <1>4, <2>1, DigitType, RadixAssumption
  <2>4. d * 1 = d
    OBVIOUS
  <2>. QED  BY <2>2, <2>3, <2>4, PowerStep
<1>. QED  BY <1>1, <1>2, <1>3, <1>6, <1>7

LEMMA NoDigits ==
  ASSUME NEW arr, NEW p, Within(arr, p, 0) PROVE ShortValue(arr, p, 0) = 0
<1>1. PICK s : IsSum(arr, p, 0, s) /\ ShortValue(arr, p, 0) = s[0]
  BY SumExists
<1>. QED  BY <1>1, SumStep DEF Summed

LEMMA WithinLess ==
  ASSUME NEW arr, NEW p, NEW n \in Nat, Within(arr, p, n + 1) PROVE Within(arr, p, n)
BY MaxSizeAssumption DEF Within

LEMMA ValueBounded ==
  ASSUME NEW arr, NEW p, NEW n \in Nat, Within(arr, p, n)
  PROVE  ShortValue(arr, p, n) \in Nat /\ ShortValue(arr, p, n) < Power[n]
<1>. DEFINE S == {j \in Nat : Within(arr, p, j) =>
                    ShortValue(arr, p, j) \in Nat /\ ShortValue(arr, p, j) < Power[j]}
<1>1. 0 \in S
  BY NoDigits, PowerStep
<1>2. ASSUME NEW j \in Nat, j \in S PROVE j + 1 \in S
  <2>. SUFFICES ASSUME Within(arr, p, j + 1)
                PROVE  ShortValue(arr, p, j + 1) \in Nat /\ ShortValue(arr, p, j + 1) < Power[j + 1]
    OBVIOUS
  <2>1. Within(arr, p, j)
    BY WithinLess
  <2>2. PICK u \in Nat : u = ShortValue(arr, p, j)
    BY <1>2, <2>1
  <2>3. j + 1 \in 1..MaxSize /\ (j + 1) - 1 = j /\ j \in 0..MaxSize
    BY MaxSizeAssumption DEF Within
  <2>4. PICK w \in Nat : w = Power[j]
    BY <2>3, PowerStep
  <2>5. u < w
    BY <1>2, <2>1, <2>2, <2>4
  <2>6. PICK d \in 0 .. Radix - 1 : d = arr[p + j] % Radix
    <3>. HIDE DEF S
    <3>2. p \in Nat
      BY <2>1, WithinNat
    <3>1. j + 1 \in 1 .. j + 1 /\ p + (j + 1) - 1 = p + j
      BY <3>2
    <3>3. arr[p + (j + 1) - 1] % Radix \in 0 .. Radix - 1
      BY <3>1, DigitType
    <3>. QED  BY <3>1, <3>3
  <2>7. ShortValue(arr, p, j + 1) = Radix * u + d
    BY <2>1, <2>2, <2>6, OneDigitMore
  <2>8. Power[j + 1] = Radix * w
    BY <2>3, <2>4, PowerStep
  <2>9. Radix * u + d < Radix * w /\ Radix * u + d \in Nat
    <3>1. u + 1 <= w
      BY <2>5
    <3>2. Radix * (u + 1) <= Radix * w
      BY <3>1, RadixAssumption
    <3>3. Radix * (u + 1) = Radix * u + Radix
      BY RadixAssumption
    <3>. QED  BY <3>2, <3>3, RadixAssumption
  <2>. QED  BY <2>7, <2>8, <2>9
<1>3. n \in S
  <2>. HIDE DEF S
  <2>. QED  BY <1>1, <1>2, Induction
<1>. QED  BY <1>3

LEMMA PowersGrow == \A k \in 0..MaxSize : Power[k] <= Power[MaxSize]
<1>. DEFINE S == {j \in Nat : j <= MaxSize => \A k \in 0..j : Power[k] <= Power[j]}
<1>1. 0 \in S
  BY PowerStep
<1>2. ASSUME NEW j \in Nat, j \in S PROVE j + 1 \in S
  <2>. SUFFICES ASSUME j + 1 <= MaxSize, NEW k \in 0 .. j + 1 PROVE Power[k] <= Power[j + 1]
    OBVIOUS
  <2>1. j + 1 \in 1..MaxSize /\ (j + 1) - 1 = j /\ j \in 0..MaxSize /\ k \in 0..MaxSize
    BY MaxSizeAssumption
  <2>2. PICK w \in Nat : w = Power[j]
    BY <2>1, PowerStep
  <2>3. Power[j + 1] = Radix * w
    BY <2>1, <2>2, PowerStep
  <2>4. w <= Radix * w
    BY RadixAssumption
  <2>5. CASE k = j + 1
    BY <2>3, <2>5, RadixAssumption
  <2>6. CASE k # j + 1
    <3>1. k \in 0..j
      BY <2>6
    <3>2. Power[k] <= w /\ Power[k] \in Nat
      BY <1>2, <2>1, <2>2, <3>1, PowerStep
    <3>. QED  BY <2>3, <2>4, <3>2, RadixAssumption
  <2>. QED  BY <2>5, <2>6
<1>3. MaxSize \in S
  <2>. HIDE DEF S
  <2>. QED  BY <1>1, <1>2, Induction, MaxSizeAssumption
<1>. QED  BY <1>3, MaxSizeAssumption

(* Making room for the next digit loses nothing. *)
LEMMA RoomForOneMore ==
  ASSUME NEW arr, NEW p, NEW n \in 0 .. MaxSize - 1, Within(arr, p, n)
  PROVE  (Radix * ShortValue(arr, p, n)) % Modulus = Radix * ShortValue(arr, p, n)
<1>1. n \in Nat /\ n + 1 \in 1..MaxSize /\ (n + 1) - 1 = n /\ n \in 0..MaxSize /\ n + 1 \in 0..MaxSize
  BY MaxSizeAssumption
<1>2. PICK u \in Nat : u = ShortValue(arr, p, n)
  BY <1>1, ValueBounded
<1>3. PICK w \in Nat : w = Power[n]
  BY <1>1, PowerStep
<1>4. u < w
  BY <1>1, <1>2, <1>3, ValueBounded
<1>5. PICK m \in Nat : m = Power[MaxSize]
  BY PowerStep, MaxSizeAssumption
<1>6. Radix * w <= m
  BY <1>1, <1>3, <1>5, PowerStep, PowersGrow
<1>7. Modulus = 2 * m /\ Modulus \in Nat \ {0}
  BY <1>5, ModulusAssumption
<1>8. Radix * u <= Radix * w /\ Radix * u \in Nat /\ Radix * w \in Nat
  BY <1>4, RadixAssumption
<1>9. Radix * u < Modulus
  BY <1>6, <1>7, <1>8
<1>10. (Radix * u) % Modulus = Radix * u
  BY <1>7, <1>8, <1>9
<1>. QED  BY <1>2, <1>10

-----------------------------------------------------------------------------
(* At a position there is at most one integer. *)
LEMMA NotLonger ==
  ASSUME NEW arr \in Seq(Byte), NEW p \in Nat, NEW n \in 1..MaxSize, NEW m \in 1..MaxSize,
         Ends(arr, p, n), Ends(arr, p, m), n < m
  PROVE  FALSE
<1>1. n \in Nat /\ m \in Nat /\ n - 1 \in 0 .. m - 2 /\ n < MaxSize /\ p + (n - 1) = p + n - 1
  BY MaxSizeAssumption
<1>2. arr[p + (n - 1)] >= Radix
  BY <1>1 DEF Ends
<1>3. arr[p + n - 1] < Radix /\ p + n - 1 \in DOMAIN arr
  BY <1>1 DEF Ends
<1>4. arr[p + n - 1] \in Nat
  BY <1>3, RadixAssumption DEF Byte
<1>. QED  BY <1>1, <1>2, <1>3, <1>4, RadixAssumption

LEMMA OneSize ==
  ASSUME NEW arr \in Seq(Byte), NEW p \in Nat \ {0}, NEW n \in 1..MaxSize, Encoded(arr, p, n)
  PROVE  Complete(arr, p) /\ SizeOf(arr, p) = n
<1>1. ASSUME NEW m \in 1..MaxSize, Encoded(arr, p, m) PROVE m = n
  <2>1. ~(n < m) /\ ~(m < n)
    BY <1>1, NotLonger DEF Encoded
  <2>. QED  BY <2>1, MaxSizeAssumption
<1>2. SizeOf(arr, p) \in 1..MaxSize /\ Encoded(arr, p, SizeOf(arr, p))
  BY DEF SizeOf
<1>. QED  BY <1>1, <1>2 DEF Complete, Null

(* The value so far is that of the digits so far with room for another,    *)
(* and what calls returned is what is there.                               *)
Decoding ==
  /\ pc = "loop" /\ localIt # Null => v = Radix * ShortValue(page, localIt, i)
  /\ \A k \in DOMAIN values :
       Complete(page, values[k].at) /\ values[k].value = ValueOf(page, values[k].at)
  /\ pc = "idle" /\ values # <<>> => dataIt = NextOf(page, localIt)

LEMMA DecodingInit == Init => Decoding
BY DEF Init, Decoding

LEMMA DigitsWithin ==
  ASSUME Inv, pc = "loop", localIt # Null PROVE Within(page, localIt, i)
BY MaxSizeAssumption DEF Inv, Ahead, TypeOK, Within

LEMMA NextWithin ==
  ASSUME Inv, pc = "loop", Readable, i < MaxSize - 1
  PROVE  /\ Within(page, localIt, i) /\ Within(page, localIt, i + 1) /\ i \in Nat
         /\ ShortValue(page, localIt, i) \in Nat
         /\ ShortValue(page, localIt, i + 1) = Radix * ShortValue(page, localIt, i) + (Indexed % Radix)
<1>1. localIt # Null /\ i \in Nat /\ localIt + i \in DOMAIN page
  BY ByteType DEF Inv, Readable, TypeOK
<1>2. Within(page, localIt, i)
  BY <1>1, DigitsWithin
<1>3. Within(page, localIt, i + 1)
  BY <1>1, <1>2, MaxSizeAssumption DEF Within
<1>. QED  BY <1>1, <1>2, <1>3, OneDigitMore DEF Indexed

(* A call that returns what is there keeps it.                             *)
LEMMA ReturnsDecoded ==
  ASSUME Inv, Decoding, NEW value \in Nat, Returns(value), localIt # Null, UNCHANGED <<page, localIt>>,
         Complete(page, localIt), value = ValueOf(page, localIt), dataIt' = NextOf(page, localIt)
  PROVE  Decoding'
<1>1. pc' = "idle" /\ values' = Append(values, [at |-> localIt, value |-> value])
  BY DEF Returns
<1>2. values \in Seq([at: DOMAIN page, value: Nat]) /\ localIt \in DOMAIN page
  BY DEF Inv, TypeOK
<1>3. ASSUME NEW k \in DOMAIN values'
      PROVE  Complete(page, values'[k].at) /\ values'[k].value = ValueOf(page, values'[k].at)
  <2>1. CASE k \in DOMAIN values
    <3>1. values'[k] = values[k]
      BY <1>1, <1>2, <2>1
    <3>. QED  BY <2>1, <3>1 DEF Decoding
  <2>2. CASE k \notin DOMAIN values
    <3>1. values'[k] = [at |-> localIt, value |-> value]
      BY <1>1, <1>2, <2>2
    <3>. QED  BY <3>1
  <2>. QED  BY <2>1, <2>2
<1>. QED  BY <1>1, <1>3 DEF Decoding

LEMMA LastByteDecoded == ASSUME Inv, Decoding, LastByte PROVE Decoding'
<1>1. /\ Within(page, localIt, i + 1) /\ i \in Nat /\ ShortValue(page, localIt, i) \in Nat
      /\ ShortValue(page, localIt, i + 1) = Radix * ShortValue(page, localIt, i) + (Indexed % Radix)
  BY NextWithin DEF LastByte
<1>2. localIt # Null /\ Indexed \in Nat /\ localIt \in Nat \ {0} /\ page \in Seq(Byte)
  BY <1>1, ByteType, WithinNat DEF Inv, LastByte, Readable, Within
<1>3. Indexed % Radix = Indexed
  BY <1>2, RadixAssumption DEF LastByte
<1>4. v + Indexed = ShortValue(page, localIt, i + 1) /\ v + Indexed \in Nat
  BY <1>1, <1>2, <1>3 DEF Decoding, LastByte, Inv, TypeOK
<1>5. i + 1 \in 1..MaxSize /\ i + 1 < MaxSize
  BY <1>1, MaxSizeAssumption DEF LastByte
<1>6. Encoded(page, localIt, i + 1) /\ dataIt = Behind(page, localIt, i + 1)
  <2>1. Inv'
    BY LastByteInv
  <2>2. Left'
    BY <2>1 DEF Inv, LastByte, Returns
  <2>3. values' # <<>>
    BY <1>2, <1>4, ReturnsType DEF Inv, LastByte
  <2>4. UNCHANGED <<page, dataIt, localIt, i>> /\ i < MaxSize - 1
    BY DEF LastByte
  <2>. QED  BY <2>2, <2>3, <2>4 DEF Left, Encoded, Ends, Behind
<1>7. Complete(page, localIt) /\ SizeOf(page, localIt) = i + 1
  BY <1>2, <1>5, <1>6, OneSize
<1>8. ValueOf(page, localIt) = v + Indexed /\ NextOf(page, localIt) = dataIt
  BY <1>4, <1>5, <1>6, <1>7 DEF ValueOf, NextOf
<1>9. Returns(v + Indexed) /\ UNCHANGED <<page, dataIt, localIt>>
  BY DEF LastByte
<1>. QED  BY <1>2, <1>4, <1>7, <1>8, <1>9, ReturnsDecoded

LEMMA NextByteDecoded == ASSUME Inv, Decoding, NextByte PROVE Decoding'
<1>1. /\ Within(page, localIt, i + 1) /\ i \in Nat /\ ShortValue(page, localIt, i) \in Nat
      /\ ShortValue(page, localIt, i + 1) = Radix * ShortValue(page, localIt, i) + (Indexed % Radix)
  BY NextWithin DEF NextByte
<1>2. localIt # Null /\ i + 1 \in 0 .. MaxSize - 1
  BY <1>1, MaxSizeAssumption DEF NextByte, Readable
<1>3. PICK u : u = ShortValue(page, localIt, i + 1)
  OBVIOUS
<1>4. u \in Nat
  BY <1>1, <1>3, ValueBounded
<1>5. v + (Indexed % Radix) = u
  BY <1>1, <1>2, <1>3 DEF Decoding, NextByte
<1>6. u * Radix = Radix * u
  BY <1>4, RadixAssumption
<1>7. (Radix * u) % Modulus = Radix * u
  BY <1>1, <1>2, <1>3, RoomForOneMore
<1>8. v' = Radix * u
  BY <1>5, <1>6, <1>7 DEF NextByte
<1>9. UNCHANGED <<page, localIt, pc, values>> /\ i' = i + 1
  BY DEF NextByte
<1>. QED  BY <1>3, <1>8, <1>9 DEF Decoding, NextByte

LEMMA FullByteDecoded == ASSUME Inv, Decoding, FullByte PROVE Decoding'
<1>1. localIt # Null /\ Indexed \in Nat /\ i = MaxSize - 1 /\ localIt + i \in DOMAIN page
  BY ByteType DEF Inv, FullByte, Readable
<1>2. Within(page, localIt, i)
  BY <1>1, DigitsWithin DEF FullByte
<1>3. localIt \in Nat \ {0} /\ i \in Nat /\ page \in Seq(Byte) /\ Len(page) \in Nat
  BY <1>2, WithinNat DEF Within
<1>4. PICK u : u = ShortValue(page, localIt, MaxSize - 1)
  OBVIOUS
<1>5. u \in Nat
  BY <1>1, <1>2, <1>3, <1>4, ValueBounded
<1>6. v = Radix * u
  BY <1>1, <1>4 DEF Decoding, FullByte
<1>7. v * 2 * Radix = u * 2 * Radix * Radix
  BY <1>5, <1>6, RadixAssumption
<1>8. Encoded(page, localIt, MaxSize)
  <2>1. Ahead(i)
    BY DEF Inv, FullByte
  <2>2. localIt + MaxSize - 1 = localIt + i /\ 0 .. MaxSize - 2 = 0 .. i - 1
    BY <1>1, <1>3, MaxSizeAssumption
  <2>. QED  BY <1>1, <2>1, <2>2, MaxSizeAssumption DEF Ahead, Encoded, Ends
<1>9. Complete(page, localIt) /\ SizeOf(page, localIt) = MaxSize
  BY <1>3, <1>8, OneSize, MaxSizeAssumption
<1>10. PICK value : value = ((v * 2 * Radix) % Modulus) + Indexed
  OBVIOUS
<1>11. value = ValueOf(page, localIt)
  <2>1. page[localIt + MaxSize - 1] = Indexed
    BY <1>1, <1>3, MaxSizeAssumption DEF Indexed
  <2>2. ~(MaxSize < MaxSize)
    BY MaxSizeAssumption
  <2>. QED  BY <1>4, <1>7, <1>9, <1>10, <2>1, <2>2 DEF ValueOf
<1>12. value \in Nat
  <2>1. v * 2 * Radix \in Nat
    BY RadixAssumption DEF Inv, TypeOK
  <2>2. (v * 2 * Radix) % Modulus \in Nat
    BY <2>1, ModulusAssumption
  <2>. QED  BY <1>1, <1>10, <2>2
<1>13. dataIt' = NextOf(page, localIt)
  <2>1. dataIt = Behind(page, localIt, MaxSize)
    BY <1>1, <1>3, MaxSizeAssumption DEF Inv, FullByte, Ahead
  <2>2. After(page, dataIt) = Behind(page, localIt, MaxSize + 1)
    BY <1>3, <2>1, MaxSizeAssumption DEF After, Behind, Null
  <2>3. ~(MaxSize < MaxSize)
    BY MaxSizeAssumption
  <2>. QED  BY <1>9, <2>2, <2>3 DEF NextOf, FullByte
<1>14. Returns(value) /\ UNCHANGED <<page, localIt>>
  BY <1>10 DEF FullByte
<1>. QED  BY <1>1, <1>9, <1>11, <1>12, <1>13, <1>14, ReturnsDecoded

LEMMA StepDecoded == Inv /\ Decoding /\ [Next]_vars => Decoding'
<1>. SUFFICES ASSUME Inv, Decoding, [Next]_vars PROVE Decoding'
  OBVIOUS
<1>1. CASE Call
  <2>1. localIt' # Null => ShortValue(page, localIt', 0) = 0
    <3>1. localIt' # Null => Within(page, localIt', 0)
      BY <1>1, PageLength, MaxSizeAssumption DEF Inv, TypeOK, Call, Within, Null
    <3>. QED  BY <3>1, NoDigits
  <2>. QED  BY <1>1, <2>1, RadixAssumption DEF Call, Decoding
<1>2. CASE OutOfRange \/ Overrun
  BY <1>2 DEF OutOfRange, Overrun, Decoding
<1>3. CASE Stopped \/ UNCHANGED vars
  BY <1>3 DEF Stopped, vars, Decoding
<1>. QED  BY <1>1, <1>2, <1>3, LastByteDecoded, NextByteDecoded, FullByteDecoded DEF Next

LEMMA StartedWithin == ASSUME TypeOK, NEW k \in DOMAIN values PROVE values[k].at \in Nat \ {0}
<1>1. values[k] \in [at: DOMAIN page, value: Nat]
  <2>1. values \in Seq([at: DOMAIN page, value: Nat])
    BY DEF TypeOK
  <2>2. k \in 1 .. Len(values)
    BY <2>1, LenProperties, Zenon
  <2>. QED  BY <2>1, <2>2, ElementOfSeq, Zenon
<1>2. values[k].at \in 1 .. Len(page) /\ Len(page) \in Nat
  BY <1>1, PageLength
<1>. QED  BY <1>2

LEMMA AlwaysDecoding == Spec => [](Inv /\ Decoding)
BY Invariant, DecodingInit, StepDecoded, PTL DEF Spec, Safe

(***************************************************************************)
(* Of any radix and any maxSize: the digits of an integer shorter than     *)
(* maxSize are worth what their places say, and none is lost to the width  *)
(* of the word.                                                            *)
(***************************************************************************)
THEOREM ShortIsDecoded == Spec => []ShortDecoded
<1>1. Inv /\ Decoding => ShortDecoded
  <2>. SUFFICES ASSUME Inv, Decoding, NEW k \in DOMAIN values, NEW n \in 1 .. MaxSize - 1,
                       Encoded(page, values[k].at, n)
                PROVE  values[k].value = ShortValue(page, values[k].at, n)
    BY DEF ShortDecoded
  <2>1. values[k].at \in Nat \ {0}
    BY StartedWithin DEF Inv
  <2>2. n \in 1..MaxSize /\ n < MaxSize
    BY MaxSizeAssumption
  <2>3. SizeOf(page, values[k].at) = n
    BY <2>1, <2>2, OneSize DEF Inv, TypeOK
  <2>. QED  BY <2>2, <2>3 DEF Decoding, ValueOf
<1>. QED  BY <1>1, AlwaysDecoding, PTL

(***************************************************************************)
(* A call of readVarInt is the one step PageReader takes it for, and it    *)
(* fails only where no integer is complete.                                *)
(***************************************************************************)
THEOREM CallsReadWhole == Spec => []CallsAreReads
<1>1. Inv /\ Decoding => CallsAreReads
  <2>. SUFFICES ASSUME Inv, Decoding PROVE CallsAreReads
    OBVIOUS
  <2>1. ASSUME pc = "idle", values # <<>>
        PROVE  /\ Complete(page, localIt)
               /\ values[Len(values)].value = ValueOf(page, localIt)
               /\ dataIt = NextOf(page, localIt)
    <3>1. Len(values) \in DOMAIN values
      BY <2>1 DEF Inv, TypeOK
    <3>2. values[Len(values)].at = localIt
      BY <2>1 DEF Inv, Left
    <3>. QED  BY <2>1, <3>1, <3>2 DEF Decoding
  <2>2. ASSUME pc \in {"thrown", "aborted"} PROVE ~Complete(page, localIt)
    BY <2>2 DEF Inv, StopsWhereThePageEnds, Complete
  <2>. QED  BY <2>1, <2>2 DEF CallsAreReads
<1>. QED  BY <1>1, AlwaysDecoding, PTL

===============================================================================
