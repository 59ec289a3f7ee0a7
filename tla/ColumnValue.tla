----------------------------- MODULE ColumnValue -----------------------------
(***************************************************************************)
(* What a column of a record says: recordHeaderByteToType, the conversions *)
(* of RecordHeaderDataType and, below them, FromData and Endian.           *)
(*                                                                         *)
(* An uintN_t is the sequence of its bytes, the most significant first.    *)
(***************************************************************************)
EXTENDS Naturals, SequencesExt

(* RecordSerialTypes; the ones not named here are not looked at by name.   *)
ByteInt         == 1
TwoBytesIntBE   == 2
ThreeBytesIntBE == 3
FourBytesIntBE  == 4
SixBytesIntBE   == 5
EightBytesIntBE == 6
FloatBE         == 7
One             == 9
Blob            == 12
String          == 13

SerialTypes == 0 .. String

Sizes == [t \in SerialTypes |->
  CASE t \in 1..4 -> t [] t = SixBytesIntBE -> 6 [] t \in {EightBytesIntBE, FloatBE} -> 8 [] OTHER -> 0]

(* recordHeaderByteToType.  Bad is what no number becomes. *)
FormatOf(n) ==
  IF n > String THEN [type |-> IF n % 2 = 1 THEN String ELSE Blob, size |-> (n - 12) \div 2]
  ELSE [type |-> n, size |-> Sizes[n]]

-----------------------------------------------------------------------------
Zeros(n) == [k \in 1..n |-> 0]

(* static_cast to an unsigned integer of width bytes, a wider one. *)
Widen(word, width) == Zeros(width - Len(word)) \o word

DefectToThis(data, size, width) ==   \* the bytes go to the other end of the word
  Reverse(SubSeq(data, 1, size)) \o Zeros(width - size)

(* FromData::toThis: the first byte is the least significant one. *)
ToThis(data, size, width) == Widen(Reverse(SubSeq(data, 1, size)), width)

(* Endian::fromBig: all bytes of the type change places. *)
FromBig(word) == Reverse(word)

AsUInt8(col) ==
  IF col.type = One THEN <<1>>
  ELSE IF col.type = ByteInt THEN <<col.data[1]>> ELSE <<0>>

AsUInt16(col) ==
  IF col.type = TwoBytesIntBE THEN FromBig(ToThis(col.data, 2, 2)) ELSE Widen(AsUInt8(col), 2)

AsUInt32(col) ==
  IF col.type = ThreeBytesIntBE THEN FromBig(ToThis(col.data, 3, 4))
  ELSE IF col.type = FourBytesIntBE THEN FromBig(ToThis(col.data, 4, 4))
  ELSE Widen(AsUInt16(col), 4)

AsUInt64(col) ==
  IF col.type = SixBytesIntBE THEN FromBig(ToThis(col.data, 6, 8))
  ELSE IF col.type = EightBytesIntBE THEN FromBig(ToThis(col.data, 8, 8))
  ELSE Widen(AsUInt32(col), 8)

(* A double has 53 bits: six bytes in a row are never rounded.  Any other  *)
(* word may become another one; nine bytes, which none has, stand for it.  *)
Rounded == Zeros(9)

ToDouble(word) ==
  IF \E a \in 0..2 : \A k \in DOMAIN word : k \in a+1 .. a+6 \/ word[k] = 0 THEN word ELSE Rounded

(* The bytes of a floating point number are taken for those of an integer, *)
(* as a double, before they are reversed as well as after.                 *)
AsFloat64(col) ==
  IF col.type # FloatBE THEN ToDouble(AsUInt64(col))
  ELSE LET little == ToDouble(ToThis(col.data, 8, 8)) IN
       IF little = Rounded THEN Rounded ELSE ToDouble(FromBig(little))

(* The conversion the formatters choose for a type they print as a number. *)
Numbers == {1, 2, 3, 4, 5, 6, 7, 8, 9}

NumberOf(col) ==
  IF col.type \in {SixBytesIntBE, EightBytesIntBE, FloatBE} THEN AsFloat64(col) ELSE AsUInt32(col)

(* toThis throws a runtime_error if there are too few bytes, data[0] an    *)
(* out_of_range; neither is a FormatterException.                          *)
Converts(col) == col.type \in Numbers => Len(col.data) >= Sizes[col.type]

-----------------------------------------------------------------------------
Magnitude(word) == IF word = Rounded THEN Rounded
                   ELSE LET lead == {k \in DOMAIN word : word[k] # 0} IN
                        IF lead = {} THEN <<>>
                        ELSE SubSeq(word, CHOOSE k \in lead : \A j \in lead : k <= j, Len(word))

(***************************************************************************)
(* The number that is printed for the big endian bytes of a column: for 1, *)
(* 2, 4 and 8 bytes their value, without a sign, for 3 and 6 bytes that    *)
(* value with one or two zero bytes behind it, as the test of all types    *)
(* expects (1280 for 5, 393216 for 6).  A floating point number is shown   *)
(* as the integer its bytes make.                                          *)
(***************************************************************************)
Expected(col) ==
  CASE col.type = 8               -> <<>>
    [] col.type = One             -> <<1>>
    [] col.type = ThreeBytesIntBE -> Magnitude(col.data \o <<0>>)
    [] col.type = SixBytesIntBE   -> Magnitude(col.data \o <<0, 0>>)
    [] OTHER                      -> Magnitude(col.data)

ShownAsExpected(col) ==
  LET shown == Magnitude(NumberOf(col)) IN
  \/ shown = Expected(col)
  \/ Sizes[col.type] = 8 /\ shown = Rounded

=============================================================================
