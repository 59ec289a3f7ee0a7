-------------------------------- MODULE Bytes --------------------------------
(***************************************************************************)
(* The bytes of a page, the iterators of FixedRuntimeArray and the         *)
(* variable length integers of SQLite.                                     *)
(*                                                                         *)
(* A byte of Radix or more announces another byte; its last digit counts.  *)
(* After MaxSize - 1 of these the last byte counts in full.  In the code   *)
(* Radix is 2^7 and MaxSize is 9, which makes Modulus 2^64.                *)
(***************************************************************************)
EXTENDS Naturals, Sequences, FiniteSetsExt

CONSTANTS
  Radix,    \* lastSevenBits + 1
  MaxSize,  \* maxSize
  Modulus   \* of an uint64_t

ASSUME RadixAssumption == Radix \in Nat /\ Radix > 1
ASSUME MaxSizeAssumption == MaxSize \in Nat /\ MaxSize > 1

(* The worth of a digit with k digits behind it. *)
Power[k \in 0..MaxSize] == IF k = 0 THEN 1 ELSE Radix * Power[k - 1]

ASSUME ModulusAssumption == Modulus \in Nat \ {0} /\ Modulus = 2 * Power[MaxSize]

Byte == 0 .. 2 * Radix - 1

-----------------------------------------------------------------------------
(* Positions start at 1; an iterator past the last one is null. *)
Null == 0

DefectAfter(arr, it) == IF it = Null \/ it > Len(arr) THEN Null ELSE it + 1

(* operator++ *)
After(arr, it) == IF it = Null \/ it >= Len(arr) THEN Null ELSE it + 1

DefectPlusUnbounded(arr, it, n) == IF it = Null THEN Null ELSE it + n

DefectPlus(arr, it, n) == IF it = Null \/ it + n >= Len(arr) THEN Null ELSE it + n

(* operator+= and operator+ *)
Plus(arr, it, n) == IF it = Null \/ it + n > Len(arr) THEN Null ELSE it + n

(* std::distance counts increments until the two iterators are equal. *)
Distance(arr, from, to) ==
  IF from = to THEN 0
  ELSE IF to = Null THEN Len(arr) + 1 - from ELSE to - from

(* n >= 1 bytes can be read one by one from it; operator* throws if not. *)
Fits(arr, it, n) == it # Null /\ it + n - 1 <= Len(arr)

Slice(arr, it, n) == SubSeq(arr, it, it + n - 1)

-----------------------------------------------------------------------------
(* The integer at p is complete and has n bytes. *)
Ends(arr, p, n) ==
  /\ p + n - 1 \in DOMAIN arr
  /\ \A k \in 0..n-2 : arr[p + k] >= Radix
  /\ n < MaxSize => arr[p + n - 1] < Radix

Encoded(arr, p, n) == n \in 1..MaxSize /\ Ends(arr, p, n)

ShortValue(arr, p, n) ==
  LET sum[k \in 0..n] == IF k = 0 THEN 0 ELSE sum[k - 1] + (arr[p + k - 1] % Radix) * Power[n - k]
  IN sum[n]

(* The position after an integer of n bytes. *)
Behind(arr, p, n) == IF p + n <= Len(arr) THEN p + n ELSE Null

(***************************************************************************)
(* A whole call of VarInt::readVarInt at p, as module VarInt has it step   *)
(* by step.  Of an integer of full length the code takes one byte more,    *)
(* and it makes room for a digit twice.                                    *)
(***************************************************************************)
Complete(arr, p) == p # Null /\ \E n \in 1..MaxSize : Encoded(arr, p, n)

SizeOf(arr, p) == CHOOSE n \in 1..MaxSize : Encoded(arr, p, n)

ValueOf(arr, p) ==
  LET n == SizeOf(arr, p) IN
  IF n < MaxSize THEN ShortValue(arr, p, n)
  ELSE ((ShortValue(arr, p, n - 1) * 2 * Radix * Radix) % Modulus) + arr[p + n - 1]

NextOf(arr, p) ==
  LET n == SizeOf(arr, p) IN Behind(arr, p, IF n < MaxSize THEN n ELSE n + 1)

=============================================================================
