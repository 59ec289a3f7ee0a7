-------------------------------- MODULE VarInt --------------------------------
(***************************************************************************)
(* VarInt::readVarInt on a FixedRuntimeArray::iterator, called again and   *)
(* again on the same iterator, as RecordHeaderReader::read does.           *)
(*                                                                         *)
(* readVarInt keeps a copy of the iterator, which it indexes, and moves    *)
(* the caller's along as it goes.  The iterator's own protection against   *)
(* leaving the array is its null pointer, and only the copy's start is     *)
(* protected by it: an index is not looked at.                             *)
(***************************************************************************)
EXTENDS Bytes

CONSTANT Pages     \* the arrays that are read

ASSUME PagesAssumption == Pages \subseteq Seq(Byte)

VARIABLES
  page,     \* the array
  dataIt,   \* the caller's iterator: Null, or the position it is at
  localIt,  \* its copy
  i,        \* the loop's variable
  v,        \* the value so far
  pc,       \* "idle" between calls, "loop" within one, or how reading ended
  values    \* what the calls returned, with the position each started at

vars == <<page, dataIt, localIt, i, v, pc, values>>

-----------------------------------------------------------------------------
DefectCall ==   \* the caller's iterator does not move along at once
  /\ pc = "idle"
  /\ localIt' = dataIt
  /\ i' = 0
  /\ v' = 0
  /\ pc' = "loop"
  /\ UNCHANGED <<page, dataIt, values>>

(* readVarInt is entered: the copy is made, the iterator moved along. *)
Call ==
  /\ pc = "idle"
  /\ localIt' = dataIt
  /\ dataIt' = After(page, dataIt)
  /\ i' = 0
  /\ v' = 0
  /\ pc' = "loop"
  /\ UNCHANGED <<page, values>>

(* What localIt[i] is about to do. *)
Readable == localIt # Null /\ localIt + i <= Len(page)

Indexed == page[localIt + i]

Returns(value) ==
  /\ values' = Append(values, [at |-> localIt, value |-> value])
  /\ pc' = "idle"

(* The loop's return.  v ends in a digit of 0, so that + is the code's |. *)
LastByte ==
  /\ pc = "loop"
  /\ i < MaxSize - 1
  /\ Readable
  /\ Indexed < Radix
  /\ Returns(v + Indexed)
  /\ UNCHANGED <<page, dataIt, localIt, i, v>>

DefectNextByte ==   \* the caller's iterator stays behind
  /\ pc = "loop"
  /\ i < MaxSize - 1
  /\ Readable
  /\ Indexed >= Radix
  /\ v' = ((v + (Indexed % Radix)) * Radix) % Modulus
  /\ dataIt' = IF i = 0 THEN After(page, dataIt) ELSE dataIt
  /\ i' = i + 1
  /\ UNCHANGED <<page, localIt, pc, values>>

DefectNextByteShift ==   \* shifted first, then added
  /\ pc = "loop"
  /\ i < MaxSize - 1
  /\ Readable
  /\ Indexed >= Radix
  /\ v' = ((v * Radix) + (Indexed % Radix)) % Modulus
  /\ dataIt' = After(page, dataIt)
  /\ i' = i + 1
  /\ UNCHANGED <<page, localIt, pc, values>>

DefectNextByteStuck ==   \* the loop's ++i is lost
  /\ pc = "loop"
  /\ i < MaxSize - 1
  /\ Readable
  /\ Indexed >= Radix
  /\ v' = ((v + (Indexed % Radix)) * Radix) % Modulus
  /\ dataIt' = After(page, dataIt)
  /\ UNCHANGED <<page, localIt, i, pc, values>>

NextByte ==
  /\ pc = "loop"
  /\ i < MaxSize - 1
  /\ Readable
  /\ Indexed >= Radix
  /\ v' = ((v + (Indexed % Radix)) * Radix) % Modulus
  /\ dataIt' = After(page, dataIt)
  /\ i' = i + 1
  /\ UNCHANGED <<page, localIt, pc, values>>

DefectFullByte ==   \* the room for the last byte is made once
  /\ pc = "loop"
  /\ i = MaxSize - 1
  /\ Readable
  /\ Returns(((v * Radix) % Modulus) + Indexed)
  /\ dataIt' = After(page, dataIt)
  /\ UNCHANGED <<page, localIt, i, v>>

(* After the loop.  Its last round has made room for a digit already. *)
FullByte ==
  /\ pc = "loop"
  /\ i = MaxSize - 1
  /\ Readable
  /\ Returns(((v * 2 * Radix) % Modulus) + Indexed)
  /\ dataIt' = After(page, dataIt)
  /\ UNCHANGED <<page, localIt, i, v>>

(* The null iterator's out_of_range. *)
OutOfRange ==
  /\ pc = "loop"
  /\ localIt = Null
  /\ pc' = "thrown"
  /\ UNCHANGED <<page, dataIt, localIt, i, v, values>>

(* localIt[i] is past the array's memory: the build's sanitizer stops it.  *)
Overrun ==
  /\ pc = "loop"
  /\ localIt # Null
  /\ localIt + i > Len(page)
  /\ pc' = "aborted"
  /\ UNCHANGED <<page, dataIt, localIt, i, v, values>>

Stopped ==
  /\ pc \in {"thrown", "aborted"}
  /\ UNCHANGED vars

(* main's arrays are never empty: a page has its B-tree header. *)
Init ==
  /\ page \in Pages \ {<<>>}
  /\ dataIt = 1
  /\ localIt = 1
  /\ i = 0
  /\ v = 0
  /\ pc = "idle"
  /\ values = <<>>

Next == Call \/ LastByte \/ NextByte \/ FullByte \/ OutOfRange \/ Overrun \/ Stopped

Safe == Init /\ [][Next]_vars

(* Straight-line code and a bounded loop. *)
Spec == Safe /\ WF_vars(Next)

-----------------------------------------------------------------------------
(***************************************************************************)
(* The types, and the loop's bookkeeping: within a call the caller's       *)
(* iterator is one byte ahead of the byte that is looked at.               *)
(***************************************************************************)
TypeOK ==
  /\ page \in Seq(Byte) \ {<<>>}
  /\ dataIt \in {Null} \cup DOMAIN page
  /\ localIt \in {Null} \cup DOMAIN page
  /\ i \in 0 .. MaxSize - 1
  /\ v \in Nat
  /\ pc \in {"idle", "loop", "thrown", "aborted"}
  /\ values \in Seq([at: DOMAIN page, value: Nat])

(***************************************************************************)
(* Of an integer shorter than maxSize, exactly the bytes are taken: when   *)
(* the call returns, the caller's iterator is behind them, and null when   *)
(* they end the page.                                                      *)
(***************************************************************************)
ShortConsumed ==
  pc = "idle" /\ values # <<>> /\ i < MaxSize - 1 =>
    /\ Encoded(page, localIt, i + 1)
    /\ dataIt = Behind(page, localIt, i + 1)
    /\ values[Len(values)].at = localIt

(* Every returned value of less than maxSize bytes is the encoded one.     *)
ShortDecoded ==
  \A k \in DOMAIN values : \A n \in 1 .. MaxSize - 1 :
    Encoded(page, values[k].at, n) => values[k].value = ShortValue(page, values[k].at, n)

(***************************************************************************)
(* A call, seen from outside, is what ValueOf and NextOf say: the callers  *)
(* in PageReader take it as one step, the full length included.           *)
(***************************************************************************)
CallsAreReads ==
  /\ pc = "idle" /\ values # <<>> =>
       /\ Complete(page, localIt)
       /\ values[Len(values)].value = ValueOf(page, localIt)
       /\ dataIt = NextOf(page, localIt)
  /\ pc \in {"thrown", "aborted"} => ~Complete(page, localIt)

(***************************************************************************)
(* Reading stops by the exception only when nothing is left of the page,   *)
(* and by an access past its memory only when the integer there is cut off *)
(* by the page's end: the array is "size protected" for the first byte of  *)
(* an integer, not for the others.                                         *)
(***************************************************************************)
StopsWhereThePageEnds ==
  /\ pc = "thrown"  => dataIt = Null /\ localIt = Null
  /\ pc = "aborted" => /\ localIt \in DOMAIN page
                       /\ \A k \in localIt .. Len(page) : page[k] >= Radix
                       /\ \A n \in 1 .. MaxSize : ~Encoded(page, localIt, n)

(* The iterator never moves back, and a call that returned has moved it.   *)
Forward ==
  /\ dataIt' = Null \/ (dataIt # Null /\ dataIt <= dataIt')
  /\ values' # values => dataIt' # localIt

AlwaysForward == [][Forward]_vars

(* No page, whatever its bytes, can be read for ever. *)
Termination == <>(pc \in {"thrown", "aborted"})

-----------------------------------------------------------------------------
(***************************************************************************)
(* Of any integer at most maxSize bytes are taken ("constexpr int maxSize  *)
(* = 9", "process 9-th byte"), that of the full length included.           *)
(***************************************************************************)
ConsumesAtMostMaxSize ==
  pc = "idle" /\ values # <<>> =>
    \E n \in 1 .. MaxSize : Encoded(page, localIt, n) /\ dataIt = Behind(page, localIt, n)

=============================================================================
