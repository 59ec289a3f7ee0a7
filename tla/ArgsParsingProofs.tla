-------------------------- MODULE ArgsParsingProofs -------------------------
(***************************************************************************)
(* What main goes on with, for every command line.                         *)
(***************************************************************************)
EXTENDS ArgsParsing, NatProofs

(* Where an argument is found, its name or its short name stands.          *)
LEMMA PositionNamed ==
  ASSUME TypeOK, NEW d
  PROVE  /\ Position(d) \in Nat
         /\ Position(d) = 0 <=> ~Occurs(d)
         /\ Position(d) # 0 => Position(d) \in 1 .. Len(args) /\ Named(d, args[Position(d)])
<1>1. args \in Seq(Words)
  BY DEF TypeOK
<1>2. Len(args) \in Nat /\ DOMAIN args = 1 .. Len(args)
  BY <1>1
<1>3. ASSUME NEW word
      PROVE  \/ LastOf(word) = 0 /\ \A j \in DOMAIN args : args[j] # word
             \/ LastOf(word) \in 1 .. Len(args) /\ args[LastOf(word)] = word
  <2>. DEFINE at == {j \in DOMAIN args : args[j] = word} \cup {0}
  <2>1. at \in SUBSET (0 .. Len(args)) /\ at # {}
    BY <1>2
  <2>2. Max(at) \in at /\ \A y \in at : Max(at) >= y
    BY <1>2, <2>1, MaxIsMember
  <2>3. LastOf(word) = Max(at)
    BY DEF LastOf
  <2>4. CASE LastOf(word) = 0
    <3>1. ASSUME NEW j \in DOMAIN args PROVE args[j] # word
      <4>1. j \in Nat /\ j >= 1
        BY <1>2
      <4>2. args[j] = word => j \in at
        OBVIOUS
      <4>3. j \in at => 0 >= j
        BY <2>2, <2>3, <2>4
      <4>. QED  BY <4>1, <4>2, <4>3
    <3>. QED  BY <2>4, <3>1
  <2>5. CASE LastOf(word) # 0
    BY <1>2, <2>2, <2>3, <2>5
  <2>. QED  BY <2>4, <2>5
<1>4. \/ LastOf(d.name) = 0 /\ \A j \in DOMAIN args : args[j] # d.name
      \/ LastOf(d.name) \in 1 .. Len(args) /\ args[LastOf(d.name)] = d.name
  BY <1>3
<1>5. \/ LastOf(d.short) = 0 /\ \A j \in DOMAIN args : args[j] # d.short
      \/ LastOf(d.short) \in 1 .. Len(args) /\ args[LastOf(d.short)] = d.short
  BY <1>3
<1>. QED  BY <1>2, <1>4, <1>5 DEF Position, Occurs, Named

(* The declared arguments, as far as the proofs need them.                 *)
LEMMA DeclaredType ==
  /\ Len(Declared) = 10 /\ DOMAIN Declared = 1..10
  /\ \A j \in 1..10 : Declared[j].name \in ArgNames /\ Declared[j].values \subseteq Words
  /\ \A i, j \in 1..10 : Declared[i].name = Declared[j].name => i = j
<1>1. Len(Declared) = 10 /\ DOMAIN Declared = 1..10
  BY DEF Declared
<1>2. \A j \in 1..10 : Declared[j].name \in ArgNames
  BY <1>1 DEF Arguments, ArgNames
<1>3. \A j \in 1..10 : Declared[j].values \subseteq Words
  BY CommandLinesAssumption DEF Declared, Flag, Text
<1>4. \A i, j \in 1..10 : Declared[i].name = Declared[j].name => i = j
  BY DEF Declared, Flag, Text
<1>. QED  BY <1>1, <1>2, <1>3, <1>4

(* What is known before main judges: without an error, every argument that *)
(* was added is complete, and the others have no token.                    *)
Settled ==
  /\ errors = <<>> => \A j \in 1 .. k - 1 : Complete(Declared[j])
  /\ \A j \in k .. 10 : tokens[Declared[j].name] = Absent
  /\ outcome # "none" => k = 11
  /\ outcome = "good" => errors = <<>>

Inv == TypeOK /\ Settled

LEMMA InitInv == Init => Inv
<1>. SUFFICES ASSUME Init PROVE Inv
  OBVIOUS
<1>1. args \in Seq(Words)
  BY CommandLinesAssumption DEF Init
<1>2. TypeOK
  BY <1>1, DeclaredType DEF Init, TypeOK
<1>3. Settled
  BY DeclaredType DEF Init, Settled
<1>. QED  BY <1>2, <1>3 DEF Inv

(* A step that leaves an error keeps the invariant.                        *)
LEMMA ErrorInv ==
  ASSUME Inv, Adding, NEW kind, [what |-> kind, name |-> Arg.name] \in ErrorType, Error(kind)
  PROVE  Inv'
<1>1. k \in 1..10 /\ k' = k + 1 /\ Arg.name \in ArgNames
  BY DeclaredType DEF Adding, Error, Arg
<1>2. errors' = Append(errors, [what |-> kind, name |-> Arg.name])
  BY DEF Error
<1>3. [what |-> kind, name |-> Arg.name] \in ErrorType
  OBVIOUS
<1>4. errors \in Seq(ErrorType) /\ Len(errors) < k
  BY DEF Inv, TypeOK
<1>5. errors' \in Seq(ErrorType) /\ Len(errors') = Len(errors) + 1 /\ errors' # <<>>
  BY <1>2, <1>3, <1>4
<1>6. Len(errors') < k'
  BY <1>1, <1>4, <1>5
<1>7. k' \in 1 .. Len(Declared) + 1
  BY <1>1, DeclaredType
<1>8. TypeOK'
  BY <1>5, <1>6, <1>7 DEF Inv, TypeOK, Error
<1>9. outcome' = outcome /\ outcome = "none"
  BY <1>1, DeclaredType DEF Error, Inv, Settled
<1>10. \A j \in k' .. 10 : tokens'[Declared[j].name] = Absent
  BY <1>1 DEF Error, Inv, Settled
<1>11. Settled'
  BY <1>5, <1>9, <1>10 DEF Settled
<1>. QED  BY <1>8, <1>11 DEF Inv

(* A token, or none, that completes the argument does too.                 *)
LEMMA CompletedInv ==
  ASSUME Inv, Adding, NEW value \in Words \cup {Absent, Given},
         tokens' = [tokens EXCEPT ![Arg.name] = value], k' = k + 1,
         UNCHANGED <<args, errors, outcome>>, NEW d, d = Arg, Complete(d)'
  PROVE  Inv'
<1>1. k \in 1..10 /\ Arg.name \in ArgNames
  BY DeclaredType DEF Adding, Arg
<1>2. tokens \in [ArgNames -> Words \cup {Absent, Given}] /\ errors \in Seq(ErrorType)
  BY DEF Inv, TypeOK
<1>3. TypeOK'
  <2>1. tokens' \in [ArgNames -> Words \cup {Absent, Given}]
    BY <1>1, <1>2
  <2>2. k' \in 1 .. Len(Declared) + 1 /\ Len(errors') < k'
    <3>1. Len(errors) \in Nat /\ Len(errors) < k
      BY <1>2 DEF Inv, TypeOK
    <3>. QED  BY <1>1, <3>1, DeclaredType
  <2>. QED  BY <2>1, <2>2 DEF Inv, TypeOK
<1>4. ASSUME NEW j \in 1..10, j # k
      PROVE  tokens'[Declared[j].name] = tokens[Declared[j].name]
  <2>1. Declared[j].name # Arg.name /\ Declared[j].name \in ArgNames
    BY <1>1, <1>4, DeclaredType DEF Arg
  <2>. QED  BY <1>2, <2>1
<1>5. ASSUME NEW j \in 1 .. k - 1, Complete(Declared[j])
      PROVE  Complete(Declared[j])'
  <2>1. tokens'[Declared[j].name] = tokens[Declared[j].name]
    BY <1>1, <1>4
  <2>. QED  BY <1>5, <2>1 DEF Complete, Occurs, Named
<1>6. outcome' = "none"
  BY <1>1, DeclaredType DEF Inv, TypeOK, Settled
<1>7. errors' = <<>> => \A j \in 1 .. k' - 1 : Complete(Declared[j])'
  <2>1. \A j \in 1 .. k' - 1 : j = k \/ j \in 1 .. k - 1
    BY <1>1
  <2>. QED  BY <1>5, <2>1 DEF Inv, Settled, Arg
<1>8. \A j \in k' .. 10 : tokens'[Declared[j].name] = Absent
  <2>1. \A j \in k' .. 10 : j \in 1..10 /\ j # k /\ j \in k .. 10
    BY <1>1
  <2>. QED  BY <1>4, <2>1 DEF Inv, Settled
<1>. QED  BY <1>3, <1>6, <1>7, <1>8 DEF Inv, Settled

(* Each end of addArg. *)
LEMMA AddArgInv == ASSUME Inv, AddArg PROVE Inv'
<1>. PICK d : d = Arg
  OBVIOUS
<1>1. Adding /\ TypeOK
  BY DEF AddArg, AbsentOptional, AbsentRequired, FlagGiven, ValueMissing, ValueInvalid, ValueTaken, Inv
<1>2. k \in 1..10 /\ d.name \in ArgNames /\ d.values \subseteq Words /\ d = Declared[k]
  BY <1>1, DeclaredType DEF Adding, Arg
<1>3. /\ Position(d) \in Nat
      /\ Position(d) = 0 <=> ~Occurs(d)
      /\ Position(d) # 0 => Position(d) \in 1 .. Len(args) /\ Named(d, args[Position(d)])
  BY <1>1, PositionNamed
<1>4. tokens \in [ArgNames -> Words \cup {Absent, Given}] /\ args \in Seq(Words)
  BY <1>1 DEF TypeOK
<1>5. CASE AbsentOptional
  <2>1. tokens[d.name] = Absent
    BY <1>2 DEF Inv, Settled
  <2>2. tokens' = [tokens EXCEPT ![Arg.name] = Absent]
    BY <1>4, <1>5, <2>1 DEF AbsentOptional
  <2>3. Complete(d)'
    BY <1>3, <1>5, <2>1 DEF AbsentOptional, Complete, Occurs, Named
  <2>. QED  BY <1>1, <1>5, <2>2, <2>3, CompletedInv DEF AbsentOptional
<1>6. CASE FlagGiven
  <2>1. tokens'[d.name] = Given
    BY <1>2, <1>4, <1>6 DEF FlagGiven, Token
  <2>2. Complete(d)'
    BY <1>3, <1>6, <2>1 DEF FlagGiven, Token, Complete, Occurs, Named
  <2>. QED  BY <1>1, <1>6, <2>2, CompletedInv DEF FlagGiven, Token
<1>7. CASE ValueTaken
  <2>1. Value = args[Position(d) + 1] /\ Value \in d.values /\ d.values # {} /\ Position(d) \in 1 .. Len(args) - 1
    BY <1>3, <1>4, <1>7 DEF ValueTaken, Value
  <2>2. tokens'[d.name] = Value
    BY <1>2, <1>4, <1>7 DEF ValueTaken, Token
  <2>3. Complete(d)'
    BY <1>3, <1>7, <2>1, <2>2 DEF ValueTaken, Token, Complete, Occurs, Named
  <2>. QED  BY <1>1, <1>2, <1>7, <2>1, <2>3, CompletedInv DEF ValueTaken, Token
<1>8. CASE AbsentRequired \/ ValueMissing \/ ValueInvalid
  <2>1. PICK kind \in {"missing", "missing value", "invalid value"} : Error(kind)
    BY <1>8 DEF AbsentRequired, ValueMissing, ValueInvalid
  <2>2. [what |-> kind, name |-> Arg.name] \in ErrorType
    BY <1>2 DEF ErrorType
  <2>. QED  BY <1>1, <2>1, <2>2, ErrorInv
<1>. QED  BY <1>5, <1>6, <1>7, <1>8 DEF AddArg

LEMMA NextInv == Inv /\ [Next]_vars => Inv'
<1>. SUFFICES ASSUME Inv, [Next]_vars PROVE Inv'
  OBVIOUS
<1>1. CASE Judge
  <2>1. k = 11
    BY <1>1, DeclaredType DEF Judge, Adding, Inv, TypeOK
  <2>. QED  BY <1>1, <2>1 DEF Judge, Inv, TypeOK, Settled, Complete, Occurs, Named
<1>2. CASE UNCHANGED vars
  BY <1>2 DEF vars, Inv, TypeOK, Settled, Complete, Occurs, Named
<1>. QED  BY <1>1, <1>2, AddArgInv DEF Next, Stopped

LEMMA Invariant == Spec => []Inv
BY InitInv, NextInv, PTL DEF Spec

(* An argument that is added leaves a token or at most one error.          *)
THEOREM TypeCorrect == Spec => []TypeOK
<1>1. Inv => TypeOK
  BY DEF Inv
<1>. QED  BY <1>1, Invariant, PTL

(* On any command line: main goes on only if every argument that is named  *)
(* has a token, with a valid value from behind one of its names, if no     *)
(* other has one, and if none that is required is missing.                 *)
THEOREM AcceptedIsComplete == Spec => []AcceptedComplete
<1>1. Inv => AcceptedComplete
  BY DeclaredType DEF Inv, Settled, AcceptedComplete, Arguments
<1>. QED  BY <1>1, Invariant, PTL

-----------------------------------------------------------------------------
(***************************************************************************)
(* ReadAsWritten.  Where no value looks like a name, every place of a name *)
(* is a use, so that the recursion in Options is not needed: what is used  *)
(* last is what isInArguments finds.                                       *)
(***************************************************************************)
LEMMA UsesAreNames ==
  ASSUME Unambiguous, NEW d \in Arguments
  PROVE  Uses(d) = {j \in DOMAIN args : Named(d, args[j])}
<1>1. Options \subseteq DOMAIN args
  BY DEF Options
<1>. QED  BY <1>1 DEF Uses, Unambiguous

LEMMA LastOfIsMax ==
  ASSUME TypeOK, NEW word, NEW at, at = {j \in DOMAIN args : args[j] = word}
  PROVE  /\ at = {} => LastOf(word) = 0
         /\ at # {} => LastOf(word) = Max(at) /\ LastOf(word) \in 1 .. Len(args)
<1>1. Len(args) \in Nat /\ DOMAIN args = 1 .. Len(args)
  BY DEF TypeOK
<1>2. /\ Max(at \cup {0}) \in at \cup {0}
      /\ \A j \in at \cup {0} : Max(at \cup {0}) >= j
  <2>1. at \cup {0} \in SUBSET (0 .. Len(args)) /\ at \cup {0} # {}
    BY <1>1
  <2>. QED  BY <1>1, <2>1, MaxIsMember
<1>3. LastOf(word) = Max(at \cup {0})
  BY DEF LastOf
<1>4. ASSUME at # {} PROVE LastOf(word) = Max(at) /\ LastOf(word) \in 1 .. Len(args)
  <2>1. at \in SUBSET (0 .. Len(args)) /\ \A j \in at : j \in 1 .. Len(args)
    BY <1>1
  <2>2. Max(at) \in at /\ \A j \in at : Max(at) >= j
    BY <1>1, <1>4, <2>1, MaxIsMember
  <2>3. Max(at) \in 1 .. Len(args) /\ Max(at \cup {0}) >= Max(at)
    BY <1>2, <2>1, <2>2
  <2>4. Max(at \cup {0}) \in at
    BY <1>1, <1>2, <2>3
  <2>5. Max(at) >= Max(at \cup {0}) /\ Max(at \cup {0}) \in 1 .. Len(args)
    BY <2>1, <2>2, <2>4
  <2>6. Max(at) = Max(at \cup {0})
    BY <1>1, <2>3, <2>5
  <2>. QED  BY <1>3, <2>3, <2>6
<1>. QED  BY <1>2, <1>3, <1>4

LEMMA PositionIsLastUse ==
  ASSUME TypeOK, Unambiguous, NEW d \in Arguments
  PROVE  /\ Position(d) = 0 <=> Uses(d) = {}
         /\ Position(d) # 0 => Position(d) = Max(Uses(d)) /\ Position(d) \in 1 .. Len(args)
<1>. DEFINE at(word) == {j \in DOMAIN args : args[j] = word}
<1>1. Len(args) \in Nat /\ DOMAIN args = 1 .. Len(args)
  BY DEF TypeOK
<1>2. Uses(d) = at(d.name) \cup at(d.short)
  BY UsesAreNames DEF Named
<1>3. at(d.name) = {} \/ at(d.short) = {}
  BY DEF Unambiguous
<1>4. ASSUME NEW word
      PROVE  /\ at(word) = {} => LastOf(word) = 0
             /\ at(word) # {} => LastOf(word) = Max(at(word)) /\ LastOf(word) \in 1 .. Len(args)
  BY LastOfIsMax
<1>. HIDE DEF at
<1>5. CASE at(d.name) # {}
  <2>1. Uses(d) = at(d.name) /\ LastOf(d.name) \in 1 .. Len(args)
    BY <1>2, <1>3, <1>4, <1>5
  <2>2. LastOf(d.name) # 0 /\ LastOf(d.name) = Max(at(d.name))
    BY <1>1, <1>4, <1>5, <2>1
  <2>. QED  BY <1>5, <2>1, <2>2 DEF Position
<1>6. CASE at(d.name) = {}
  <2>1. Uses(d) = at(d.short) /\ LastOf(d.name) = 0 /\ Position(d) = LastOf(d.short)
    BY <1>2, <1>4, <1>6 DEF Position
  <2>2. CASE at(d.short) = {}
    BY <1>4, <2>1, <2>2
  <2>3. CASE at(d.short) # {}
    <3>1. LastOf(d.short) = Max(at(d.short)) /\ LastOf(d.short) \in 1 .. Len(args)
      BY <1>4, <2>3
    <3>. QED  BY <1>1, <2>1, <2>3, <3>1
  <2>. QED  BY <2>2, <2>3
<1>. QED  BY <1>5, <1>6

(* What addArg makes of an unambiguous argument is what its last use says. *)
LEMMA AddedAsRead ==
  ASSUME Inv, AddArg, Unambiguous, NEW d, d = Arg
  PROVE  /\ tokens' = [tokens EXCEPT ![d.name] = ReadLast(d)]
         /\ IF WrongUse(d) THEN errors' # <<>> ELSE errors' = errors
<1>1. Adding /\ TypeOK
  BY DEF AddArg, AbsentOptional, AbsentRequired, FlagGiven, ValueMissing, ValueInvalid, ValueTaken, Inv
<1>2. k \in 1..10 /\ d = Declared[k] /\ d \in Arguments /\ d.name \in ArgNames
  BY <1>1, DeclaredType DEF Adding, Arg, Arguments
<1>3. tokens[d.name] = Absent
  BY <1>2 DEF Inv, Settled
<1>4. tokens \in [ArgNames -> Words \cup {Absent, Given}] /\ Len(args) \in Nat /\ errors \in Seq(ErrorType)
  BY <1>1 DEF TypeOK
<1>5. tokens = [tokens EXCEPT ![d.name] = Absent]
  BY <1>2, <1>3, <1>4
<1>6. /\ Position(d) = 0 <=> Uses(d) = {}
      /\ Position(d) # 0 => Position(d) = Max(Uses(d)) /\ Position(d) \in 1 .. Len(args)
  BY <1>1, <1>2, PositionIsLastUse
<1>7. ASSUME NEW e, errors' = Append(errors, e) PROVE errors' # <<>>
  BY <1>4, <1>7
<1>8. CASE AbsentOptional
  BY <1>5, <1>6, <1>8 DEF AbsentOptional, WrongUse, ReadLast
<1>9. CASE AbsentRequired
  BY <1>5, <1>6, <1>7, <1>9 DEF AbsentRequired, Error, WrongUse, ReadLast
<1>10. CASE FlagGiven
  BY <1>5, <1>6, <1>10 DEF FlagGiven, Token, WrongUse, ReadLast
<1>11. CASE ValueMissing
  <2>1. Max(Uses(d)) = Len(args) /\ Uses(d) # {} /\ d.values # {}
    BY <1>6, <1>11 DEF ValueMissing
  <2>2. ~(Max(Uses(d)) < Len(args))
    BY <1>4, <2>1
  <2>3. WrongUse(d)
    BY <2>1, <2>2 DEF WrongUse
  <2>. QED  BY <1>5, <1>7, <1>11, <2>3 DEF ValueMissing, Error, ReadLast
<1>12. CASE ValueInvalid
  <2>1. args[Max(Uses(d)) + 1] \notin d.values /\ Uses(d) # {}
    BY <1>6, <1>12 DEF ValueInvalid, Value
  <2>. QED  BY <1>5, <1>7, <1>12, <2>1 DEF ValueInvalid, Error, WrongUse, ReadLast
<1>13. CASE ValueTaken
  <2>1. Value = args[Max(Uses(d)) + 1] /\ Uses(d) # {} /\ Max(Uses(d)) < Len(args)
    BY <1>4, <1>6, <1>13 DEF ValueTaken, Value
  <2>. QED  BY <1>13, <2>1 DEF ValueTaken, Token, WrongUse, ReadLast
<1>. QED  BY <1>8, <1>9, <1>10, <1>11, <1>12, <1>13 DEF AddArg

(* Of an unambiguous command line, each argument that was added has what   *)
(* its last use says, and an error is there exactly for a wrong one.       *)
AddedRead ==
  /\ Unambiguous =>
       /\ \A j \in 1 .. k - 1 : tokens[Declared[j].name] = ReadLast(Declared[j])
       /\ errors # <<>> <=> \E j \in 1 .. k - 1 : WrongUse(Declared[j])
  /\ outcome = "bad" => errors # <<>>
  /\ outcome # "none" => (outcome = "help" <=> tokens["--help"] # Absent)

(* How a command line reads does not depend on what main has made of it.   *)
LEMMA ReadingKept ==
  ASSUME args' = args
  PROVE  /\ Options' = Options
         /\ Unambiguous' <=> Unambiguous
         /\ \A d : Uses(d)' = Uses(d) /\ ReadLast(d)' = ReadLast(d) /\ (WrongUse(d)' <=> WrongUse(d))
<1>1. Options' = Options
  BY DEF Options
<1>2. \A d, word : Named(d, word)' <=> Named(d, word)
  BY DEF Named
<1>3. \A d : Uses(d)' = Uses(d)
  BY <1>1 DEF Uses, Named
<1>4. \A d : WrongUse(d)' <=> WrongUse(d)
  BY <1>3 DEF WrongUse
<1>5. \A d : ReadLast(d)' = ReadLast(d)
  BY <1>3, <1>4 DEF ReadLast
<1>. QED  BY <1>1, <1>3, <1>4, <1>5 DEF Unambiguous, Named
LEMMA StepAddedRead == Inv /\ AddedRead /\ [Next]_vars => AddedRead'
<1>. SUFFICES ASSUME Inv, AddedRead, [Next]_vars PROVE AddedRead'
  OBVIOUS
<1>1. tokens \in [ArgNames -> Words \cup {Absent, Given}]
  BY DEF Inv, TypeOK
<1>2. CASE AddArg
  <2>. PICK d : d = Arg
    OBVIOUS
  <2>1. k \in 1..10 /\ k' = k + 1 /\ d = Declared[k] /\ d.name \in ArgNames /\ UNCHANGED <<args, outcome>>
    BY <1>2, DeclaredType DEF AddArg, AbsentOptional, AbsentRequired, FlagGiven, ValueMissing,
                              ValueInvalid, ValueTaken, Adding, Arg, Token, Error
  <2>2. outcome = "none"
    BY <2>1 DEF Inv, TypeOK, Settled
  <2>3. ASSUME Unambiguous
        PROVE  /\ \A j \in 1 .. k : tokens'[Declared[j].name] = ReadLast(Declared[j])
               /\ errors' # <<>> <=> \E j \in 1 .. k : WrongUse(Declared[j])
    <3>1. /\ tokens' = [tokens EXCEPT ![d.name] = ReadLast(d)]
          /\ IF WrongUse(d) THEN errors' # <<>> ELSE errors' = errors
      BY <1>2, <2>3, AddedAsRead
    <3>2. ASSUME NEW j \in 1 .. k PROVE tokens'[Declared[j].name] = ReadLast(Declared[j])
      <4>1. CASE j = k
        BY <1>1, <2>1, <3>1, <4>1
      <4>2. CASE j # k
        <5>1. j \in 1 .. k - 1 /\ j \in 1..10
          BY <2>1, <4>2
        <5>2. Declared[j].name # d.name /\ Declared[j].name \in ArgNames
          BY <2>1, <4>2, <5>1, DeclaredType
        <5>. QED  BY <1>1, <2>3, <3>1, <5>1, <5>2 DEF AddedRead
      <4>. QED  BY <4>1, <4>2
    <3>3. errors # <<>> <=> \E j \in 1 .. k - 1 : WrongUse(Declared[j])
      BY <2>3 DEF AddedRead
    <3>4. \A j : j \in 1 .. k <=> j \in 1 .. k - 1 \/ j = k
      BY <2>1
    <3>. QED  BY <2>1, <3>1, <3>2, <3>3, <3>4
  <2>4. k' - 1 = k
    BY <2>1
  <2>. QED  BY <2>1, <2>2, <2>3, <2>4, ReadingKept DEF AddedRead
<1>3. CASE Judge
  <2>1. UNCHANGED <<args, k, tokens, errors>>
        /\ outcome' = IF tokens["--help"] # Absent THEN "help" ELSE IF errors # <<>> THEN "bad" ELSE "good"
    BY <1>3 DEF Judge
  <2>. QED  BY <2>1, ReadingKept DEF AddedRead
<1>4. CASE UNCHANGED vars
  BY <1>4, ReadingKept DEF vars, AddedRead
<1>. QED  BY <1>2, <1>3, <1>4 DEF Next, Stopped

LEMMA InitAddedRead == Init => AddedRead
BY DEF Init, AddedRead

LEMMA ReadFromAdded == Inv /\ AddedRead => ReadAsWritten
<1>. SUFFICES ASSUME Inv, AddedRead, outcome # "none", Unambiguous
              PROVE  /\ \A d \in Arguments : tokens[d.name] = ReadLast(d)
                     /\ outcome = "help" <=> \E j \in Options : args[j] \in {"--help", "-h"}
                     /\ outcome = "bad" =>  \E d \in Arguments : WrongUse(d)
                     /\ outcome = "good" => \A d \in Arguments : ~WrongUse(d)
  BY DEF ReadAsWritten
<1>1. \A j \in 1..10 : /\ Declared[j] \in Arguments
                       /\ tokens[Declared[j].name] = ReadLast(Declared[j])
  BY DeclaredType DEF Inv, Settled, AddedRead, Arguments
<1>2. \A d \in Arguments : \E j \in 1..10 : d = Declared[j]
  BY DeclaredType DEF Arguments
<1>3. errors # <<>> <=> \E j \in 1..10 : WrongUse(Declared[j])
  BY DEF Inv, Settled, AddedRead
<1>4. outcome = "help" <=> \E j \in Options : args[j] \in {"--help", "-h"}
  <2>1. Declared[2] = Flag("--help", "-h")
    BY DEF Declared
  <2>2. tokens["--help"] = ReadLast(Declared[2]) /\ Declared[2].values = {} /\ Declared[2].optional
    BY <1>1, <2>1 DEF Flag
  <2>3. Uses(Declared[2]) = {j \in Options : args[j] \in {"--help", "-h"}}
    BY <2>1 DEF Uses, Named, Flag
  <2>4. tokens["--help"] # Absent <=> Uses(Declared[2]) # {}
    BY <2>2, CommandLinesAssumption DEF ReadLast, WrongUse
  <2>. QED  BY <2>3, <2>4 DEF AddedRead
<1>5. outcome = "bad" => \E d \in Arguments : WrongUse(d)
  BY <1>1, <1>3 DEF AddedRead
<1>6. outcome = "good" => \A d \in Arguments : ~WrongUse(d)
  BY <1>2, <1>3 DEF Inv, Settled
<1>. QED  BY <1>1, <1>2, <1>4, <1>5, <1>6

(***************************************************************************)
(* On every unambiguous command line the search from the end finds what    *)
(* one reads from left to right: the same values, the usage if --help is   *)
(* among the options, and else an error exactly if a last use is wrong.    *)
(***************************************************************************)
THEOREM SearchReads == Spec => []ReadAsWritten
BY InitInv, NextInv, InitAddedRead, StepAddedRead, ReadFromAdded, PTL DEF Spec

=============================================================================
