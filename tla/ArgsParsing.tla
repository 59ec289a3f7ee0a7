---------------------------- MODULE ArgsParsing -----------------------------
(***************************************************************************)
(* The command line: ArgsParsing, the arguments main declares, one by one, *)
(* and what main makes of them before it does anything else.               *)
(*                                                                         *)
(* Nothing goes through the words from left to right: each declared        *)
(* argument is searched for in all of them, so that a word may be the      *)
(* value of one argument and the name of another.                          *)
(***************************************************************************)
EXTENDS Naturals, FiniteSetsExt, Sequences

CONSTANTS
  Words,        \* what the words of a command line can be
  CommandLines, \* the command lines, without the program's name
  Absent,       \* the value of an argument that has no token
  Given         \* the value of an argument that takes none

Flag(name, short) == [name |-> name, short |-> short, optional |-> TRUE, values |-> {}]

(* ANY_VAL: every word is a value. *)
Text(name, short, optional) == [name |-> name, short |-> short, optional |-> optional, values |-> Words]

Declared ==
  << Text("--input", "-i", FALSE),
     Flag("--help", "-h"),
     [name |-> "--verbose", short |-> "-v", optional |-> TRUE, values |-> {"info", "debug"}],
     Text("--csv", "-csv", TRUE),
     Text("--sql", "-s", TRUE),
     Flag("--strict", "-c"),
     Flag("--lenient", "-l"),
     Flag("--valid-frames", "-f"),
     Flag("--index", "-x"),
     Flag("--quiet", "-q") >>

Arguments == {Declared[n] : n \in DOMAIN Declared}

ArgNames == {d.name : d \in Arguments}

ASSUME CommandLinesAssumption ==
  /\ CommandLines \subseteq Seq(Words)
  /\ {"info", "debug"} \subseteq Words
  /\ {Absent, Given} \cap Words = {}
  /\ Absent # Given

VARIABLES
  args,     \* _args
  k,        \* the declared argument that is added next
  tokens,   \* _tokens
  errors,   \* _errors
  outcome   \* what main does next: "help", "bad", "good", or "none" before it knows

vars == <<args, k, tokens, errors, outcome>>

-----------------------------------------------------------------------------
DefectLastOf(word) ==   \* find from the front
  IF \E j \in DOMAIN args : args[j] = word THEN Min({j \in DOMAIN args : args[j] = word}) ELSE 0

(* The last place of a word, 0 if it has none. *)
LastOf(word) == Max({j \in DOMAIN args : args[j] = word} \cup {0})

(* isInArguments: the short name counts only if there is no long one. *)
Position(d) == IF LastOf(d.name) # 0 THEN LastOf(d.name) ELSE LastOf(d.short)

Adding == k \in DOMAIN Declared

Arg == Declared[k]

Value == args[Position(Arg) + 1]

Token(value) ==
  /\ tokens' = [tokens EXCEPT ![Arg.name] = value]
  /\ k' = k + 1
  /\ UNCHANGED <<args, errors, outcome>>

Error(what) ==
  /\ errors' = Append(errors, [what |-> what, name |-> Arg.name])
  /\ k' = k + 1
  /\ UNCHANGED <<args, tokens, outcome>>

(* addArg, one action for each of its ends. *)
AbsentOptional ==
  /\ Adding
  /\ Position(Arg) = 0
  /\ Arg.optional
  /\ k' = k + 1
  /\ UNCHANGED <<args, tokens, errors, outcome>>

DefectAbsentRequired ==   \* the first return is forgotten
  /\ Adding
  /\ Position(Arg) = 0
  /\ ~Arg.optional
  /\ errors' = errors \o <<[what |-> "missing", name |-> Arg.name], [what |-> "missing value", name |-> Arg.name]>>
  /\ k' = k + 1
  /\ UNCHANGED <<args, tokens, outcome>>

AbsentRequired ==
  /\ Adding
  /\ Position(Arg) = 0
  /\ ~Arg.optional
  /\ Error("missing")

FlagGiven ==
  /\ Adding
  /\ Position(Arg) # 0
  /\ Arg.values = {}
  /\ Token(Given)

ValueMissing ==
  /\ Adding
  /\ Position(Arg) # 0
  /\ Arg.values # {}
  /\ Position(Arg) = Len(args)
  /\ Error("missing value")

DefectValueInvalid ==   \* returns without an error
  /\ Adding
  /\ Position(Arg) # 0
  /\ Arg.values # {}
  /\ Position(Arg) # Len(args)
  /\ Value \notin Arg.values
  /\ k' = k + 1
  /\ UNCHANGED <<args, tokens, errors, outcome>>

ValueInvalid ==
  /\ Adding
  /\ Position(Arg) # 0
  /\ Arg.values # {}
  /\ Position(Arg) # Len(args)
  /\ Value \notin Arg.values
  /\ Error("invalid value")

ValueTaken ==
  /\ Adding
  /\ Position(Arg) # 0
  /\ Arg.values # {}
  /\ Position(Arg) # Len(args)
  /\ Value \in Arg.values
  /\ Token(Value)

AddArg == AbsentOptional \/ AbsentRequired \/ FlagGiven \/ ValueMissing \/ ValueInvalid \/ ValueTaken

(* main asks for --help before it looks at the errors. *)
Judge ==
  /\ ~Adding
  /\ outcome = "none"
  /\ outcome' = IF tokens["--help"] # Absent THEN "help" ELSE IF errors # <<>> THEN "bad" ELSE "good"
  /\ UNCHANGED <<args, k, tokens, errors>>

Stopped == outcome # "none" /\ UNCHANGED vars

Init ==
  /\ args \in CommandLines
  /\ k = 1
  /\ tokens = [name \in ArgNames |-> Absent]
  /\ errors = <<>>
  /\ outcome = "none"

Next == AddArg \/ Judge \/ Stopped

Spec == Init /\ [][Next]_vars

-----------------------------------------------------------------------------
ErrorType == [what: {"missing", "missing value", "invalid value"}, name: ArgNames]

(* Types.  An argument that is added leaves a token or one error at most.  *)
TypeOK ==
  /\ args \in Seq(Words)
  /\ k \in 1 .. Len(Declared) + 1
  /\ tokens \in [ArgNames -> Words \cup {Absent, Given}]
  /\ errors \in Seq(ErrorType)
  /\ Len(errors) < k
  /\ outcome \in {"none", "help", "bad", "good"}

Named(d, word) == word = d.name \/ word = d.short

Occurs(d) == \E j \in DOMAIN args : Named(d, args[j])

Complete(d) ==
  IF ~Occurs(d) THEN d.optional /\ tokens[d.name] = Absent
  ELSE IF d.values = {} THEN tokens[d.name] = Given
  ELSE /\ tokens[d.name] \in d.values
       /\ \E j \in 1 .. Len(args) - 1 : Named(d, args[j]) /\ tokens[d.name] = args[j + 1]

(***************************************************************************)
(* main goes on only with a complete command line, also if its words are   *)
(* names and values at once: an argument that is named anywhere, in either *)
(* spelling, has a token, with a valid value that stands behind a name of  *)
(* it; one that is not named has none; --input is there.  So no word that  *)
(* names an argument is without effect, and getArgValue never meets a      *)
(* value of another argument.                                              *)
(***************************************************************************)
AcceptedComplete == outcome = "good" => \A d \in Arguments : Complete(d)

(* Reading from left to right, a word is an option if it is a name and not *)
(* the value of the option before it.                                      *)
Options ==
  LET known  == UNION {{d.name, d.short} : d \in Arguments}
      valued == UNION {{d.name, d.short} : d \in {a \in Arguments : a.values # {}}}
      isOption[j \in 0 .. Len(args)] ==
        j # 0 /\ args[j] \in known /\ ~(isOption[j - 1] /\ args[j - 1] \in valued)
  IN {j \in DOMAIN args : isOption[j]}

(* No value looks like a name, and no argument is spelt in both ways.      *)
Unambiguous ==
  \A d \in Arguments :
    /\ \A j \in DOMAIN args : Named(d, args[j]) => j \in Options
    /\ ~ \E i, j \in DOMAIN args : args[i] = d.name /\ args[j] = d.short

Uses(d) == {j \in Options : Named(d, args[j])}

(* The last use of d, or that it has none, is an error. *)
WrongUse(d) ==
  IF Uses(d) = {} THEN ~d.optional
  ELSE d.values # {} /\ ~(Max(Uses(d)) < Len(args) /\ args[Max(Uses(d)) + 1] \in d.values)

ReadLast(d) ==
  IF Uses(d) = {} \/ WrongUse(d) THEN Absent
  ELSE IF d.values = {} THEN Given ELSE args[Max(Uses(d)) + 1]

(***************************************************************************)
(* Of an unambiguous command line the search from the end makes what one   *)
(* reads from left to right with the last of several counting: the same    *)
(* values, the usage if --help is anywhere, and an error otherwise exactly *)
(* if some argument's last use is wrong.                                   *)
(***************************************************************************)
ReadAsWritten ==
  outcome # "none" /\ Unambiguous =>
    /\ \A d \in Arguments : tokens[d.name] = ReadLast(d)
    /\ outcome = "help" <=> \E j \in Options : args[j] \in {"--help", "-h"}
    /\ outcome = "bad" =>  \E d \in Arguments : WrongUse(d)
    /\ outcome = "good" => \A d \in Arguments : ~WrongUse(d)

=============================================================================
