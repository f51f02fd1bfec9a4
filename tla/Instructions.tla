---------------------------- MODULE Instructions ----------------------------
(***************************************************************************)
(* The programs that processes execute: the text of an instruction as      *)
(* generate_dummy_process and screen_start print it, and the Instruction   *)
(* struct the parsers make of it.                                          *)
(*                                                                         *)
(* A text is a record: its command and its arguments.  The variable vK is  *)
(* the number K.  An operand of ADD and SUBTRACT is a variable or a        *)
(* number, [var |-> K] or [num |-> N].                                     *)
(***************************************************************************)
EXTENDS Integers, Sequences

CONSTANTS
  ValueMax,        \* 65535 in CLAMP_UINT16
  Literals,        \* the values of rand() % 100 that programs contain
  SleepTimes,      \* those of 1 + rand() % 10
  ScreenDeclares   \* 5 in screen_start

ASSUME InstructionsAssumption ==
  /\ ValueMax \in Nat \ {0}
  /\ Literals \subseteq Nat
  /\ SleepTimes \subseteq Nat
  /\ ScreenDeclares \in Nat \ {0}

(* The empty string in an argument of an Instruction. *)
NoArg == -1

(* Mutant of Clamp: no upper limit. *)
ClampBelow(x) == IF x < 0 THEN 0 ELSE x

(* CLAMP_UINT16. *)
Clamp(x) == IF x > ValueMax THEN ValueMax ELSE IF x < 0 THEN 0 ELSE x

(* Instruction inst = {0}, with a type. *)
Zeroed(type) == [type |-> type, arg1 |-> NoArg, arg2 |-> NoArg, arg3 |-> NoArg,
                 value |-> 0]

parse_declare(text) ==
  [Zeroed("DECLARE") EXCEPT !.arg1 = text.var, !.value = Clamp(text.num)]

IsVariable(operand) == "var" \in DOMAIN operand

(* An operand that is a number leaves its argument empty and goes to value, *)
(* which a second number overwrites.                                       *)
parse_add_sub(text) ==
  LET Name(operand) == IF IsVariable(operand) THEN operand.var ELSE NoArg
      value == CASE ~IsVariable(text.right) -> Clamp(text.right.num)
                 [] ~IsVariable(text.left)  -> Clamp(text.left.num)
                 [] OTHER                   -> 0
  IN  [Zeroed(text.cmd) EXCEPT !.arg1 = text.var, !.arg2 = Name(text.left),
                               !.arg3 = Name(text.right), !.value = value]

parse_print(text) == [Zeroed("PRINT") EXCEPT !.arg1 = text.var]

parse_sleep(text) == [Zeroed("SLEEP") EXCEPT !.value = text.num]

(* The generator writes a FOR as "[vI,vJ];N".  Nothing between the brackets *)
(* is a command with parentheses, so no instruction is parsed from it, and  *)
(* the ";" keeps N from being read: the struct has no sub-instructions and  *)
(* a repeat count of 1, whatever the text says.                             *)
parse_for(text) == Zeroed("FOR")

parse(text) ==
  CASE text.cmd = "DECLARE"             -> parse_declare(text)
    [] text.cmd \in {"ADD", "SUBTRACT"} -> parse_add_sub(text)
    [] text.cmd = "PRINT"               -> parse_print(text)
    [] text.cmd = "SLEEP"               -> parse_sleep(text)
    [] text.cmd = "FOR"                 -> parse_for(text)
-----------------------------------------------------------------------------
Declares(i) == [cmd : {"DECLARE"}, var : {i}, num : Literals]

Sleeps == [cmd : {"SLEEP"}, num : SleepTimes]

Variables(indices) == [var : indices]
Numbers == [num : Literals]

(* What generate_dummy_process may write for instruction i: earlier are the *)
(* indices it draws for the variables it reads.                            *)
generate_dummy_process(i) ==
  LET earlier == IF i > 0 THEN 0 .. i - 1 ELSE {0}
      right == IF i > 0 THEN Variables(earlier) \cup Numbers ELSE Numbers
  IN  Declares(i)
        \cup [cmd : {"ADD", "SUBTRACT"}, var : {i}, left : Variables(earlier),
              right : right]
        \cup [cmd : {"PRINT"}, var : earlier]
        \cup Sleeps
        \cup {[cmd |-> "FOR"]}

(* What screen_start may write for instruction i. *)
screen_start(i) ==
  LET declared == 0 .. ScreenDeclares - 1
  IN  IF i < ScreenDeclares
      THEN Declares(i)
      ELSE Declares(i)
             \cup [cmd : {"ADD", "SUBTRACT"}, var : {i},
                   left : Variables(declared), right : Numbers]
             \cup [cmd : {"PRINT"}, var : declared]
             \cup Sleeps

(* The programs of n instructions, each drawn from what Texts(i) allows.   *)
ProgramsOf(Texts(_), n) ==
  LET all == UNION {Texts(i - 1) : i \in 1 .. n}
  IN  {program \in [1 .. n -> all] :
         \A i \in 1 .. n : program[i] \in Texts(i - 1)}
=============================================================================
