-------------------------- MODULE InterpreterProofs -------------------------
(***************************************************************************)
(* Proofs about Interpreter, for every program that the generator and      *)
(* screen_start can write, of any length, and every way of the process     *)
(* through sleep and the backing store.                                    *)
(***************************************************************************)
EXTENDS Interpreter, SequenceTheorems, FiniteSums

(* What a program of n instructions is made of: its variables are v0 to    *)
(* v(n - 1).                                                               *)
Index(n) == 0 .. n - 1

Operands(n) == [var : Index(n)] \cup [num : Nat]

Texts(n) ==
  [cmd : {"DECLARE"}, var : Index(n), num : Nat]
    \cup [cmd : {"ADD", "SUBTRACT"}, var : Index(n), left : Operands(n),
          right : Operands(n)]
    \cup [cmd : {"PRINT"}, var : Index(n)]
    \cup [cmd : {"SLEEP"}, num : Nat]
    \cup {[cmd |-> "FOR"]}

LEMMA Constants ==
  /\ ValueMax \in Nat \ {0}
  /\ InitialCapacity \in Nat \ {0} /\ MaxCapacity \in Nat \ {0}
  /\ LogCapacity \in Nat \ {0} /\ DeadlineWrap \in Nat \ {0}
  /\ LastTick \in Nat
BY InstructionsAssumption, InterpreterAssumption
DEF InstructionsAssumption, InterpreterAssumption

LEMMA GeneratedTexts ==
  ASSUME NEW n \in Nat, NEW i \in Index(n), NEW text \in generate_dummy_process(i)
  PROVE  text \in Texts(n)
<1> DEFINE earlier == IF i > 0 THEN 0 .. i - 1 ELSE {0}
<1>1. i \in Index(n) /\ earlier \subseteq Index(n)
  BY DEF Index
<1>2. Literals \subseteq Nat /\ SleepTimes \subseteq Nat
  BY InstructionsAssumption DEF InstructionsAssumption
<1>3. /\ Variables(earlier) \subseteq Operands(n)
      /\ Numbers \subseteq Operands(n)
  <2> HIDE DEF earlier
  <2> QED
    BY <1>1, <1>2 DEF Variables, Numbers, Operands
<1>4. (IF i > 0 THEN Variables(earlier) \cup Numbers ELSE Numbers)
        \subseteq Operands(n)
  BY <1>3
<1>5. \/ text \in Declares(i)
      \/ text \in [cmd : {"ADD", "SUBTRACT"}, var : {i}, left : Variables(earlier),
                   right : IF i > 0 THEN Variables(earlier) \cup Numbers ELSE Numbers]
      \/ text \in [cmd : {"PRINT"}, var : earlier]
      \/ text \in Sleeps
      \/ text = [cmd |-> "FOR"]
  BY DEF generate_dummy_process
<1> HIDE DEF earlier
<1>6. CASE text \in Declares(i)
  BY <1>1, <1>2, <1>6 DEF Declares, Texts
<1>7. CASE text \in [cmd : {"ADD", "SUBTRACT"}, var : {i}, left : Variables(earlier),
                   right : IF i > 0 THEN Variables(earlier) \cup Numbers ELSE Numbers]
  BY <1>1, <1>3, <1>4, <1>7 DEF Texts
<1>8. CASE text \in [cmd : {"PRINT"}, var : earlier]
  BY <1>1, <1>8 DEF Texts
<1>9. CASE text \in Sleeps
  BY <1>2, <1>9 DEF Sleeps, Texts
<1>10. CASE text = [cmd |-> "FOR"]
  BY <1>10 DEF Texts
<1> QED
  BY <1>5, <1>6, <1>7, <1>8, <1>9, <1>10

LEMMA ScreenTexts ==
  ASSUME NEW n \in Nat, NEW i \in Index(n), NEW text \in screen_start(i)
  PROVE  text \in Texts(n)
<1> DEFINE declared == 0 .. ScreenDeclares - 1
<1>1. ScreenDeclares \in Nat \ {0} /\ Literals \subseteq Nat /\ SleepTimes \subseteq Nat
  BY InstructionsAssumption DEF InstructionsAssumption
<1>2. i \in Index(n) /\ (~(i < ScreenDeclares) => declared \subseteq Index(n))
  BY <1>1 DEF Index
<1>3. /\ ~(i < ScreenDeclares) => Variables(declared) \subseteq Operands(n)
      /\ Numbers \subseteq Operands(n)
  <2> HIDE DEF declared
  <2> QED
    BY <1>1, <1>2 DEF Variables, Numbers, Operands
<1>4. \/ text \in Declares(i)
      \/ /\ ~(i < ScreenDeclares)
         /\ \/ text \in [cmd : {"ADD", "SUBTRACT"}, var : {i},
                         left : Variables(declared), right : Numbers]
            \/ text \in [cmd : {"PRINT"}, var : declared]
            \/ text \in Sleeps
  <2>1. CASE i < ScreenDeclares
    BY <2>1 DEF screen_start
  <2>2. CASE ~(i < ScreenDeclares)
    BY <2>2 DEF screen_start
  <2> QED
    BY <2>1, <2>2
<1> HIDE DEF declared
<1>5. CASE text \in Declares(i)
  BY <1>1, <1>2, <1>5 DEF Declares, Texts
<1>6. CASE /\ ~(i < ScreenDeclares)
           /\ text \in [cmd : {"ADD", "SUBTRACT"}, var : {i},
                        left : Variables(declared), right : Numbers]
  BY <1>2, <1>3, <1>6 DEF Texts
<1>7. CASE ~(i < ScreenDeclares) /\ text \in [cmd : {"PRINT"}, var : declared]
  BY <1>2, <1>7 DEF Texts
<1>8. CASE text \in Sleeps
  BY <1>1, <1>8 DEF Sleeps, Texts
<1> QED
  BY <1>4, <1>5, <1>6, <1>7, <1>8

LEMMA ProgramTexts ==
  ASSUME NEW text \in GeneratedPrograms \cup ScreenPrograms
  PROVE  Len(text) \in Nat \ {0} /\ text \in [1 .. Len(text) -> Texts(Len(text))]
<1>1. Len(text) \in Nat \ {0}
  BY InterpreterAssumption DEF InterpreterAssumption
<1> DEFINE n == Len(text)
<1>2. ASSUME NEW i \in 1 .. n PROVE i - 1 \in Index(n)
  BY <1>1 DEF Index
<1>3. CASE text \in GeneratedPrograms
  <2>1. text \in ProgramsOf(generate_dummy_process, n)
    BY <1>3, InterpreterAssumption DEF InterpreterAssumption
  <2>2. /\ text \in [1 .. n -> UNION {generate_dummy_process(i - 1) : i \in 1 .. n}]
        /\ \A i \in 1 .. n : text[i] \in generate_dummy_process(i - 1)
    BY <2>1 DEF ProgramsOf
  <2>3. \A i \in 1 .. n : text[i] \in Texts(n)
    BY <1>1, <1>2, <2>2, GeneratedTexts
  <2> QED
    BY <1>1, <2>2, <2>3
<1>4. CASE text \in ScreenPrograms
  <2>1. text \in ProgramsOf(screen_start, n)
    BY <1>4, InterpreterAssumption DEF InterpreterAssumption
  <2>2. /\ text \in [1 .. n -> UNION {screen_start(i - 1) : i \in 1 .. n}]
        /\ \A i \in 1 .. n : text[i] \in screen_start(i - 1)
    BY <2>1 DEF ProgramsOf
  <2>3. \A i \in 1 .. n : text[i] \in Texts(n)
    BY <1>1, <1>2, <2>2, ScreenTexts
  <2> QED
    BY <1>1, <2>2, <2>3
<1> QED
  BY <1>3, <1>4

LEMMA Clamped ==
  ASSUME NEW x \in Int PROVE Clamp(x) \in 0 .. ValueMax
BY Constants DEF Clamp

(* What the parsers make of a text. *)
LEMMA ParsedDeclare ==
  ASSUME NEW n \in Nat, NEW text \in Texts(n), text.cmd = "DECLARE"
  PROVE  /\ parse(text).type = "DECLARE" /\ parse(text).arg1 = text.var
         /\ parse(text).value = Clamp(text.num)
         /\ text.var \in Index(n) /\ text.num \in Nat
<1>1. text.var \in Index(n) /\ text.num \in Nat
  BY DEF Texts
<1>2. parse(text) = parse_declare(text)
  BY DEF parse
<1> QED
  BY <1>1, <1>2 DEF parse_declare, Zeroed

LEMMA ParsedCompute ==
  ASSUME NEW n \in Nat, NEW text \in Texts(n), text.cmd \in {"ADD", "SUBTRACT"}
  PROVE  /\ parse(text).type = text.cmd /\ parse(text).arg1 = text.var
         /\ parse(text).arg2 = IF IsVariable(text.left) THEN text.left.var ELSE NoArg
         /\ parse(text).arg3 = IF IsVariable(text.right) THEN text.right.var ELSE NoArg
         /\ text.var \in Index(n)
         /\ text.left \in Operands(n) /\ text.right \in Operands(n)
<1>1. /\ text.var \in Index(n)
      /\ text.left \in Operands(n) /\ text.right \in Operands(n)
  BY DEF Texts
<1>2. parse(text) = parse_add_sub(text)
  BY DEF parse
<1> QED
  BY <1>1, <1>2 DEF parse_add_sub, Zeroed

LEMMA ParsedPrint ==
  ASSUME NEW n \in Nat, NEW text \in Texts(n), text.cmd = "PRINT"
  PROVE  /\ parse(text).type = "PRINT" /\ parse(text).arg1 = text.var
         /\ text.var \in Index(n)
BY DEF Texts, parse, parse_print, Zeroed

LEMMA ParsedSleep ==
  ASSUME NEW n \in Nat, NEW text \in Texts(n), text.cmd = "SLEEP"
  PROVE  parse(text).type = "SLEEP" /\ parse(text).value \in Nat
BY DEF Texts, parse, parse_sleep, Zeroed

LEMMA ParsedFor ==
  ASSUME NEW n \in Nat, NEW text \in Texts(n), text.cmd = "FOR"
  PROVE  parse(text).type = "FOR"
BY DEF parse, parse_for, Zeroed

LEMMA ParsedType ==
  ASSUME NEW n \in Nat, NEW text \in Texts(n)
  PROVE  /\ parse(text).type = text.cmd
         /\ text.cmd \in {"DECLARE", "ADD", "SUBTRACT", "PRINT", "SLEEP", "FOR"}
<1>1. text.cmd \in {"DECLARE", "ADD", "SUBTRACT", "PRINT", "SLEEP", "FOR"}
  BY DEF Texts
<1> QED
  BY <1>1, ParsedDeclare, ParsedCompute, ParsedPrint, ParsedSleep, ParsedFor

LEMMA OperandNames ==
  ASSUME NEW n \in Nat, NEW operand \in Operands(n)
  PROVE  IsVariable(operand) => operand.var \in Index(n)
BY DEF Operands, IsVariable

(***************************************************************************)
(* The variables of a struct.                                              *)
(***************************************************************************)
Entries == [name : Int, value : 0 .. ValueMax]

Structs ==
  [program_counter : Nat, state : {"READY", "RUNNING", "SLEEPING"},
   variables : Seq(Entries), variables_capacity : Nat \ {0}, array : Nat,
   logs : Seq(Entries), has_logs : BOOLEAN,
   sleep_until_tick : 0 .. DeadlineWrap - 1]

(* Each name is there once. *)
Once(q) ==
  \A i, j \in 1 .. Len(q.variables) :
    q.variables[i].name = q.variables[j].name => i = j

(* The inductive form of VariablesFit: it needs that the array is as long  *)
(* as the struct says, and that the names are those of the program.        *)
Fit(q, n) ==
  /\ Len(q.variables) <= q.variables_capacity
  /\ q.variables_capacity <= q.array
  /\ Once(q)
  /\ \A i \in 1 .. Len(q.variables) : q.variables[i].name \in Index(n)

(* Two structs that differ in nothing but their variables. *)
SameButVariables(q, r) ==
  /\ r.program_counter = q.program_counter /\ r.state = q.state
  /\ r.logs = q.logs /\ r.has_logs = q.has_logs
  /\ r.sleep_until_tick = q.sleep_until_tick

LEMMA Domains ==
  ASSUME NEW q \in Structs
  PROVE  DOMAIN q.variables = 1 .. Len(q.variables) /\ Len(q.variables) \in Nat
BY DEF Structs

LEMMA ValueThere ==
  ASSUME NEW q \in Structs, Once(q), NEW i \in 1 .. Len(q.variables),
         NEW fallback
  PROVE  /\ Has(q, q.variables[i].name)
         /\ ValueOf(q, q.variables[i].name, fallback) = q.variables[i].value
<1>1. DOMAIN q.variables = 1 .. Len(q.variables)
  BY Domains
<1>2. Has(q, q.variables[i].name)
  BY <1>1 DEF Has
<1> DEFINE j == CHOOSE j \in DOMAIN q.variables :
                  q.variables[j].name = q.variables[i].name
<1>3. j = i
  <2>1. /\ j \in DOMAIN q.variables
        /\ q.variables[j].name = q.variables[i].name
    BY <1>1
  <2> QED
    BY <1>1, <2>1 DEF Once
<1>4. ValueOf(q, q.variables[i].name, fallback) = q.variables[j].value
  BY <1>2 DEF ValueOf
<1> QED
  BY <1>2, <1>3, <1>4

LEMMA ValueNotThere ==
  ASSUME NEW q, NEW name, NEW fallback, ~Has(q, name)
  PROVE  ValueOf(q, name, fallback) = fallback
BY DEF ValueOf

LEMMA ValueTypes ==
  ASSUME NEW q \in Structs, Once(q), NEW name
  PROVE  ValueOf(q, name, 0) \in 0 .. ValueMax
<1>1. CASE ~Has(q, name)
  BY <1>1, ValueNotThere, Constants
<1>2. CASE Has(q, name)
  <2>1. PICK i \in 1 .. Len(q.variables) : q.variables[i].name = name
    BY <1>2, Domains DEF Has
  <2>2. q.variables[i] \in Entries
    BY DEF Structs
  <2> QED
    BY <2>1, <2>2, ValueThere DEF Entries
<1> QED
  BY <1>1, <1>2

(* A program of n instructions has no more than n variables. *)
LEMMA FewNames ==
  ASSUME NEW n \in Nat, NEW q \in Structs, Fit(q, n), NEW name \in Index(n),
         ~Has(q, name)
  PROVE  Len(q.variables) < n
<1> DEFINE len == Len(q.variables)
           others == Index(n) \ {name}
           f == [i \in 1 .. len |-> q.variables[i].name]
<1>1. len \in Nat /\ DOMAIN q.variables = 1 .. len
  BY Domains
<1>2. f \in Injection(1 .. len, others)
  <2>1. \A i \in 1 .. len : q.variables[i].name \in others
    BY <1>1 DEF Fit, Has
  <2>2. f \in [1 .. len -> others]
    BY <2>1
  <2>3. \A i, j \in 1 .. len : f[i] = f[j] => i = j
    BY DEF Fit, Once
  <2> HIDE DEF f, others, len
  <2> QED
    BY <2>2, <2>3 DEF Injection, IsInjective
<1>3. IsFiniteSet(1 .. len) /\ Cardinality(1 .. len) = len
  BY <1>1, FS_Interval
<1>4. n \in Nat \ {0}
  BY DEF Index
<1>5. IsFiniteSet(Index(n)) /\ Cardinality(Index(n)) = n
  <2>1. \A b \in Nat : IsFiniteSet(0 .. b) /\ Cardinality(0 .. b) = b + 1
    BY FS_Interval
  <2>2. n - 1 \in Nat /\ (n - 1) + 1 = n
    BY <1>4
  <2>3. IsFiniteSet(0 .. n - 1) /\ Cardinality(0 .. n - 1) = n
    BY <2>1, <2>2
  <2> QED
    BY <2>3 DEF Index
<1>6. IsFiniteSet(others) /\ Cardinality(others) = n - 1
  BY <1>5, FS_RemoveElement
<1>7. Cardinality(1 .. len) <= Cardinality(others)
  <2> HIDE DEF f, others, len
  <2> QED
    BY <1>2, <1>3, <1>6, FS_Injection
<1> HIDE DEF f, others, len
<1> QED
  BY <1>1, <1>3, <1>4, <1>6, <1>7 DEF len

(* The struct with one variable more. *)
LEMMA Added ==
  ASSUME NEW n \in Nat, NEW q \in Structs, Fit(q, n), NEW name \in Index(n),
         ~Has(q, name), NEW r \in Structs,
         r.variables = Append(q.variables, [name |-> name, value |-> 0]),
         Len(q.variables) < r.variables_capacity,
         r.variables_capacity <= r.array
  PROVE  /\ Fit(r, n) /\ Has(r, name)
         /\ \A m : ValueOf(r, m, 0) = ValueOf(q, m, 0)
<1> DEFINE len == Len(q.variables)
<1>1. len \in Nat /\ DOMAIN q.variables = 1 .. len /\ q.variables \in Seq(Entries)
  BY Domains DEF Structs
<1>2. [name |-> name, value |-> 0] \in Entries
  BY Constants DEF Entries, Index
<1>3. /\ Len(r.variables) = len + 1
      /\ \A i \in 1 .. len : r.variables[i] = q.variables[i]
      /\ r.variables[len + 1] = [name |-> name, value |-> 0]
  BY <1>1, <1>2, AppendProperties
<1>4. DOMAIN r.variables = 1 .. len + 1
  BY <1>3, Domains
<1>5. \A i \in 1 .. len : q.variables[i].name # name
  BY <1>1 DEF Has
<1>6. Once(r)
  <2> SUFFICES ASSUME NEW i \in 1 .. len + 1, NEW j \in 1 .. len + 1,
                      r.variables[i].name = r.variables[j].name
               PROVE  i = j
    BY <1>3 DEF Once
  <2>1. \A k, l \in 1 .. len :
          q.variables[k].name = q.variables[l].name => k = l
    BY DEF Fit, Once
  <2>2. \A k \in 1 .. len + 1 : k \in 1 .. len \/ k = len + 1
    BY <1>1
  <2> HIDE DEF len
  <2>3. r.variables[len + 1].name = name
    BY <1>3
  <2> QED
    BY <1>3, <1>5, <2>1, <2>2, <2>3
<1>7. Fit(r, n)
  <2>1. Len(r.variables) <= r.variables_capacity
    BY <1>1, <1>3 DEF Structs
  <2>2. \A i \in 1 .. Len(r.variables) : r.variables[i].name \in Index(n)
    BY <1>1, <1>3 DEF Fit
  <2> QED
    BY <1>6, <2>1, <2>2 DEF Fit
<1>8. Has(r, name) /\ ValueOf(r, name, 0) = 0
  <2>1. len + 1 \in 1 .. Len(r.variables)
    BY <1>1, <1>3
  <2>2. r.variables[len + 1].name = name /\ r.variables[len + 1].value = 0
    BY <1>3
  <2> HIDE DEF len
  <2> QED
    BY <1>6, <2>1, <2>2, ValueThere
<1>9. ASSUME NEW m PROVE ValueOf(r, m, 0) = ValueOf(q, m, 0)
  <2>1. CASE Has(q, m)
    <3>1. PICK i \in 1 .. len : q.variables[i].name = m
      BY <1>1, <2>1 DEF Has
    <3>2. i \in 1 .. Len(r.variables) /\ r.variables[i] = q.variables[i]
      BY <1>1, <1>3
    <3>3. ValueOf(q, m, 0) = q.variables[i].value
      BY <3>1, ValueThere DEF Fit
    <3>4. ValueOf(r, m, 0) = r.variables[i].value
      BY <1>6, <3>1, <3>2, ValueThere
    <3> QED
      BY <3>2, <3>3, <3>4
  <2>2. CASE ~Has(q, m) /\ m # name
    <3>1. ~Has(r, m)
      BY <1>1, <1>3, <1>4, <2>2 DEF Has
    <3> QED
      BY <2>2, <3>1, ValueNotThere
  <2>3. CASE m = name
    BY <1>8, <2>3, ValueNotThere
  <2> QED
    BY <2>1, <2>2, <2>3
<1> QED
  BY <1>7, <1>8, <1>9

(* get_variable keeps every value, and finds room when the program is not  *)
(* longer than the array can grow.                                         *)
LEMMA GetVariable ==
  ASSUME NEW n \in Nat, NEW q \in Structs, Fit(q, n), NEW name \in Index(n)
  PROVE  LET r == get_variable(q, name)
         IN  /\ r \in Structs /\ Fit(r, n) /\ SameButVariables(q, r)
             /\ \A m : ValueOf(r, m, 0) = ValueOf(q, m, 0)
             /\ n <= MaxCapacity => Has(r, name)
<1> DEFINE r == get_variable(q, name)
           full == Len(q.variables) >= q.variables_capacity
           room == IF full THEN Grown(q) ELSE q
           entry == [name |-> name, value |-> 0]
<1>1. CASE Has(q, name)
  <2>1. r = q
    BY <1>1 DEF get_variable
  <2> QED
    BY <1>1, <2>1 DEF SameButVariables
<1>2. CASE ~Has(q, name) /\ full /\ q.variables_capacity >= MaxCapacity
  <2>1. r = q
    BY <1>2 DEF get_variable, NumVar
  <2>2. Len(q.variables) < n
    BY <1>2, FewNames
  <2>3. q.variables_capacity \in Nat /\ Len(q.variables) \in Nat
    BY Domains DEF Structs
  <2>4. ~(n <= MaxCapacity)
    BY <1>2, <2>2, <2>3, Constants
  <2> QED
    BY <2>1, <2>4 DEF SameButVariables
<1>3. CASE ~Has(q, name) /\ ~(full /\ q.variables_capacity >= MaxCapacity)
  <2>1. r = [room EXCEPT !.variables = Append(@, entry)]
    BY <1>3 DEF get_variable, NumVar
  <2>2. entry \in Entries
    BY Constants DEF Entries, Index
  <2>3. /\ q.variables \in Seq(Entries) /\ Len(q.variables) \in Nat
        /\ q.variables_capacity \in Nat \ {0} /\ q.array \in Nat
    BY Domains DEF Structs
  <2>4. /\ room \in Structs
        /\ room.variables = q.variables
        /\ SameButVariables(q, room)
        /\ Len(q.variables) < room.variables_capacity
        /\ room.variables_capacity <= room.array
    <3>1. CASE full
      <4>1. room = Grown(q)
        BY <3>1
      <4>2. /\ room.variables_capacity = 2 * q.variables_capacity
            /\ room.array = 2 * q.variables_capacity
            /\ room.variables = q.variables
            /\ SameButVariables(q, room)
        BY <4>1 DEF Grown, Structs, SameButVariables
      <4>3. room \in Structs
        <5>1. /\ 2 * q.variables_capacity \in Nat \ {0}
              /\ 2 * q.variables_capacity \in Nat
          BY <2>3
        <5> HIDE DEF room
        <5> QED
          BY <5>1, <4>1 DEF Grown, Structs
      <4>4. Len(q.variables) <= q.variables_capacity
        BY DEF Fit
      <4> HIDE DEF room
      <4> QED
        BY <2>3, <4>2, <4>3, <4>4
    <3>2. CASE ~full
      BY <2>3, <3>2 DEF SameButVariables, Fit
    <3> QED
      BY <3>1, <3>2
  <2> HIDE DEF room, entry
  <2>5. Append(q.variables, entry) \in Seq(Entries)
    BY <2>2, <2>3, AppendProperties
  <2>6. r \in Structs
    BY <2>1, <2>4, <2>5 DEF Structs
  <2>7. /\ r.variables = Append(q.variables, entry)
        /\ r.variables_capacity = room.variables_capacity
        /\ r.array = room.array
        /\ SameButVariables(q, r)
    BY <2>1, <2>4 DEF Structs, SameButVariables
  <2> HIDE DEF r
  <2>8. /\ Fit(r, n) /\ Has(r, name)
        /\ \A m : ValueOf(r, m, 0) = ValueOf(q, m, 0)
    BY <1>3, <2>4, <2>6, <2>7, Added DEF entry
  <2> QED
    BY <2>6, <2>7, <2>8 DEF r
<1> QED
  BY <1>1, <1>2, <1>3

(* The write through the pointer. *)
LEMMA Overwritten ==
  ASSUME NEW n \in Nat, NEW q \in Structs, Fit(q, n), NEW name,
         NEW value \in 0 .. ValueMax, NEW r,
         r = [q EXCEPT !.variables =
                [i \in DOMAIN @ |-> IF @[i].name = name
                                    THEN [@[i] EXCEPT !.value = value] ELSE @[i]]]
  PROVE  /\ r \in Structs /\ Fit(r, n) /\ SameButVariables(q, r)
         /\ \A m : ValueOf(r, m, 0) =
                     IF m = name /\ Has(q, name) THEN value ELSE ValueOf(q, m, 0)
<1> DEFINE len == Len(q.variables)
           new == [i \in 1 .. len |-> IF q.variables[i].name = name
                                      THEN [q.variables[i] EXCEPT !.value = value]
                                      ELSE q.variables[i]]
<1>1. /\ len \in Nat /\ DOMAIN q.variables = 1 .. len
      /\ \A i \in 1 .. len : q.variables[i] \in Entries
  BY Domains DEF Structs
<1>2. r = [q EXCEPT !.variables = new]
  BY <1>1
<1>3. \A i \in 1 .. len :
        /\ new[i] \in Entries /\ new[i].name = q.variables[i].name
        /\ new[i].value = IF q.variables[i].name = name THEN value
                                                        ELSE q.variables[i].value
  BY <1>1 DEF Entries
<1>4. new \in Seq(Entries) /\ Len(new) = len
  <2>1. new \in [1 .. len -> Entries]
    BY <1>3
  <2> HIDE DEF new, len
  <2> QED
    BY <1>1, <2>1
<1> HIDE DEF new
<1>5. r \in Structs /\ r.variables = new
  BY <1>2, <1>4 DEF Structs
<1>6. SameButVariables(q, r) /\ r.variables_capacity = q.variables_capacity
      /\ r.array = q.array
  BY <1>2 DEF Structs, SameButVariables
<1> HIDE DEF len
<1>7. Once(r)
  <2>1. \A i, j \in 1 .. len : q.variables[i].name = q.variables[j].name => i = j
    BY DEF Fit, Once, len
  <2> QED
    BY <1>3, <1>4, <1>5, <2>1 DEF Once
<1>8. Fit(r, n)
  <2>1. \A i \in 1 .. len : q.variables[i].name \in Index(n)
    BY DEF Fit, len
  <2>2. len <= q.variables_capacity /\ q.variables_capacity <= q.array
    BY DEF Fit, len
  <2> QED
    BY <1>3, <1>4, <1>5, <1>6, <1>7, <2>1, <2>2 DEF Fit
<1>9. ASSUME NEW m
      PROVE  ValueOf(r, m, 0) =
               IF m = name /\ Has(q, name) THEN value ELSE ValueOf(q, m, 0)
  <2>1. CASE Has(q, m)
    <3>1. PICK i \in 1 .. len : q.variables[i].name = m
      BY <1>1, <2>1 DEF Has
    <3>2. ValueOf(q, m, 0) = q.variables[i].value
      BY <3>1, ValueThere DEF Fit, len
    <3>3. i \in 1 .. Len(r.variables) /\ r.variables[i] = new[i]
      BY <1>4, <1>5
    <3>4. r.variables[i].name = m
      BY <1>3, <3>1, <3>3
    <3>5. ValueOf(r, m, 0) = new[i].value
      BY <1>5, <1>7, <3>3, <3>4, ValueThere
    <3> HIDE DEF len
    <3> QED
      BY <1>3, <2>1, <3>1, <3>2, <3>5
  <2>2. CASE ~Has(q, m)
    <3>1. ~Has(r, m)
      <4>1. DOMAIN r.variables = 1 .. len
        BY <1>4, <1>5, Domains
      <4>2. \A i \in 1 .. len : r.variables[i].name # m
        <5>1. \A i \in 1 .. len : q.variables[i].name # m
          BY <1>1, <2>2 DEF Has
        <5> QED
          BY <1>3, <1>5, <5>1
      <4> QED
        BY <4>1, <4>2 DEF Has
    <3> QED
      BY <2>2, <3>1, ValueNotThere
  <2> QED
    BY <2>1, <2>2
<1> QED
  BY <1>5, <1>6, <1>8, <1>9

LEMMA AssignedValue ==
  ASSUME NEW n \in Nat, NEW q \in Structs, Fit(q, n), NEW name \in Index(n),
         NEW value \in 0 .. ValueMax
  PROVE  LET r == Assigned(q, name, value)
         IN  /\ r \in Structs /\ Fit(r, n) /\ SameButVariables(q, r)
             /\ n <= MaxCapacity =>
                  \A m : ValueOf(r, m, 0) = IF m = name THEN value ELSE ValueOf(q, m, 0)
<1> DEFINE there == get_variable(q, name)
           r == Assigned(q, name, value)
<1>1. /\ there \in Structs /\ Fit(there, n) /\ SameButVariables(q, there)
      /\ \A m : ValueOf(there, m, 0) = ValueOf(q, m, 0)
      /\ n <= MaxCapacity => Has(there, name)
  BY GetVariable
<1>2. r = [there EXCEPT !.variables =
             [i \in DOMAIN @ |-> IF @[i].name = name
                                 THEN [@[i] EXCEPT !.value = value] ELSE @[i]]]
  BY DEF Assigned
<1> HIDE DEF there, r
<1>3. /\ r \in Structs /\ Fit(r, n) /\ SameButVariables(there, r)
      /\ \A m : ValueOf(r, m, 0) =
                  IF m = name /\ Has(there, name) THEN value ELSE ValueOf(there, m, 0)
  BY <1>1, <1>2, Overwritten
<1>4. SameButVariables(q, r)
  BY <1>1, <1>3 DEF SameButVariables
<1> QED
  BY <1>1, <1>3, <1>4 DEF r

(* What an argument of ADD and SUBTRACT stands for. *)
ArgValue(q, arg) == IF arg = NoArg THEN 0 ELSE ValueOf(q, arg, 0)

LEMMA ResolvedValue ==
  ASSUME NEW n \in Nat, NEW q \in Structs, Fit(q, n), NEW arg,
         arg # NoArg => arg \in Index(n)
  PROVE  /\ LET r == Resolved(q, arg)
            IN  /\ r \in Structs /\ Fit(r, n) /\ SameButVariables(q, r)
                /\ \A m : ValueOf(r, m, 0) = ValueOf(q, m, 0)
         /\ resolve_value(q, arg, 0) = ArgValue(q, arg)
         /\ ArgValue(q, arg) \in 0 .. ValueMax
<1>1. CASE arg = NoArg
  <2>1. Resolved(q, arg) = q /\ resolve_value(q, arg, 0) = 0 /\ ArgValue(q, arg) = 0
    BY <1>1 DEF Resolved, resolve_value, ArgValue
  <2> QED
    BY <2>1, Constants DEF SameButVariables
<1>2. CASE arg # NoArg
  <2>1. Resolved(q, arg) = get_variable(q, arg)
    BY <1>2 DEF Resolved
  <2>2. resolve_value(q, arg, 0) = ValueOf(Resolved(q, arg), arg, 0)
    BY <1>2 DEF resolve_value
  <2>3. ArgValue(q, arg) = ValueOf(q, arg, 0)
    BY <1>2 DEF ArgValue
  <2>4. Once(q)
    BY DEF Fit
  <2> QED
    BY <1>2, <2>1, <2>2, <2>3, <2>4, GetVariable, ValueTypes
<1> QED
  BY <1>1, <1>2

LEMMA ComputedValue ==
  ASSUME NEW n \in Nat, NEW q \in Structs, Fit(q, n), NEW inst,
         inst.arg1 \in Index(n),
         inst.arg2 # NoArg => inst.arg2 \in Index(n),
         inst.arg3 # NoArg => inst.arg3 \in Index(n)
  PROVE  LET r == Computed(q, inst)
             v2 == ArgValue(q, inst.arg2)
             v3 == ArgValue(q, inst.arg3)
         IN  /\ r \in Structs /\ Fit(r, n) /\ SameButVariables(q, r)
             /\ n <= MaxCapacity =>
                  \A m : ValueOf(r, m, 0) =
                           IF m = inst.arg1
                           THEN Clamp(IF inst.type = "ADD" THEN v2 + v3 ELSE v2 - v3)
                           ELSE ValueOf(q, m, 0)
<1> DEFINE q2 == Resolved(q, inst.arg2)
           q3 == Resolved(q2, inst.arg3)
           v2 == ArgValue(q, inst.arg2)
           v3 == ArgValue(q, inst.arg3)
           sum == Clamp(IF inst.type = "ADD" THEN v2 + v3 ELSE v2 - v3)
           r == Computed(q, inst)
<1>1. /\ q2 \in Structs /\ Fit(q2, n) /\ SameButVariables(q, q2)
      /\ \A m : ValueOf(q2, m, 0) = ValueOf(q, m, 0)
      /\ resolve_value(q, inst.arg2, 0) = v2
      /\ v2 \in 0 .. ValueMax
  BY ResolvedValue
<1>2. ArgValue(q2, inst.arg3) = v3 /\ v3 \in 0 .. ValueMax
  <2>1. ArgValue(q2, inst.arg3) = v3
    <3> HIDE DEF q2
    <3> QED
      BY <1>1 DEF ArgValue
  <2>2. v3 \in 0 .. ValueMax
    BY ResolvedValue
  <2> QED
    BY <2>1, <2>2
<1> HIDE DEF v2, v3
<1>3. /\ q3 \in Structs /\ Fit(q3, n) /\ SameButVariables(q2, q3)
      /\ \A m : ValueOf(q3, m, 0) = ValueOf(q2, m, 0)
      /\ resolve_value(q2, inst.arg3, 0) = v3
  <2> HIDE DEF q2
  <2> QED
    BY <1>1, <1>2, ResolvedValue
<1>4. sum \in 0 .. ValueMax
  <2>1. v2 \in Int /\ v3 \in Int
    BY <1>1, <1>2, Constants
  <2>2. (IF inst.type = "ADD" THEN v2 + v3 ELSE v2 - v3) \in Int
    BY <2>1
  <2> QED
    BY <2>2, Clamped
<1>5. r = Assigned(q3, inst.arg1, sum)
  BY <1>1, <1>3 DEF Computed
<1> HIDE DEF q2, q3, sum, r
<1>6. /\ r \in Structs /\ Fit(r, n) /\ SameButVariables(q3, r)
      /\ n <= MaxCapacity =>
           \A m : ValueOf(r, m, 0) = IF m = inst.arg1 THEN sum ELSE ValueOf(q3, m, 0)
  BY <1>3, <1>4, <1>5, AssignedValue
<1>7. SameButVariables(q, r)
  BY <1>1, <1>3, <1>6 DEF SameButVariables
<1>8. n <= MaxCapacity =>
        \A m : ValueOf(r, m, 0) = IF m = inst.arg1 THEN sum ELSE ValueOf(q, m, 0)
  BY <1>1, <1>3, <1>6
<1> QED
  BY <1>6, <1>7, <1>8 DEF r, sum, v2, v3

LEMMA LoggedValue ==
  ASSUME NEW n \in Nat, NEW q \in Structs, Fit(q, n), NEW name \in Index(n)
  PROVE  LET r == Logged(q, name)
             kept == IF Len(q.logs) >= LogCapacity THEN <<>> ELSE q.logs
         IN  /\ r \in Structs /\ Fit(r, n)
             /\ r.program_counter = q.program_counter /\ r.state = q.state
             /\ r.has_logs = q.has_logs /\ r.sleep_until_tick = q.sleep_until_tick
             /\ \A m : ValueOf(r, m, 0) = ValueOf(q, m, 0)
             /\ r.logs = Append(kept, [name |-> name, value |-> ValueOf(q, name, 0)])
<1> DEFINE there == get_variable(q, name)
           kept == IF Len(q.logs) >= LogCapacity THEN <<>> ELSE q.logs
           entry == [name |-> name, value |-> ValueOf(there, name, 0)]
           r == Logged(q, name)
<1>1. /\ there \in Structs /\ Fit(there, n) /\ SameButVariables(q, there)
      /\ \A m : ValueOf(there, m, 0) = ValueOf(q, m, 0)
  BY GetVariable
<1>2. r = [there EXCEPT !.logs = Append(kept, entry)]
  BY DEF Logged
<1>3. entry \in Entries
  <2>1. Once(q) /\ ValueOf(q, name, 0) \in 0 .. ValueMax
    BY ValueTypes DEF Fit
  <2> HIDE DEF there
  <2> QED
    BY <1>1, <2>1 DEF Entries, Index
<1>4. kept \in Seq(Entries)
  BY DEF Structs
<1> HIDE DEF there, kept, entry
<1>5. Append(kept, entry) \in Seq(Entries)
  BY <1>3, <1>4, AppendProperties
<1>6. /\ r \in Structs
      /\ SameButVariables([q EXCEPT !.logs = Append(kept, entry)], r)
      /\ r.variables = there.variables
      /\ r.variables_capacity = there.variables_capacity /\ r.array = there.array
      /\ r.logs = Append(kept, entry)
  BY <1>1, <1>2, <1>5 DEF Structs, SameButVariables
<1> HIDE DEF r
<1>7. Fit(r, n)
  BY <1>1, <1>6 DEF Fit, Once
<1>8. \A m : ValueOf(r, m, 0) = ValueOf(there, m, 0)
  BY <1>6 DEF ValueOf, Has
<1>9. entry = [name |-> name, value |-> ValueOf(q, name, 0)]
  BY <1>1 DEF entry
<1>10. /\ r.program_counter = q.program_counter /\ r.state = q.state
       /\ r.has_logs = q.has_logs /\ r.sleep_until_tick = q.sleep_until_tick
  BY <1>6 DEF Structs, SameButVariables
<1> QED
  BY <1>1, <1>6, <1>7, <1>8, <1>9, <1>10 DEF r, kept

(***************************************************************************)
(* The inductive invariant behind TypeOK, VariablesFit and SleepLasts.     *)
(* Between the two writes of a SLEEP the program counter is still at it,   *)
(* and who does not sleep there was woken, or queued before; afterwards a  *)
(* sleeper's deadline is the one it asked for, if that fits.  A sleeper    *)
(* that is queued was queued before it slept, and so whoever is dispatched *)
(* from there has either slept its time or raced.                          *)
(***************************************************************************)
Typed ==
  /\ program \in GeneratedPrograms \cup ScreenPrograms
  /\ p \in Structs /\ Fit(p, num_inst)
  /\ p.program_counter <= num_inst + 1
  /\ CPU_TICKS \in 0 .. LastTick
  /\ step \in {"look", "fetch", "deadline"}
  /\ on_core \in BOOLEAN
  /\ ticks_ran_in_quantum \in Nat
  /\ due \in Nat
  /\ raced \in BOOLEAN /\ fault \in BOOLEAN

InTheMiddle ==
  step = "deadline" =>
    /\ p.program_counter < num_inst /\ Instruction.type = "SLEEP"
    /\ p.state # "SLEEPING" => raced

QueuedSleeper == p.state = "SLEEPING" /\ ~on_core => raced

DeadlineKept ==
  step # "deadline" /\ p.state = "SLEEPING" /\ due < DeadlineWrap
    => p.sleep_until_tick = due

HasSlept ==
  p.state # "SLEEPING" /\ CPU_TICKS < due => raced \/ due >= DeadlineWrap

SleepsRight == InTheMiddle /\ QueuedSleeper /\ DeadlineKept /\ HasSlept

Sound == Typed /\ SleepsRight

LEMMA InitSound == Init => Sound
<1> SUFFICES ASSUME Init PROVE Sound
  OBVIOUS
<1>1. PICK capacity \in Nat \ {0} : p = NewProcess(capacity)
  <2>1. CASE program \in GeneratedPrograms /\ p = NewProcess(InitialCapacity)
    BY <2>1, Constants
  <2>2. CASE program \in ScreenPrograms /\ p = NewProcess(Len(program))
    BY <2>2, ProgramTexts
  <2> QED
    BY <2>1, <2>2 DEF Init
<1>2. /\ program \in GeneratedPrograms \cup ScreenPrograms
      /\ Len(program) \in Nat \ {0}
  BY ProgramTexts DEF Init
<1>3. p \in Structs
  BY <1>1, Constants DEF NewProcess, Structs
<1>4. Fit(p, num_inst)
  BY <1>1 DEF NewProcess, Fit, Once
<1>5. Typed
  <2>1. p.program_counter = 0
    BY <1>1 DEF NewProcess
  <2>2. p.program_counter <= num_inst + 1
    BY <1>2, <2>1 DEF num_inst
  <2>3. CPU_TICKS \in 0 .. LastTick
    BY Constants DEF Init
  <2>4. /\ step \in {"look", "fetch", "deadline"} /\ on_core \in BOOLEAN
        /\ ticks_ran_in_quantum \in Nat /\ due \in Nat
        /\ raced \in BOOLEAN /\ fault \in BOOLEAN
    BY DEF Init
  <2> QED
    BY <1>2, <1>3, <1>4, <2>2, <2>3, <2>4 DEF Typed
<1>6. SleepsRight
  <2>1. p.state = "RUNNING"
    BY <1>1 DEF NewProcess
  <2>2. step = "look" /\ CPU_TICKS = 0 /\ due = 0
    BY DEF Init
  <2> QED
    BY <2>1, <2>2
    DEF SleepsRight, InTheMiddle, QueuedSleeper, DeadlineKept, HasSlept
<1> QED
  BY <1>5, <1>6 DEF Sound

LEMMA Length ==
  ASSUME Typed PROVE num_inst \in Nat \ {0} /\ p.program_counter \in Nat
BY ProgramTexts DEF Typed, num_inst, Structs

LEMMA CurrentText ==
  ASSUME Typed, p.program_counter < num_inst
  PROVE  /\ program[p.program_counter + 1] \in Texts(num_inst)
         /\ Instruction.type = program[p.program_counter + 1].cmd
<1>1. p.program_counter \in Nat /\ num_inst \in Nat
  BY Length
<1>2. p.program_counter + 1 \in 1 .. num_inst
  BY <1>1
<1>3. program \in [1 .. num_inst -> Texts(num_inst)]
  BY ProgramTexts DEF Typed, num_inst
<1> QED
  BY <1>1, <1>2, <1>3, ParsedType DEF Instruction

(* After an instruction that leaves the fields of the scheduler alone. *)
LEMMA AfterInstruction ==
  ASSUME Sound, step = "fetch", step' = "look",
         UNCHANGED <<program, CPU_TICKS, on_core, due, raced, fault>>,
         ticks_ran_in_quantum' = ticks_ran_in_quantum + 1,
         p' \in Structs, Fit(p', num_inst), p'.program_counter <= num_inst + 1,
         p'.state = p.state, p'.sleep_until_tick = p.sleep_until_tick
  PROVE  Sound'
<1>1. Typed'
  BY DEF Sound, Typed, num_inst
<1>2. SleepsRight'
  BY DEF Sound, SleepsRight, InTheMiddle, QueuedSleeper, DeadlineKept, HasSlept
<1> QED
  BY <1>1, <1>2 DEF Sound

LEMMA AdvancedStruct ==
  ASSUME NEW n \in Nat, NEW q \in Structs, Fit(q, n)
  PROVE  LET r == Advanced(q)
         IN  /\ r \in Structs /\ Fit(r, n)
             /\ r.program_counter = q.program_counter + 1 /\ r.state = q.state
             /\ r.has_logs = q.has_logs /\ r.logs = q.logs
             /\ r.variables = q.variables
             /\ r.sleep_until_tick = q.sleep_until_tick
             /\ \A m : ValueOf(r, m, 0) = ValueOf(q, m, 0)
<1> DEFINE r == Advanced(q)
<1>1. q.program_counter + 1 \in Nat
  BY DEF Structs
<1>2. r = [q EXCEPT !.program_counter = q.program_counter + 1]
  BY DEF Advanced
<1> HIDE DEF r
<1>3. r \in Structs
  BY <1>1, <1>2 DEF Structs
<1>4. /\ r.program_counter = q.program_counter + 1 /\ r.state = q.state
      /\ r.has_logs = q.has_logs /\ r.logs = q.logs
      /\ r.variables = q.variables /\ r.sleep_until_tick = q.sleep_until_tick
      /\ r.variables_capacity = q.variables_capacity /\ r.array = q.array
  BY <1>2 DEF Structs
<1>5. Fit(r, n)
  BY <1>4 DEF Fit, Once
<1>6. \A m : ValueOf(r, m, 0) = ValueOf(q, m, 0)
  BY <1>4 DEF ValueOf, Has
<1> QED
  BY <1>3, <1>4, <1>5, <1>6 DEF r

(* The text at the program counter. *)
Current == program[p.program_counter + 1]

(* What an instruction leaves alone, but for the log. *)
Executes(advance) ==
  /\ p' \in Structs /\ Fit(p', num_inst)
  /\ p'.program_counter = p.program_counter + advance
  /\ p'.state = p.state /\ p'.has_logs = p.has_logs
  /\ p'.sleep_until_tick = p.sleep_until_tick

LEMMA DeclareStep ==
  ASSUME Typed, Declare
  PROVE  /\ Executes(1) /\ p'.logs = p.logs
         /\ Current.cmd = "DECLARE" /\ Current.var \in Index(num_inst)
         /\ num_inst <= MaxCapacity =>
              \A m : ValueOf(p', m, 0) = IF m = Current.var THEN Clamp(Current.num)
                                         ELSE ValueOf(p, m, 0)
<1>1. /\ p.program_counter < num_inst /\ Instruction.type = "DECLARE"
      /\ p' = Advanced(Assigned(p, Instruction.arg1, Clamp(Instruction.value)))
  BY DEF Declare, Fetch, Leaves
<1>2. /\ Current \in Texts(num_inst) /\ Current.cmd = "DECLARE"
      /\ num_inst \in Nat
  BY <1>1, CurrentText, Length DEF Current
<1>3. /\ Instruction.arg1 = Current.var /\ Instruction.value = Clamp(Current.num)
      /\ Current.var \in Index(num_inst) /\ Current.num \in Nat
  BY <1>2, ParsedDeclare DEF Instruction, Current
<1>4. /\ Clamp(Instruction.value) = Clamp(Current.num)
      /\ Clamp(Current.num) \in 0 .. ValueMax
  BY <1>3, Clamped, Constants DEF Clamp
<1> DEFINE r == Assigned(p, Current.var, Clamp(Current.num))
<1>5. p \in Structs /\ Fit(p, num_inst)
  BY DEF Typed
<1>6. /\ r \in Structs /\ Fit(r, num_inst) /\ SameButVariables(p, r)
      /\ num_inst <= MaxCapacity =>
           \A m : ValueOf(r, m, 0) = IF m = Current.var THEN Clamp(Current.num)
                                     ELSE ValueOf(p, m, 0)
  BY <1>2, <1>3, <1>4, <1>5, AssignedValue
<1>7. p' = Advanced(r)
  BY <1>1, <1>3, <1>4
<1> HIDE DEF r
<1>8. /\ p' \in Structs /\ Fit(p', num_inst)
      /\ p'.program_counter = r.program_counter + 1 /\ p'.state = r.state
      /\ p'.has_logs = r.has_logs /\ p'.logs = r.logs
      /\ p'.sleep_until_tick = r.sleep_until_tick
      /\ \A m : ValueOf(p', m, 0) = ValueOf(r, m, 0)
  BY <1>2, <1>6, <1>7, AdvancedStruct
<1> QED
  BY <1>2, <1>3, <1>6, <1>8 DEF Executes, SameButVariables

(* The value of an operand of ADD and SUBTRACT in the struct. *)
Given(operand) == IF IsVariable(operand) THEN ValueOf(p, operand.var, 0) ELSE 0

LEMMA ComputeStep ==
  ASSUME Typed, Compute
  PROVE  /\ Executes(1) /\ p'.logs = p.logs
         /\ Current.cmd \in {"ADD", "SUBTRACT"} /\ Current.var \in Index(num_inst)
         /\ Current.left \in Operands(num_inst) /\ Current.right \in Operands(num_inst)
         /\ num_inst <= MaxCapacity =>
              \A m : ValueOf(p', m, 0) =
                       IF m = Current.var
                       THEN Clamp(IF Current.cmd = "ADD"
                                  THEN Given(Current.left) + Given(Current.right)
                                  ELSE Given(Current.left) - Given(Current.right))
                       ELSE ValueOf(p, m, 0)
<1>1. /\ p.program_counter < num_inst /\ Instruction.type \in {"ADD", "SUBTRACT"}
      /\ p' = Advanced(Computed(p, Instruction))
  BY DEF Compute, Fetch, Leaves
<1>2. /\ Current \in Texts(num_inst) /\ Current.cmd \in {"ADD", "SUBTRACT"}
      /\ num_inst \in Nat
  BY <1>1, CurrentText, Length DEF Current
<1>3. /\ Instruction.type = Current.cmd /\ Instruction.arg1 = Current.var
      /\ Instruction.arg2 = IF IsVariable(Current.left) THEN Current.left.var ELSE NoArg
      /\ Instruction.arg3 = IF IsVariable(Current.right) THEN Current.right.var ELSE NoArg
      /\ Current.var \in Index(num_inst)
      /\ Current.left \in Operands(num_inst) /\ Current.right \in Operands(num_inst)
  BY <1>2, ParsedCompute DEF Instruction, Current
<1>4. /\ IsVariable(Current.left) => Current.left.var \in Index(num_inst)
      /\ IsVariable(Current.right) => Current.right.var \in Index(num_inst)
  BY <1>2, <1>3, OperandNames
<1>5. \A name \in Index(num_inst) : name # NoArg
  BY <1>2 DEF Index, NoArg
<1>6. /\ ArgValue(p, Instruction.arg2) = Given(Current.left)
      /\ ArgValue(p, Instruction.arg3) = Given(Current.right)
  BY <1>3, <1>4, <1>5 DEF ArgValue, Given
<1> DEFINE r == Computed(p, Instruction)
<1>7. p \in Structs /\ Fit(p, num_inst)
  BY DEF Typed
<1>8. /\ Instruction.arg1 \in Index(num_inst)
      /\ Instruction.arg2 # NoArg => Instruction.arg2 \in Index(num_inst)
      /\ Instruction.arg3 # NoArg => Instruction.arg3 \in Index(num_inst)
  BY <1>3, <1>4
<1>9. /\ r \in Structs /\ Fit(r, num_inst) /\ SameButVariables(p, r)
      /\ num_inst <= MaxCapacity =>
           \A m : ValueOf(r, m, 0) =
                    IF m = Instruction.arg1
                    THEN Clamp(IF Instruction.type = "ADD"
                               THEN Given(Current.left) + Given(Current.right)
                               ELSE Given(Current.left) - Given(Current.right))
                    ELSE ValueOf(p, m, 0)
  BY <1>2, <1>6, <1>7, <1>8, ComputedValue
<1>10. p' = Advanced(r)
  BY <1>1
<1> HIDE DEF r
<1>11. /\ p' \in Structs /\ Fit(p', num_inst)
       /\ p'.program_counter = r.program_counter + 1 /\ p'.state = r.state
       /\ p'.has_logs = r.has_logs /\ p'.logs = r.logs
       /\ p'.sleep_until_tick = r.sleep_until_tick
       /\ \A m : ValueOf(p', m, 0) = ValueOf(r, m, 0)
  BY <1>2, <1>9, <1>10, AdvancedStruct
<1>12. Executes(1) /\ p'.logs = p.logs
  BY <1>9, <1>11 DEF Executes, SameButVariables
<1>13. num_inst <= MaxCapacity =>
         \A m : ValueOf(p', m, 0) =
                  IF m = Current.var
                  THEN Clamp(IF Current.cmd = "ADD"
                             THEN Given(Current.left) + Given(Current.right)
                             ELSE Given(Current.left) - Given(Current.right))
                  ELSE ValueOf(p, m, 0)
  BY <1>3, <1>9, <1>11
<1> QED
  BY <1>2, <1>3, <1>12, <1>13

LEMMA PrintStep ==
  ASSUME Typed, PrintVariable
  PROVE  LET kept == IF Len(p.logs) >= LogCapacity THEN <<>> ELSE p.logs
         IN  /\ Executes(1) /\ p.has_logs
             /\ Current.cmd = "PRINT" /\ Current.var \in Index(num_inst)
             /\ \A m : ValueOf(p', m, 0) = ValueOf(p, m, 0)
             /\ p'.logs = Append(kept, [name |-> Current.var,
                                        value |-> ValueOf(p, Current.var, 0)])
<1>1. /\ p.program_counter < num_inst /\ Instruction.type = "PRINT" /\ p.has_logs
      /\ p' = Advanced(Logged(p, Instruction.arg1))
  BY DEF PrintVariable, Fetch, Leaves
<1>2. /\ Current \in Texts(num_inst) /\ Current.cmd = "PRINT" /\ num_inst \in Nat
  BY <1>1, CurrentText, Length DEF Current
<1>3. Instruction.arg1 = Current.var /\ Current.var \in Index(num_inst)
  BY <1>2, ParsedPrint DEF Instruction, Current
<1> DEFINE r == Logged(p, Current.var)
           kept == IF Len(p.logs) >= LogCapacity THEN <<>> ELSE p.logs
<1>4. p \in Structs /\ Fit(p, num_inst)
  BY DEF Typed
<1>5. /\ r \in Structs /\ Fit(r, num_inst)
      /\ r.program_counter = p.program_counter /\ r.state = p.state
      /\ r.has_logs = p.has_logs /\ r.sleep_until_tick = p.sleep_until_tick
      /\ \A m : ValueOf(r, m, 0) = ValueOf(p, m, 0)
      /\ r.logs = Append(kept, [name |-> Current.var,
                                value |-> ValueOf(p, Current.var, 0)])
  BY <1>2, <1>3, <1>4, LoggedValue
<1>6. p' = Advanced(r)
  BY <1>1, <1>3
<1> HIDE DEF r, kept
<1>7. /\ p' \in Structs /\ Fit(p', num_inst)
      /\ p'.program_counter = r.program_counter + 1 /\ p'.state = r.state
      /\ p'.has_logs = r.has_logs /\ p'.logs = r.logs
      /\ p'.sleep_until_tick = r.sleep_until_tick
      /\ \A m : ValueOf(p', m, 0) = ValueOf(r, m, 0)
  BY <1>2, <1>5, <1>6, AdvancedStruct
<1>8. Executes(1)
  BY <1>5, <1>7 DEF Executes
<1> QED
  BY <1>1, <1>2, <1>3, <1>5, <1>7, <1>8 DEF kept

LEMMA ForStep ==
  ASSUME Typed, For
  PROVE  /\ Executes(2) /\ p'.logs = p.logs
         /\ Current.cmd = "FOR"
         /\ \A m : ValueOf(p', m, 0) = ValueOf(p, m, 0)
<1>1. /\ p.program_counter < num_inst /\ Instruction.type = "FOR"
      /\ p' = Advanced(Advanced(p))
  BY DEF For, Fetch, Leaves
<1>2. Current.cmd = "FOR" /\ num_inst \in Nat /\ p.program_counter \in Nat
  BY <1>1, CurrentText, Length DEF Current
<1> DEFINE r == Advanced(p)
<1>3. p \in Structs /\ Fit(p, num_inst)
  BY DEF Typed
<1>4. /\ r \in Structs /\ Fit(r, num_inst)
      /\ r.program_counter = p.program_counter + 1 /\ r.state = p.state
      /\ r.has_logs = p.has_logs /\ r.logs = p.logs
      /\ r.sleep_until_tick = p.sleep_until_tick
      /\ \A m : ValueOf(r, m, 0) = ValueOf(p, m, 0)
  BY <1>2, <1>3, AdvancedStruct
<1>5. p' = Advanced(r)
  BY <1>1
<1> HIDE DEF r
<1>6. /\ p' \in Structs /\ Fit(p', num_inst)
      /\ p'.program_counter = r.program_counter + 1 /\ p'.state = r.state
      /\ p'.has_logs = r.has_logs /\ p'.logs = r.logs
      /\ p'.sleep_until_tick = r.sleep_until_tick
      /\ \A m : ValueOf(p', m, 0) = ValueOf(r, m, 0)
  BY <1>2, <1>4, <1>5, AdvancedStruct
<1>7. Executes(2)
  BY <1>2, <1>4, <1>6 DEF Executes
<1> QED
  BY <1>2, <1>4, <1>6, <1>7

LEMMA SleepStep ==
  ASSUME Typed, Sleep
  PROVE  /\ p' = [p EXCEPT !.state = "SLEEPING"]
         /\ p.program_counter < num_inst /\ Instruction.type = "SLEEP"
         /\ Current.cmd = "SLEEP" /\ Instruction.value \in Nat
         /\ p' \in Structs /\ Fit(p', num_inst)
         /\ p'.program_counter = p.program_counter /\ p'.state = "SLEEPING"
         /\ p'.has_logs = p.has_logs /\ p'.logs = p.logs
         /\ \A m : ValueOf(p', m, 0) = ValueOf(p, m, 0)
<1>1. /\ p.program_counter < num_inst /\ Instruction.type = "SLEEP"
      /\ p' = [p EXCEPT !.state = "SLEEPING"]
  BY DEF Sleep, Fetch
<1>2. /\ Current \in Texts(num_inst) /\ Current.cmd = "SLEEP" /\ num_inst \in Nat
  BY <1>1, CurrentText, Length DEF Current
<1>3. Instruction.value \in Nat
  BY <1>2, ParsedSleep DEF Instruction, Current
<1>4. p \in Structs /\ Fit(p, num_inst)
  BY DEF Typed
<1>5. /\ p' \in Structs
      /\ p'.program_counter = p.program_counter /\ p'.state = "SLEEPING"
      /\ p'.has_logs = p.has_logs /\ p'.logs = p.logs
      /\ p'.variables = p.variables
      /\ p'.variables_capacity = p.variables_capacity /\ p'.array = p.array
  BY <1>1, <1>4 DEF Structs
<1>6. Fit(p', num_inst)
  BY <1>4, <1>5 DEF Fit, Once
<1>7. \A m : ValueOf(p', m, 0) = ValueOf(p, m, 0)
  BY <1>5 DEF ValueOf, Has
<1> QED
  BY <1>1, <1>2, <1>3, <1>5, <1>6, <1>7

LEMMA SleepUntilStep ==
  ASSUME Typed, InTheMiddle, SleepUntil
  PROVE  /\ Current.cmd = "SLEEP" /\ Instruction.value \in Nat
         /\ p.program_counter < num_inst
         /\ p' \in Structs /\ Fit(p', num_inst)
         /\ p'.program_counter = p.program_counter + 1 /\ p'.state = p.state
         /\ p'.has_logs = p.has_logs /\ p'.logs = p.logs
         /\ p'.sleep_until_tick = Deadline
         /\ \A m : ValueOf(p', m, 0) = ValueOf(p, m, 0)
<1>1. /\ p.program_counter < num_inst /\ Instruction.type = "SLEEP"
      /\ p' = Advanced([p EXCEPT !.sleep_until_tick = Deadline])
  BY DEF SleepUntil, InTheMiddle, Leaves
<1>2. /\ Current \in Texts(num_inst) /\ Current.cmd = "SLEEP" /\ num_inst \in Nat
  BY <1>1, CurrentText, Length DEF Current
<1>3. Instruction.value \in Nat
  BY <1>2, ParsedSleep DEF Instruction, Current
<1>4. p \in Structs /\ Fit(p, num_inst) /\ CPU_TICKS \in Nat
  BY Constants DEF Typed
<1>5. Deadline \in 0 .. DeadlineWrap - 1
  <2>1. CPU_TICKS + Instruction.value \in Nat /\ DeadlineWrap \in Nat \ {0}
    BY <1>3, <1>4, Constants
  <2> QED
    BY <2>1 DEF Deadline
<1> DEFINE r == [p EXCEPT !.sleep_until_tick = Deadline]
<1>6. /\ r \in Structs
      /\ r.program_counter = p.program_counter /\ r.state = p.state
      /\ r.has_logs = p.has_logs /\ r.logs = p.logs
      /\ r.sleep_until_tick = Deadline
      /\ r.variables = p.variables
      /\ r.variables_capacity = p.variables_capacity /\ r.array = p.array
  BY <1>4, <1>5 DEF Structs
<1>7. p' = Advanced(r)
  BY <1>1
<1> HIDE DEF r
<1>8. Fit(r, num_inst)
  BY <1>4, <1>6 DEF Fit, Once
<1>9. \A m : ValueOf(r, m, 0) = ValueOf(p, m, 0)
  BY <1>6 DEF ValueOf, Has
<1>10. /\ p' \in Structs /\ Fit(p', num_inst)
       /\ p'.program_counter = r.program_counter + 1 /\ p'.state = r.state
       /\ p'.has_logs = r.has_logs /\ p'.logs = r.logs
       /\ p'.sleep_until_tick = r.sleep_until_tick
       /\ \A m : ValueOf(p', m, 0) = ValueOf(r, m, 0)
  BY <1>2, <1>6, <1>7, <1>8, AdvancedStruct
<1> QED
  BY <1>1, <1>2, <1>3, <1>6, <1>9, <1>10

(* A deadline that fits is stored as it is. *)
LEMMA DeadlineFits ==
  ASSUME NEW x \in Nat, x < DeadlineWrap PROVE x % DeadlineWrap = x
BY Constants

(* What the scheduler thread's writes of state leave alone. *)
LEMMA StateStep ==
  ASSUME Typed, NEW state \in {"READY", "RUNNING", "SLEEPING"},
         p' = [p EXCEPT !.state = state]
  PROVE  /\ p' \in Structs /\ Fit(p', num_inst)
         /\ p'.program_counter = p.program_counter /\ p'.state = state
         /\ p'.has_logs = p.has_logs /\ p'.logs = p.logs
         /\ p'.sleep_until_tick = p.sleep_until_tick
         /\ \A m : ValueOf(p', m, 0) = ValueOf(p, m, 0)
<1>1. p \in Structs /\ Fit(p, num_inst)
  BY DEF Typed
<1>2. /\ p' \in Structs
      /\ p'.program_counter = p.program_counter /\ p'.state = state
      /\ p'.has_logs = p.has_logs /\ p'.logs = p.logs
      /\ p'.sleep_until_tick = p.sleep_until_tick
      /\ p'.variables = p.variables
      /\ p'.variables_capacity = p.variables_capacity /\ p'.array = p.array
  BY <1>1 DEF Structs
<1> QED
  BY <1>1, <1>2 DEF Fit, Once, ValueOf, Has

LEMMA SwapStep ==
  ASSUME Typed, SwapOutAndIn
  PROVE  /\ p' \in Structs /\ Fit(p', num_inst)
         /\ p'.program_counter = p.program_counter /\ p'.state = p.state
         /\ p'.sleep_until_tick = p.sleep_until_tick
         /\ p'.has_logs = FALSE
         /\ \A m : ValueOf(p', m, 0) = ValueOf(p, m, 0)
<1>1. p \in Structs /\ Fit(p, num_inst) /\ p' = Restored(p)
  BY DEF Typed, SwapOutAndIn
<1>2. <<>> \in Seq(Entries) /\ p.variables_capacity \in Nat
  BY <1>1 DEF Structs
<1>3. /\ p' \in Structs
      /\ p'.program_counter = p.program_counter /\ p'.state = p.state
      /\ p'.has_logs = FALSE /\ p'.sleep_until_tick = p.sleep_until_tick
      /\ p'.variables = p.variables
      /\ p'.variables_capacity = p.variables_capacity
      /\ p'.array = p.variables_capacity
  BY <1>1, <1>2 DEF Restored, Structs
<1>4. Fit(p', num_inst)
  BY <1>1, <1>2, <1>3 DEF Fit, Once
<1>5. \A m : ValueOf(p', m, 0) = ValueOf(p, m, 0)
  BY <1>3 DEF ValueOf, Has
<1> QED
  BY <1>3, <1>4, <1>5

LEMMA NextSound == Sound /\ [Next]_vars => Sound'
<1> SUFFICES ASSUME Sound, [Next]_vars PROVE Sound'
  OBVIOUS
<1>1. Typed /\ InTheMiddle
  BY DEF Sound, SleepsRight
<1>2. num_inst \in Nat /\ p.program_counter \in Nat
  BY <1>1, Length
<1>3. CASE Declare
  <2>1. Executes(1) /\ p.program_counter < num_inst
    BY <1>1, <1>3, DeclareStep DEF Declare, Fetch
  <2>2. /\ step = "fetch" /\ step' = "look"
        /\ UNCHANGED <<program, CPU_TICKS, on_core, due, raced, fault>>
        /\ ticks_ran_in_quantum' = ticks_ran_in_quantum + 1
    BY <1>3 DEF Declare, Fetch, Leaves
  <2> QED
    BY <1>2, <2>1, <2>2, AfterInstruction DEF Executes
<1>4. CASE Compute
  <2>1. Executes(1) /\ p.program_counter < num_inst
    BY <1>1, <1>4, ComputeStep DEF Compute, Fetch
  <2>2. /\ step = "fetch" /\ step' = "look"
        /\ UNCHANGED <<program, CPU_TICKS, on_core, due, raced, fault>>
        /\ ticks_ran_in_quantum' = ticks_ran_in_quantum + 1
    BY <1>4 DEF Compute, Fetch, Leaves
  <2> QED
    BY <1>2, <2>1, <2>2, AfterInstruction DEF Executes
<1>5. CASE PrintVariable
  <2>1. Executes(1) /\ p.program_counter < num_inst
    BY <1>1, <1>5, PrintStep DEF PrintVariable, Fetch
  <2>2. /\ step = "fetch" /\ step' = "look"
        /\ UNCHANGED <<program, CPU_TICKS, on_core, due, raced, fault>>
        /\ ticks_ran_in_quantum' = ticks_ran_in_quantum + 1
    BY <1>5 DEF PrintVariable, Fetch, Leaves
  <2> QED
    BY <1>2, <2>1, <2>2, AfterInstruction DEF Executes
<1>6. CASE PrintToNull
  <2>1. /\ UNCHANGED <<program, p, CPU_TICKS, step, on_core, ticks_ran_in_quantum, due,
                       raced>>
        /\ fault' = TRUE
    BY <1>6 DEF PrintToNull
  <2>2. Typed'
    BY <1>1, <2>1 DEF Typed, num_inst
  <2>3. SleepsRight'
    BY <2>1 DEF Sound, SleepsRight, InTheMiddle, QueuedSleeper, DeadlineKept, HasSlept,
                Instruction, num_inst
  <2> QED
    BY <2>2, <2>3 DEF Sound
<1>7. CASE For
  <2>1. Executes(2) /\ p.program_counter < num_inst
    BY <1>1, <1>7, ForStep DEF For, Fetch
  <2>2. /\ step = "fetch" /\ step' = "look"
        /\ UNCHANGED <<program, CPU_TICKS, on_core, due, raced, fault>>
        /\ ticks_ran_in_quantum' = ticks_ran_in_quantum + 1
    BY <1>7 DEF For, Fetch, Leaves
  <2> QED
    BY <1>2, <2>1, <2>2, AfterInstruction DEF Executes
<1>8. CASE Sleep
  <2>1. /\ p' \in Structs /\ Fit(p', num_inst)
        /\ p'.program_counter = p.program_counter /\ p'.state = "SLEEPING"
        /\ p.program_counter < num_inst /\ Instruction.type = "SLEEP"
        /\ Instruction.value \in Nat
    BY <1>1, <1>8, SleepStep
  <2>2. /\ UNCHANGED <<program, CPU_TICKS, on_core, ticks_ran_in_quantum, fault>>
        /\ step' = "deadline" /\ due' = CPU_TICKS + Instruction.value
        /\ raced' = ~on_core
    BY <1>8 DEF Sleep
  <2>3. due' \in Nat /\ raced' \in BOOLEAN
    BY <1>1, <2>1, <2>2, Constants DEF Typed
  <2>4. Typed'
    BY <1>1, <2>1, <2>2, <2>3 DEF Typed, num_inst
  <2>5. InTheMiddle'
    BY <2>1, <2>2 DEF InTheMiddle, Instruction, num_inst
  <2>6. QueuedSleeper' /\ DeadlineKept' /\ HasSlept'
    BY <2>1, <2>2 DEF QueuedSleeper, DeadlineKept, HasSlept
  <2> QED
    BY <2>4, <2>5, <2>6 DEF Sound, SleepsRight
<1>9. CASE SleepUntil
  <2>1. /\ p' \in Structs /\ Fit(p', num_inst)
        /\ p'.program_counter = p.program_counter + 1 /\ p'.state = p.state
        /\ p'.sleep_until_tick = Deadline
        /\ p.program_counter < num_inst /\ Instruction.value \in Nat
    BY <1>1, <1>9, SleepUntilStep
  <2>2. /\ UNCHANGED <<program, CPU_TICKS, on_core, raced, fault>>
        /\ step' = "look" /\ due' = CPU_TICKS + Instruction.value
        /\ ticks_ran_in_quantum' = ticks_ran_in_quantum + 1
        /\ step = "deadline"
    BY <1>9 DEF SleepUntil, Leaves
  <2>3. due' \in Nat
    BY <1>1, <2>1, <2>2, Constants DEF Typed
  <2>4. Typed'
    BY <1>1, <1>2, <2>1, <2>2, <2>3 DEF Typed, num_inst
  <2>5. InTheMiddle' /\ QueuedSleeper'
    BY <2>1, <2>2 DEF Sound, SleepsRight, InTheMiddle, QueuedSleeper
  <2>6. DeadlineKept'
    <3>1. due' < DeadlineWrap => Deadline = due'
      BY <2>2, <2>3, DeadlineFits DEF Deadline
    <3> QED
      BY <2>1, <3>1 DEF DeadlineKept
  <2>7. HasSlept'
    BY <1>1, <2>1, <2>2 DEF InTheMiddle, HasSlept
  <2> QED
    BY <2>4, <2>5, <2>6, <2>7 DEF Sound, SleepsRight
<1>10. CASE Tick
  <2>1. /\ CPU_TICKS' = CPU_TICKS + 1 /\ CPU_TICKS < LastTick
        /\ UNCHANGED <<program, p, step, on_core, ticks_ran_in_quantum, due, raced,
                       fault>>
    BY <1>10 DEF Tick
  <2>2. CPU_TICKS' \in 0 .. LastTick /\ CPU_TICKS \in Nat
    BY <1>1, <2>1, Constants DEF Typed
  <2>3. Typed'
    BY <1>1, <2>1, <2>2 DEF Typed, num_inst
  <2>4. InTheMiddle' /\ QueuedSleeper' /\ DeadlineKept'
    BY <2>1 DEF Sound, SleepsRight, InTheMiddle, QueuedSleeper, DeadlineKept, HasSlept, Instruction, num_inst
  <2>5. HasSlept'
    BY <1>1, <2>1, <2>2 DEF Sound, SleepsRight, Typed, HasSlept
  <2> QED
    BY <2>3, <2>4, <2>5 DEF Sound, SleepsRight
<1>11. CASE WakeUp
  <2>1. /\ p' \in Structs /\ Fit(p', num_inst)
        /\ p'.program_counter = p.program_counter /\ p'.state = "RUNNING"
    BY <1>1, <1>11, StateStep DEF WakeUp
  <2>2. /\ p.state = "SLEEPING" /\ CPU_TICKS >= p.sleep_until_tick
        /\ raced' = (raced \/ step = "deadline") /\ ticks_ran_in_quantum' = 0
        /\ UNCHANGED <<program, CPU_TICKS, step, on_core, due, fault>>
    BY <1>11 DEF WakeUp, TimeToWake
  <2>3. Typed'
    BY <1>1, <2>1, <2>2 DEF Typed, num_inst
  <2>4. InTheMiddle'
    BY <1>1, <2>1, <2>2 DEF Typed, InTheMiddle, Instruction, num_inst
  <2>5. QueuedSleeper' /\ DeadlineKept'
    BY <2>1, <2>2 DEF QueuedSleeper, DeadlineKept
  <2>6. HasSlept'
    <3>1. step # "deadline" /\ due < DeadlineWrap => p.sleep_until_tick = due
      BY <2>2 DEF Sound, SleepsRight, DeadlineKept
    <3>2. due \in Nat /\ CPU_TICKS \in Nat /\ DeadlineWrap \in Nat
      BY <1>1, Constants DEF Typed
    <3>3. CASE step = "deadline"
      BY <2>2, <3>3 DEF HasSlept
    <3>4. CASE step # "deadline"
      <4>1. due < DeadlineWrap => CPU_TICKS >= due
        BY <2>2, <3>1, <3>4
      <4>2. CPU_TICKS < due => due >= DeadlineWrap
        BY <3>2, <4>1
      <4> QED
        BY <2>2, <4>2 DEF HasSlept
    <3> QED
      BY <3>3, <3>4
  <2> QED
    BY <2>3, <2>4, <2>5, <2>6 DEF Sound, SleepsRight
<1>12. CASE Preempt
  <2>1. /\ p' \in Structs /\ Fit(p', num_inst)
        /\ p'.program_counter = p.program_counter /\ p'.state = "READY"
    BY <1>1, <1>12, StateStep DEF Preempt
  <2>2. /\ p.state = "RUNNING" /\ on_core' = FALSE
        /\ UNCHANGED <<program, CPU_TICKS, step, ticks_ran_in_quantum, due, raced, fault>>
    BY <1>12 DEF Preempt
  <2>3. Typed'
    BY <1>1, <2>1, <2>2 DEF Typed, num_inst
  <2>4. SleepsRight'
    BY <2>1, <2>2 DEF Sound, SleepsRight, InTheMiddle, QueuedSleeper, DeadlineKept, HasSlept,
                      Instruction, num_inst
  <2> QED
    BY <2>3, <2>4 DEF Sound
<1>13. CASE Dispatch
  <2>1. /\ p' \in Structs /\ Fit(p', num_inst)
        /\ p'.program_counter = p.program_counter /\ p'.state = "RUNNING"
    BY <1>1, <1>13, StateStep DEF Dispatch
  <2>2. /\ ~on_core /\ on_core' = TRUE /\ ticks_ran_in_quantum' = 0
        /\ UNCHANGED <<program, CPU_TICKS, step, due, raced, fault>>
    BY <1>13 DEF Dispatch
  <2>3. Typed'
    BY <1>1, <2>1, <2>2 DEF Typed, num_inst
  <2>4. SleepsRight'
    BY <2>1, <2>2 DEF Sound, SleepsRight, InTheMiddle, QueuedSleeper, DeadlineKept, HasSlept,
                      Instruction, num_inst
  <2> QED
    BY <2>3, <2>4 DEF Sound
<1>14. CASE Look
  <2>1. /\ step # "deadline" /\ step' = "fetch"
        /\ UNCHANGED <<program, p, CPU_TICKS, on_core, ticks_ran_in_quantum, due, raced,
                       fault>>
    BY <1>14 DEF Look
  <2>2. Typed'
    BY <1>1, <2>1 DEF Typed, num_inst
  <2>3. SleepsRight'
    BY <2>1 DEF Sound, SleepsRight, InTheMiddle, QueuedSleeper, DeadlineKept, HasSlept
  <2> QED
    BY <2>2, <2>3 DEF Sound
<1>15. CASE SwapOutAndIn
  <2>1. /\ p' \in Structs /\ Fit(p', num_inst)
        /\ p'.program_counter = p.program_counter /\ p'.state = p.state
        /\ p'.sleep_until_tick = p.sleep_until_tick
    BY <1>1, <1>15, SwapStep
  <2>2. /\ step = "look" /\ p.state = "RUNNING" /\ on_core' = FALSE
        /\ UNCHANGED <<program, CPU_TICKS, step, ticks_ran_in_quantum, due, raced, fault>>
    BY <1>15 DEF SwapOutAndIn
  <2>3. Typed'
    BY <1>1, <2>1, <2>2 DEF Typed, num_inst
  <2>4. SleepsRight'
    BY <2>1, <2>2 DEF Sound, SleepsRight, InTheMiddle, QueuedSleeper, DeadlineKept, HasSlept
  <2> QED
    BY <2>3, <2>4 DEF Sound
<1>16. CASE UNCHANGED vars
  <2>1. Typed'
    BY <1>1, <1>16 DEF vars, Typed, num_inst
  <2>2. SleepsRight'
    BY <1>16
    DEF vars, Sound, SleepsRight, InTheMiddle, QueuedSleeper, DeadlineKept, HasSlept,
        Instruction, num_inst
  <2> QED
    BY <2>1, <2>2 DEF Sound
<1> QED
  BY <1>3, <1>4, <1>5, <1>6, <1>7, <1>8, <1>9, <1>10, <1>11, <1>12, <1>13, <1>14,
     <1>15, <1>16
  DEF Next, ExecuteInstruction

LEMMA AlwaysSound == Spec => []Sound
BY InitSound, NextSound, PTL DEF Spec

(* Every state of a process has the values its fields range over: the      *)
(* program counter stops one behind the end at most, whatever FORs skip,   *)
(* and every value that is computed fits in 16 bits.                       *)
THEOREM InterpreterTypeCorrect == Spec => []TypeOK
<1>1. Sound => TypeOK
  <2> SUFFICES ASSUME Sound PROVE TypeOK
    OBVIOUS
  <2>1. Typed
    BY DEF Sound
  <2>2. p \in Structs /\ p.program_counter \in 0 .. num_inst + 1
    BY <2>1, Length DEF Typed
  <2>3. \A i \in DOMAIN p.variables : p.variables[i].value \in 0 .. ValueMax
    <3>1. \A i \in 1 .. Len(p.variables) : p.variables[i] \in Entries
      BY <2>2 DEF Structs
    <3> QED
      BY <2>2, <3>1, Domains DEF Entries
  <2>4. /\ p.state \in {"READY", "RUNNING", "SLEEPING"}
        /\ p.variables_capacity \in Nat /\ p.array \in Nat
        /\ p.has_logs \in BOOLEAN /\ p.sleep_until_tick \in 0 .. DeadlineWrap - 1
    BY <2>2 DEF Structs
  <2> QED
    BY <2>1, <2>2, <2>3, <2>4 DEF Typed, TypeOK
<1> QED
  BY <1>1, AlwaysSound, PTL

(* The variables of a process fit in the array that is allocated for them  *)
(* and have each name once, for every program and every sequence of        *)
(* growths and ways through the backing store.                             *)
THEOREM VariablesAlwaysFit == Spec => []VariablesFit
<1>1. Sound => VariablesFit
  <2> SUFFICES ASSUME Sound PROVE VariablesFit
    OBVIOUS
  <2>1. p \in Structs /\ Fit(p, num_inst)
    BY DEF Sound, Typed
  <2>2. /\ DOMAIN p.variables = 1 .. Len(p.variables) /\ Len(p.variables) \in Nat
        /\ p.variables_capacity \in Nat /\ p.array \in Nat
    BY <2>1, Domains DEF Structs
  <2> QED
    BY <2>1, <2>2 DEF Fit, Once, VariablesFit, NumVar
<1> QED
  BY <1>1, AlwaysSound, PTL

(* No process runs on before its SLEEP is over, but for a SLEEP whose two  *)
(* writes the waking loop came between, one that was executed for a        *)
(* process already queued again, and the deadlines that do not fit in 16   *)
(* bits: of every program, for every quantum and speed of the clock.       *)
THEOREM SleepIsLongEnough == Spec => []SleepLasts
<1>1. Sound => SleepLasts
  BY DEF Sound, SleepsRight, HasSlept, SleepLasts
<1> QED
  BY <1>1, AlwaysSound, PTL

(***************************************************************************)
(* The recursion of Meaning and of ReachedByFor: that there are functions  *)
(* that satisfy the two definitions, and what they say of the next         *)
(* instruction.                                                            *)
(***************************************************************************)
(* Meaning and ReachedByFor of any text. *)
IsMeaning(f, text, reached, n) ==
  f = [i \in 0 .. n |->
         IF i = 0 THEN NothingDone
         ELSE IF reached[i] THEN Effect(f[i - 1], text[i])
         ELSE f[i - 1]]

MeaningOf(text, reached, n) == (CHOOSE f : IsMeaning(f, text, reached, n))[n]

IsReached(f, text, n) ==
  f = [i \in 1 .. n |-> i = 1 \/ text[i - 1].cmd # "FOR" \/ ~f[i - 1]]

ReachedIn(text) == CHOOSE f : IsReached(f, text, Len(text))

LEMMA SameMeaning ==
  ASSUME NEW reached, NEW n
  PROVE  Meaning(reached, n) = MeaningOf(program, reached, n)
BY DEF Meaning, MeaningOf, IsMeaning

LEMMA SameReached == ReachedByFor = ReachedIn(program)
BY DEF ReachedByFor, ReachedIn, IsReached, num_inst

LEMMA MeaningExists ==
  ASSUME NEW text, NEW reached, NEW n \in Nat
  PROVE  \E f : IsMeaning(f, text, reached, n)
<1> DEFINE T == {k \in Nat : ~\E f : IsMeaning(f, text, reached, k)}
<1> SUFFICES ASSUME T # {} PROVE FALSE
  OBVIOUS
<1>1. PICK k \in T : \A l \in T : k <= l
  <2>1. T \in SUBSET Nat
    OBVIOUS
  <2> HIDE DEF T
  <2> QED
    BY <2>1, Least
<1>2. CASE k = 0
  <2> DEFINE f == [i \in 0 .. 0 |-> NothingDone]
  <2>1. IsMeaning(f, text, reached, 0)
    BY DEF IsMeaning
  <2> QED
    BY <1>1, <1>2, <2>1
<1>3. CASE k # 0
  <2>1. k - 1 \in Nat /\ k \in Nat /\ k - 1 < k
    BY <1>3
  <2>2. PICK g : IsMeaning(g, text, reached, k - 1)
    BY <1>1, <2>1
  <2> DEFINE new == IF reached[k] THEN Effect(g[k - 1], text[k]) ELSE g[k - 1]
             f == [i \in 0 .. k |-> IF i = k THEN new ELSE g[i]]
  <2>3. /\ g[0] = NothingDone
        /\ \A i \in 1 .. k - 1 :
             g[i] = IF reached[i] THEN Effect(g[i - 1], text[i]) ELSE g[i - 1]
    BY <2>1, <2>2 DEF IsMeaning
  <2>4. \A i \in 0 .. k - 1 : f[i] = g[i]
    BY <2>1
  <2>5. f[k] = new
    BY <2>1
  <2>6. f[0] = NothingDone
    BY <2>1, <2>3, <2>4
  <2>7. ASSUME NEW i \in 1 .. k
        PROVE  f[i] = IF reached[i] THEN Effect(f[i - 1], text[i]) ELSE f[i - 1]
    <3>1. i - 1 \in 0 .. k - 1 /\ (i = k \/ i \in 1 .. k - 1)
      BY <2>1
    <3> HIDE DEF f
    <3> QED
      BY <2>1, <2>3, <2>4, <2>5, <3>1
  <2>8. f = [i \in 0 .. k |->
               IF i = 0 THEN NothingDone
               ELSE IF reached[i] THEN Effect(f[i - 1], text[i])
               ELSE f[i - 1]]
    <3> DEFINE h == [i \in 0 .. k |->
               IF i = 0 THEN NothingDone
               ELSE IF reached[i] THEN Effect(f[i - 1], text[i])
               ELSE f[i - 1]]
    <3>1. f = [i \in 0 .. k |-> f[i]]
      OBVIOUS
    <3>2. \A i \in 0 .. k : f[i] = h[i]
      <4> SUFFICES ASSUME NEW i \in 0 .. k PROVE f[i] = h[i]
        OBVIOUS
      <4>1. h[i] = IF i = 0 THEN NothingDone
               ELSE IF reached[i] THEN Effect(f[i - 1], text[i])
               ELSE f[i - 1]
        OBVIOUS
      <4> HIDE DEF f, h
      <4>2. i = 0 \/ i \in 1 .. k
        BY <2>1
      <4> QED
        BY <2>6, <2>7, <4>1, <4>2
    <3> HIDE DEF f
    <3> QED
      BY <3>1, <3>2
  <2>9. IsMeaning(f, text, reached, k)
    <3> HIDE DEF f
    <3> QED
      BY <2>8 DEF IsMeaning
  <2> QED
    BY <1>1, <2>9
<1> QED
  BY <1>2, <1>3

(* The functions for n and for n + 1 agree up to n. *)
LEMMA MeaningUnique ==
  ASSUME NEW text, NEW reached, NEW n \in Nat,
         NEW f, IsMeaning(f, text, reached, n),
         NEW g, IsMeaning(g, text, reached, n + 1)
  PROVE  f[n] = g[n]
<1> DEFINE T == {k \in 0 .. n : f[k] # g[k]}
<1>1. \A i \in 0 .. n :
        f[i] = IF i = 0 THEN NothingDone
               ELSE IF reached[i] THEN Effect(f[i - 1], text[i]) ELSE f[i - 1]
  BY DEF IsMeaning
<1>2. \A i \in 0 .. n + 1 :
        g[i] = IF i = 0 THEN NothingDone
               ELSE IF reached[i] THEN Effect(g[i - 1], text[i]) ELSE g[i - 1]
  BY DEF IsMeaning
<1>3. ASSUME T # {} PROVE FALSE
  <2>1. PICK k \in T : \A l \in T : k <= l
    <3>1. T \in SUBSET Nat
      OBVIOUS
    <3> HIDE DEF T
    <3> QED
      BY <1>3, <3>1, Least
  <2>2. k \in 0 .. n /\ k \in 0 .. n + 1 /\ f[k] # g[k]
    OBVIOUS
  <2>3. k # 0
    BY <1>1, <1>2, <2>2
  <2>4. k - 1 \in 0 .. n /\ ~(k <= k - 1)
    BY <2>2, <2>3
  <2>5. f[k - 1] = g[k - 1]
    BY <2>1, <2>4
  <2> QED
    BY <1>1, <1>2, <2>2, <2>3, <2>5
<1>4. n \in 0 .. n
  OBVIOUS
<1> QED
  BY <1>3, <1>4

LEMMA MeaningOfNothing ==
  ASSUME NEW text, NEW reached
  PROVE  MeaningOf(text, reached, 0) = NothingDone
<1>1. PICK f : IsMeaning(f, text, reached, 0)
  BY MeaningExists
<1> DEFINE g == CHOOSE g : IsMeaning(g, text, reached, 0)
<1>2. IsMeaning(g, text, reached, 0)
  BY <1>1
<1>3. MeaningOf(text, reached, 0) = g[0]
  BY DEF MeaningOf
<1> HIDE DEF g
<1>4. g[0] = NothingDone
  BY <1>2 DEF IsMeaning
<1> QED
  BY <1>3, <1>4

LEMMA MeaningOfNext ==
  ASSUME NEW text, NEW reached, NEW n \in Nat
  PROVE  MeaningOf(text, reached, n + 1) =
           IF reached[n + 1]
           THEN Effect(MeaningOf(text, reached, n), text[n + 1])
           ELSE MeaningOf(text, reached, n)
<1> DEFINE f == CHOOSE f : IsMeaning(f, text, reached, n)
           g == CHOOSE g : IsMeaning(g, text, reached, n + 1)
<1>1. IsMeaning(f, text, reached, n)
  BY MeaningExists
<1>2. IsMeaning(g, text, reached, n + 1)
  <2>1. n + 1 \in Nat
    OBVIOUS
  <2>2. \E h : IsMeaning(h, text, reached, n + 1)
    BY <2>1, MeaningExists
  <2> QED
    BY <2>2
<1>3. MeaningOf(text, reached, n) = f[n] /\ MeaningOf(text, reached, n + 1) = g[n + 1]
  BY DEF MeaningOf
<1> HIDE DEF f, g
<1>4. f[n] = g[n]
  BY <1>1, <1>2, MeaningUnique
<1>5. g[n + 1] = IF reached[n + 1] THEN Effect(g[n], text[n + 1]) ELSE g[n]
  <2>1. n + 1 \in 0 .. n + 1 /\ n + 1 # 0 /\ (n + 1) - 1 = n
    OBVIOUS
  <2>2. \A i \in 0 .. n + 1 :
          g[i] = IF i = 0 THEN NothingDone
                 ELSE IF reached[i] THEN Effect(g[i - 1], text[i]) ELSE g[i - 1]
    BY <1>2 DEF IsMeaning
  <2> QED
    BY <2>1, <2>2
<1> QED
  BY <1>3, <1>4, <1>5

LEMMA ReachedExists ==
  ASSUME NEW text, NEW n \in Nat
  PROVE  \E f : IsReached(f, text, n)
<1> DEFINE T == {k \in Nat : ~\E f : IsReached(f, text, k)}
<1> SUFFICES ASSUME T # {} PROVE FALSE
  OBVIOUS
<1>1. PICK k \in T : \A l \in T : k <= l
  <2>1. T \in SUBSET Nat
    OBVIOUS
  <2> HIDE DEF T
  <2> QED
    BY <2>1, Least
<1>2. CASE k = 0
  <2> DEFINE f == [i \in 1 .. 0 |-> TRUE]
  <2>1. IsReached(f, text, 0)
    BY DEF IsReached
  <2> QED
    BY <1>1, <1>2, <2>1
<1>3. CASE k # 0
  <2>1. k - 1 \in Nat /\ k \in Nat /\ k - 1 < k
    BY <1>3
  <2>2. PICK g : IsReached(g, text, k - 1)
    BY <1>1, <2>1
  <2> DEFINE new == k = 1 \/ text[k - 1].cmd # "FOR" \/ ~g[k - 1]
             f == [i \in 1 .. k |-> IF i = k THEN new ELSE g[i]]
  <2>3. \A i \in 1 .. k - 1 :
          g[i] = (i = 1 \/ text[i - 1].cmd # "FOR" \/ ~g[i - 1])
    BY <2>1, <2>2 DEF IsReached
  <2>4. \A i \in 1 .. k - 1 : f[i] = g[i]
    BY <2>1
  <2>5. f[k] = new
    BY <2>1
  <2>6. ASSUME NEW i \in 1 .. k
        PROVE  f[i] = (i = 1 \/ text[i - 1].cmd # "FOR" \/ ~f[i - 1])
    <3>1. i = 1 \/ i - 1 \in 1 .. k - 1
      BY <2>1
    <3>2. i = k \/ i \in 1 .. k - 1
      BY <2>1
    <3> HIDE DEF f
    <3>3. CASE i = k
      BY <2>4, <2>5, <3>1, <3>3
    <3>4. CASE i \in 1 .. k - 1
      BY <2>3, <2>4, <3>1, <3>4
    <3> QED
      BY <3>2, <3>3, <3>4
  <2> DEFINE h == [i \in 1 .. k |-> i = 1 \/ text[i - 1].cmd # "FOR" \/ ~f[i - 1]]
  <2>7. f = [i \in 1 .. k |-> f[i]]
    OBVIOUS
  <2>8. \A i \in 1 .. k : h[i] = (i = 1 \/ text[i - 1].cmd # "FOR" \/ ~f[i - 1])
    OBVIOUS
  <2>9. h = [i \in 1 .. k |-> h[i]]
    OBVIOUS
  <2>10. f = h
    <3> HIDE DEF f, h
    <3>1. \A i \in 1 .. k : f[i] = h[i]
      BY <2>6, <2>8
    <3> QED
      BY <2>7, <2>9, <3>1
  <2>11. IsReached(f, text, k)
    <3> HIDE DEF f
    <3> QED
      BY <2>10 DEF IsReached
  <2> QED
    BY <1>1, <2>11
<1> QED
  BY <1>2, <1>3

(* An instruction is reached unless a reached FOR is right before it. *)
LEMMA ReachedNext ==
  ASSUME NEW text, Len(text) \in Nat, NEW i \in 1 .. Len(text)
  PROVE  ReachedIn(text)[i]
           = (i = 1 \/ text[i - 1].cmd # "FOR" \/ ~ReachedIn(text)[i - 1])
<1> DEFINE f == ReachedIn(text)
<1>1. \E g : IsReached(g, text, Len(text))
  BY ReachedExists
<1>2. IsReached(f, text, Len(text))
  BY <1>1 DEF ReachedIn
<1> HIDE DEF f
<1>3. f[i] = (i = 1 \/ text[i - 1].cmd # "FOR" \/ ~f[i - 1])
  BY <1>2 DEF IsReached
<1> QED
  BY <1>3 DEF f

(***************************************************************************)
(* The effects: what a text does to the meaning, and the log.              *)
(***************************************************************************)
Meaningful(done) ==
  /\ done = [values |-> done.values, printed |-> done.printed]
  /\ done.printed \in Seq(Entries)
  /\ DOMAIN done.values \subseteq Int
  /\ \A m \in Int : Lookup(done.values, m) \in 0 .. ValueMax

(* The variables of the struct have the values that are meant. *)
Represents(q, done) == \A m \in Int : ValueOf(q, m, 0) = Lookup(done.values, m)

LEMMA IndexIsInt == ASSUME NEW n \in Nat PROVE Index(n) \subseteq Int
BY DEF Index

LEMMA NothingMeaningful ==
  /\ Meaningful(NothingDone)
  /\ \A m : Lookup(NothingDone.values, m) = 0
  /\ NothingDone.printed = <<>>
<1>1. /\ NothingDone = [values |-> NothingDone.values, printed |-> NothingDone.printed]
      /\ NothingDone.printed = <<>> /\ DOMAIN NothingDone.values = {}
  BY DEF NothingDone
<1>2. \A m : Lookup(NothingDone.values, m) = 0
  BY <1>1 DEF Lookup
<1>3. <<>> \in Seq(Entries)
  BY EmptySeq
<1> HIDE DEF NothingDone
<1> QED
  BY <1>1, <1>2, <1>3, Constants DEF Meaningful

LEMMA SetValue ==
  ASSUME NEW done, Meaningful(done), NEW name \in Int, NEW value \in 0 .. ValueMax,
         NEW after, after = [values |-> Set(done.values, name, value),
                             printed |-> done.printed]
  PROVE  /\ Meaningful(after) /\ after.printed = done.printed
         /\ \A m : Lookup(after.values, m) =
                     IF m = name THEN value ELSE Lookup(done.values, m)
<1>1. /\ after.values = Set(done.values, name, value)
      /\ after.printed = done.printed
      /\ after = [values |-> after.values, printed |-> after.printed]
  BY DEF Meaningful
<1>2. /\ DOMAIN after.values = DOMAIN done.values \cup {name}
      /\ \A m \in DOMAIN after.values :
           after.values[m] = IF m = name THEN value ELSE done.values[m]
  BY <1>1 DEF Set
<1>3. \A m : Lookup(after.values, m) =
               IF m = name THEN value ELSE Lookup(done.values, m)
  BY <1>2 DEF Lookup
<1>4. DOMAIN after.values \subseteq Int
  BY <1>2 DEF Meaningful
<1>5. \A m \in Int : Lookup(after.values, m) \in 0 .. ValueMax
  BY <1>3 DEF Meaningful
<1> QED
  BY <1>1, <1>3, <1>4, <1>5 DEF Meaningful

LEMMA EffectOfDeclare ==
  ASSUME NEW n \in Nat, NEW text \in Texts(n), text.cmd = "DECLARE",
         NEW done, Meaningful(done)
  PROVE  LET after == Effect(done, text)
         IN  /\ Meaningful(after) /\ after.printed = done.printed
             /\ \A m : Lookup(after.values, m) =
                         IF m = text.var THEN Clamp(text.num)
                                         ELSE Lookup(done.values, m)
<1> DEFINE after == Effect(done, text)
<1>1. after = [values |-> Set(done.values, text.var, Clamp(text.num)),
               printed |-> done.printed]
  <2>1. after = [done EXCEPT !.values = Set(@, text.var, Clamp(text.num))]
    BY DEF Effect
  <2> HIDE DEF after
  <2> QED
    BY <2>1 DEF Meaningful
<1>2. text.var \in Int /\ Clamp(text.num) \in 0 .. ValueMax
  BY ParsedDeclare, IndexIsInt, Clamped
<1> HIDE DEF after
<1>3. /\ Meaningful(after) /\ after.printed = done.printed
      /\ \A m : Lookup(after.values, m) =
                  IF m = text.var THEN Clamp(text.num) ELSE Lookup(done.values, m)
  BY <1>1, <1>2, SetValue
<1> QED
  BY <1>3 DEF after

(* In a program without number operands. *)
LEMMA EffectOfCompute ==
  ASSUME NEW n \in Nat, NEW text \in Texts(n), text.cmd \in {"ADD", "SUBTRACT"},
         IsVariable(text.left), IsVariable(text.right),
         NEW done, Meaningful(done)
  PROVE  LET after == Effect(done, text)
             left == Lookup(done.values, text.left.var)
             right == Lookup(done.values, text.right.var)
         IN  /\ Meaningful(after) /\ after.printed = done.printed
             /\ \A m : Lookup(after.values, m) =
                         IF m = text.var
                         THEN Clamp(IF text.cmd = "ADD" THEN left + right
                                                        ELSE left - right)
                         ELSE Lookup(done.values, m)
<1> DEFINE left == Lookup(done.values, text.left.var)
           right == Lookup(done.values, text.right.var)
           sum == IF text.cmd = "ADD" THEN left + right ELSE left - right
           after == Effect(done, text)
<1>1. /\ text.var \in Int /\ text.left \in Operands(n) /\ text.right \in Operands(n)
  BY ParsedCompute, IndexIsInt
<1>2. text.left.var \in Int /\ text.right.var \in Int
  BY <1>1, OperandNames, IndexIsInt
<1>3. left \in Int /\ right \in Int
  BY <1>2, Constants DEF Meaningful
<1>4. sum \in Int
  <2> HIDE DEF left, right
  <2> QED
    BY <1>3
<1>5. Clamp(sum) \in 0 .. ValueMax
  <2> HIDE DEF sum
  <2> QED
    BY <1>4, Clamped
<1>6. /\ Operand(done.values, text.left) = left
      /\ Operand(done.values, text.right) = right
  BY DEF Operand
<1>7. after = [done EXCEPT !.values = Set(@, text.var, Clamp(sum))]
  <2>1. CASE text.cmd = "ADD"
    <3>1. after =
            [done EXCEPT !.values = Set(@, text.var,
               Clamp(Operand(@, text.left) + Operand(@, text.right)))]
      BY <2>1 DEF Effect
    <3> QED
      BY <1>6, <2>1, <3>1
  <2>2. CASE text.cmd = "SUBTRACT"
    <3>1. after =
            [done EXCEPT !.values = Set(@, text.var,
               Clamp(Operand(@, text.left) - Operand(@, text.right)))]
      BY <2>2 DEF Effect
    <3> QED
      BY <1>6, <2>2, <3>1
  <2> QED
    BY <2>1, <2>2
<1> HIDE DEF sum, after
<1>8. after = [values |-> Set(done.values, text.var, Clamp(sum)),
               printed |-> done.printed]
  BY <1>7 DEF Meaningful
<1>9. /\ Meaningful(after) /\ after.printed = done.printed
      /\ \A m : Lookup(after.values, m) =
                  IF m = text.var THEN Clamp(sum) ELSE Lookup(done.values, m)
  BY <1>1, <1>5, <1>8, SetValue
<1> QED
  BY <1>9 DEF sum, after

LEMMA EffectOfPrint ==
  ASSUME NEW n \in Nat, NEW text \in Texts(n), text.cmd = "PRINT",
         NEW done, Meaningful(done)
  PROVE  LET after == Effect(done, text)
             entry == [name |-> text.var, value |-> Lookup(done.values, text.var)]
         IN  /\ Meaningful(after) /\ after.values = done.values
             /\ after.printed = Append(done.printed, entry)
             /\ entry \in Entries
<1> DEFINE entry == [name |-> text.var, value |-> Lookup(done.values, text.var)]
           after == Effect(done, text)
<1>1. after = [done EXCEPT !.printed = Append(@, entry)]
  BY DEF Effect
<1>2. text.var \in Int
  BY ParsedPrint, IndexIsInt
<1>3. entry \in Entries
  BY <1>2 DEF Meaningful, Entries
<1> HIDE DEF entry, after
<1>4. Append(done.printed, entry) \in Seq(Entries)
  BY <1>3, AppendProperties DEF Meaningful
<1>5. /\ after.values = done.values /\ after.printed = Append(done.printed, entry)
      /\ after = [values |-> after.values, printed |-> after.printed]
  BY <1>1 DEF Meaningful
<1>6. Meaningful(after)
  BY <1>4, <1>5 DEF Meaningful
<1> QED
  BY <1>3, <1>5, <1>6 DEF entry, after

LEMMA EffectOfOther ==
  ASSUME NEW text, text.cmd \in {"SLEEP", "FOR"}, NEW done
  PROVE  Effect(done, text) = done
BY DEF Effect
-----------------------------------------------------------------------------
(* How many PRINTs were dropped when len were executed: as many as fill    *)
(* the buffer, each time it was full.                                      *)
Dropped(len) == IF len = 0 THEN 0 ELSE ((len - 1) \div LogCapacity) * LogCapacity

LEMMA Division ==
  ASSUME NEW a \in Nat, NEW c \in Nat \ {0}
  PROVE  /\ a \div c \in Nat /\ (a \div c) * c \in Nat
         /\ (a \div c) * c <= a /\ a < (a \div c) * c + c
  OBVIOUS

LEMMA DivisionUnique ==
  ASSUME NEW a \in Nat, NEW c \in Nat \ {0}, NEW k \in Nat,
         k * c <= a, a < k * c + c
  PROVE  a \div c = k
  OBVIOUS

LEMMA DroppedNext ==
  ASSUME NEW len \in Nat
  PROVE  /\ Dropped(len) \in Nat /\ Dropped(len) <= len
         /\ len # 0 => Dropped(len) < len
         /\ Dropped(len + 1) = IF len - Dropped(len) >= LogCapacity THEN len
                                                                   ELSE Dropped(len)
<1>1. LogCapacity \in Nat \ {0}
  BY Constants
<1>2. CASE len = 0
  <2>1. 0 \div LogCapacity = 0
    BY <1>1, DivisionUnique
  <2> QED
    BY <1>1, <1>2, <2>1 DEF Dropped
<1>3. CASE len # 0
  <2> DEFINE k == (len - 1) \div LogCapacity
  <2>1. len - 1 \in Nat
    BY <1>3
  <2>2. /\ k \in Nat /\ k * LogCapacity \in Nat
        /\ k * LogCapacity <= len - 1 /\ len - 1 < k * LogCapacity + LogCapacity
    BY <1>1, <2>1, Division
  <2>3. Dropped(len) = k * LogCapacity
    BY <1>3 DEF Dropped
  <2>4. Dropped(len + 1) = (len \div LogCapacity) * LogCapacity
    BY DEF Dropped
  <2> HIDE DEF k
  <2>5. CASE len - k * LogCapacity >= LogCapacity
    <3>1. len = k * LogCapacity + LogCapacity
      BY <1>1, <2>2, <2>5
    <3>2. (k + 1) * LogCapacity = len /\ k + 1 \in Nat
      BY <1>1, <2>2, <3>1
    <3>3. len \div LogCapacity = k + 1
      BY <1>1, <3>2, DivisionUnique
    <3> QED
      BY <2>2, <2>3, <2>4, <2>5, <3>2, <3>3
  <2>6. CASE ~(len - k * LogCapacity >= LogCapacity)
    <3>1. len \div LogCapacity = k
      BY <1>1, <2>2, <2>6, DivisionUnique
    <3> QED
      BY <2>2, <2>3, <2>4, <2>6, <3>1
  <2> QED
    BY <2>5, <2>6
<1> QED
  BY <1>2, <1>3

LastOf(printed) == SubSeq(printed, Dropped(Len(printed)) + 1, Len(printed))

(* Logged keeps the last of what is printed. *)
LEMMA LogsNext ==
  ASSUME NEW printed \in Seq(Entries), NEW entry \in Entries
  PROVE  LET logs == LastOf(printed)
             kept == IF Len(logs) >= LogCapacity THEN <<>> ELSE logs
         IN  Append(kept, entry) = LastOf(Append(printed, entry))
<1> DEFINE len == Len(printed)
           d == Dropped(len)
           logs == LastOf(printed)
           kept == IF Len(logs) >= LogCapacity THEN <<>> ELSE logs
           longer == Append(printed, entry)
<1>1. len \in Nat
  OBVIOUS
<1>2. /\ d \in Nat /\ d <= len /\ (len # 0 => d < len)
      /\ Dropped(len + 1) = IF len - d >= LogCapacity THEN len ELSE d
  BY <1>1, DroppedNext
<1>3. /\ longer \in Seq(Entries) /\ Len(longer) = len + 1
      /\ \A i \in 1 .. len : longer[i] = printed[i]
      /\ longer[len + 1] = entry
  BY AppendProperties
<1>4. \A i \in 1 .. len : printed[i] \in Entries
  OBVIOUS
<1>5. logs = SubSeq(printed, d + 1, len)
  BY DEF LastOf
<1> HIDE DEF d, len, longer, logs
<1>6. /\ logs \in Seq(Entries) /\ Len(logs) = len - d
      /\ \A i \in 1 .. len - d : logs[i] = printed[d + i]
  <2>1. \A i \in d + 1 .. len : printed[i] \in Entries
    BY <1>1, <1>2, <1>4
  <2>2. /\ logs \in Seq(Entries)
        /\ Len(logs) = IF d + 1 <= len THEN len - (d + 1) + 1 ELSE 0
        /\ \A i \in 1 .. len - (d + 1) + 1 : logs[i] = printed[(d + 1) + i - 1]
    BY <1>1, <1>2, <1>5, <2>1, SubSeqProperties
  <2>3. Len(logs) = len - d
    BY <1>1, <1>2, <2>2
  <2>4. ASSUME NEW i \in 1 .. len - d PROVE logs[i] = printed[d + i]
    <3>1. (d + 1) + i - 1 = d + i /\ i \in 1 .. len - (d + 1) + 1
      BY <1>1, <1>2
    <3> QED
      BY <2>2, <3>1
  <2> QED
    BY <2>2, <2>3, <2>4
<1> DEFINE e == Dropped(len + 1)
           last == LastOf(longer)
<1>7. last = SubSeq(longer, e + 1, len + 1)
  BY <1>3 DEF LastOf
<1>8. e \in Nat /\ e <= len
  BY <1>1, <1>2
<1> HIDE DEF e, last
<1>9. /\ last \in Seq(Entries) /\ Len(last) = len + 1 - e
      /\ \A i \in 1 .. len + 1 - e : last[i] = longer[e + i]
  <2>1. \A i \in e + 1 .. len + 1 : longer[i] \in Entries
    BY <1>1, <1>3, <1>8
  <2>2. /\ last \in Seq(Entries)
        /\ Len(last) = IF e + 1 <= len + 1 THEN (len + 1) - (e + 1) + 1 ELSE 0
        /\ \A i \in 1 .. (len + 1) - (e + 1) + 1 : last[i] = longer[(e + 1) + i - 1]
    BY <1>1, <1>7, <1>8, <2>1, SubSeqProperties
  <2>3. Len(last) = len + 1 - e
    BY <1>1, <1>8, <2>2
  <2>4. ASSUME NEW i \in 1 .. len + 1 - e PROVE last[i] = longer[e + i]
    <3>1. (e + 1) + i - 1 = e + i /\ i \in 1 .. (len + 1) - (e + 1) + 1
      BY <1>1, <1>8
    <3> QED
      BY <2>2, <3>1
  <2> QED
    BY <2>2, <2>3, <2>4
<1>10. CASE len - d >= LogCapacity
  <2>1. kept = <<>> /\ e = len
    BY <1>2, <1>6, <1>10 DEF e
  <2>2. /\ Append(kept, entry) \in Seq(Entries) /\ Len(Append(kept, entry)) = 1
        /\ Append(kept, entry)[1] = entry
    <3>1. kept \in Seq(Entries) /\ Len(kept) = 0
      BY <2>1, EmptySeq
    <3> HIDE DEF kept
    <3> QED
      BY <3>1, AppendProperties
  <2>3. Len(last) = 1 /\ last[1] = entry
    BY <1>1, <1>3, <1>9, <2>1
  <2> HIDE DEF kept
  <2>4. Append(kept, entry) = last
    <3> DEFINE new == Append(kept, entry)
    <3>1. \A i \in 1 .. Len(new) : new[i] = last[i]
      BY <2>2, <2>3
    <3> HIDE DEF new
    <3>2. /\ new \in Seq(Entries) /\ last \in Seq(Entries) /\ Len(new) = Len(last)
      BY <1>9, <2>2, <2>3 DEF new
    <3>3. new = last
      BY <3>1, <3>2, SeqEqual
    <3> QED
      BY <3>3 DEF new
  <2> QED
    BY <2>4 DEF last, kept, longer, logs
<1>11. CASE ~(len - d >= LogCapacity)
  <2>1. kept = logs /\ e = d
    BY <1>2, <1>6, <1>11 DEF e
  <2> DEFINE new == Append(kept, entry)
  <2>2. /\ new \in Seq(Entries) /\ Len(new) = len - d + 1
        /\ \A i \in 1 .. len - d : new[i] = printed[d + i]
        /\ new[len - d + 1] = entry
    <3>1. /\ new \in Seq(Entries) /\ Len(new) = Len(logs) + 1
          /\ \A i \in 1 .. Len(logs) : new[i] = logs[i]
          /\ new[Len(logs) + 1] = entry
      BY <1>6, <2>1, AppendProperties
    <3> HIDE DEF new
    <3> QED
      BY <1>6, <3>1
  <2>3. Len(last) = len - d + 1
    BY <1>1, <1>2, <1>9, <2>1
  <2>4. ASSUME NEW i \in 1 .. len - d + 1 PROVE new[i] = last[i]
    <3>1. last[i] = longer[d + i]
      BY <1>1, <1>2, <1>9, <2>1
    <3>2. CASE i = len - d + 1
      <4>1. d + i = len + 1
        BY <1>1, <1>2, <3>2
      <4> HIDE DEF new
      <4> QED
        BY <1>3, <2>2, <3>1, <3>2, <4>1
    <3>3. CASE i # len - d + 1
      <4>1. i \in 1 .. len - d /\ d + i \in 1 .. len
        BY <1>1, <1>2, <3>3
      <4> HIDE DEF new
      <4> QED
        BY <1>3, <2>2, <3>1, <4>1
    <3> QED
      BY <3>2, <3>3
  <2>5. new = last
    <3> HIDE DEF new
    <3> QED
      BY <1>9, <2>2, <2>3, <2>4, SeqEqual
  <2> QED
    BY <2>5 DEF last, kept, longer, logs
<1> QED
  BY <1>10, <1>11
-----------------------------------------------------------------------------
(* The array can grow to hold a variable for each instruction. *)
ShortPrograms ==
  \A text \in GeneratedPrograms \cup ScreenPrograms : Len(text) <= MaxCapacity

NumbersIn(text) ==
  \E i \in 1 .. Len(text) :
    /\ text[i].cmd \in {"ADD", "SUBTRACT"}
    /\ ~(IsVariable(text[i].left) /\ IsVariable(text[i].right))

(* What the text means up to instruction k, without those behind a FOR. *)
Done(text, k) == MeaningOf(text, ReachedIn(text), k)

(* The inductive form of ComputesItsMeaning and LogsAreTheLast: it needs   *)
(* that the program counter never stands right behind a reached FOR.       *)
ComputesUpTo(text, q, k) ==
  /\ Meaningful(Done(text, k)) /\ Represents(q, Done(text, k))
  /\ q.has_logs => q.logs = LastOf(Done(text, k).printed)
  /\ q.program_counter < Len(text) => ReachedIn(text)[q.program_counter + 1]

Computes == ~NumbersIn(program) => ComputesUpTo(program, p, Executed)

LEMMA InitComputes == Init => Computes
<1> SUFFICES ASSUME Init PROVE Computes
  OBVIOUS
<1>1. Typed
  BY InitSound DEF Sound
<1>2. /\ p.program_counter = 0 /\ p.variables = <<>> /\ p.logs = <<>>
  BY DEF Init, NewProcess
<1>3. Executed = 0 /\ Len(program) \in Nat \ {0}
  BY <1>1, <1>2, Length DEF Executed, num_inst
<1>4. Done(program, 0) = NothingDone
  BY MeaningOfNothing DEF Done
<1>5. \A m : ValueOf(p, m, 0) = 0
  <2>1. \A m : ~Has(p, m)
    BY <1>2 DEF Has
  <2> QED
    BY <2>1, ValueNotThere
<1>6. Represents(p, NothingDone)
  BY <1>5, NothingMeaningful DEF Represents
<1>7. p.logs = LastOf(NothingDone.printed)
  <2>1. Dropped(0) = 0 /\ Len(<<>>) = 0
    BY DEF Dropped
  <2>2. LastOf(<<>>) = <<>>
    BY <2>1, SubSeqEmpty DEF LastOf
  <2> QED
    BY <1>2, <2>2, NothingMeaningful
<1>8. ReachedIn(program)[1]
  <2>1. 1 \in 1 .. Len(program)
    BY <1>3
  <2>2. ReachedIn(program)[1]
          = (1 = 1 \/ program[1 - 1].cmd # "FOR" \/ ~ReachedIn(program)[1 - 1])
    BY <1>3, <2>1, ReachedNext, Zenon
  <2> QED
    BY <2>2
<1> QED
  BY <1>2, <1>3, <1>4, <1>6, <1>7, <1>8, NothingMeaningful
  DEF Computes, ComputesUpTo

(* A step that keeps the values, the log and the program counter. *)
LEMMA ComputesStutters ==
  ASSUME Computes, program' = program,
         p'.program_counter = p.program_counter,
         \A m : ValueOf(p', m, 0) = ValueOf(p, m, 0),
         p'.has_logs => p.has_logs /\ p'.logs = p.logs
  PROVE  Computes'
<1> SUFFICES ASSUME ~NumbersIn(program') PROVE ComputesUpTo(program', p', Executed')
  BY DEF Computes
<1>1. Executed' = Executed
  BY DEF Executed, num_inst
<1>2. ComputesUpTo(program, p, Executed)
  BY DEF Computes
<1>3. ComputesUpTo(program, p', Executed)
  BY <1>2 DEF ComputesUpTo, Represents
<1> QED
  BY <1>1, <1>3

(* A step to the next instruction. *)
LEMMA ComputesNext ==
  ASSUME Typed, ComputesUpTo(program, p, Executed),
         p.program_counter < num_inst, program' = program,
         p'.program_counter = p.program_counter + 1,
         Current.cmd # "FOR",
         Meaningful(Effect(Done(program, Executed), Current)),
         Represents(p', Effect(Done(program, Executed), Current)),
         p'.has_logs => p'.logs = LastOf(Effect(Done(program, Executed), Current).printed)
  PROVE  Computes'
<1> DEFINE pc == p.program_counter
<1>1. pc \in Nat /\ num_inst \in Nat /\ Executed = pc /\ num_inst = Len(program)
  BY Length DEF Executed, num_inst
<1>2. Executed' = pc + 1
  BY <1>1 DEF Executed, num_inst
<1>3. ReachedIn(program)[pc + 1]
  BY <1>1 DEF ComputesUpTo
<1>4. Done(program, pc + 1) = Effect(Done(program, pc), Current)
  BY <1>1, <1>3, MeaningOfNext DEF Done, Current
<1>5. pc + 1 < Len(program) => ReachedIn(program)[pc + 1 + 1]
  <2> SUFFICES ASSUME pc + 1 < Len(program) PROVE ReachedIn(program)[pc + 1 + 1]
    OBVIOUS
  <2> DEFINE i == pc + 1 + 1
  <2>1. i \in 1 .. Len(program) /\ i - 1 = pc + 1
    BY <1>1
  <2> HIDE DEF i
  <2>2. ReachedIn(program)[i]
          = (i = 1 \/ program[i - 1].cmd # "FOR" \/ ~ReachedIn(program)[i - 1])
    BY <1>1, <2>1, ReachedNext
  <2>3. program[i - 1].cmd # "FOR"
    BY <2>1 DEF Current
  <2>4. ReachedIn(program)[i]
    BY <2>2, <2>3
  <2> QED
    BY <2>4 DEF i
<1>6. ComputesUpTo(program, p', pc + 1)
  BY <1>1, <1>4, <1>5 DEF ComputesUpTo
<1> QED
  BY <1>2, <1>6 DEF Computes

(* The step of a FOR over the instruction behind it. *)
LEMMA ComputesFor ==
  ASSUME Typed, ComputesUpTo(program, p, Executed),
         p.program_counter < num_inst, program' = program,
         p'.program_counter = p.program_counter + 2,
         Current.cmd = "FOR",
         \A m : ValueOf(p', m, 0) = ValueOf(p, m, 0),
         p'.has_logs = p.has_logs, p'.logs = p.logs
  PROVE  Computes'
<1> DEFINE pc == p.program_counter
<1>1. pc \in Nat /\ num_inst \in Nat /\ Executed = pc /\ num_inst = Len(program)
  BY Length DEF Executed, num_inst
<1>2. ReachedIn(program)[pc + 1]
  BY <1>1 DEF ComputesUpTo
<1>3. Done(program, pc + 1) = Done(program, pc)
  <2>1. Done(program, pc + 1) = Effect(Done(program, pc), Current)
    BY <1>1, <1>2, MeaningOfNext DEF Done, Current
  <2> QED
    BY <2>1, EffectOfOther
<1>4. CASE pc + 1 = Len(program)
  <2>1. Executed' = pc + 1 /\ ~(p'.program_counter < Len(program))
    BY <1>1, <1>4 DEF Executed, num_inst
  <2>2. ComputesUpTo(program, p', pc + 1)
    BY <1>1, <1>3, <2>1 DEF ComputesUpTo, Represents
  <2> QED
    BY <2>1, <2>2 DEF Computes
<1>5. CASE pc + 1 # Len(program)
  <2>1. Executed' = pc + 2
    BY <1>1, <1>5 DEF Executed, num_inst
  <2>2. ~ReachedIn(program)[pc + 2]
    <3>1. pc + 2 \in 1 .. Len(program) /\ (pc + 2) - 1 = pc + 1 /\ pc + 2 # 1
      BY <1>1, <1>5
    <3> QED
      BY <1>1, <1>2, <3>1, ReachedNext DEF Current
  <2>3. Done(program, pc + 2) = Done(program, pc + 1)
    <3>1. pc + 1 \in Nat /\ (pc + 1) + 1 = pc + 2
      BY <1>1
    <3> QED
      BY <2>2, <3>1, MeaningOfNext DEF Done
  <2>4. pc + 2 < Len(program) => ReachedIn(program)[pc + 2 + 1]
    <3> SUFFICES ASSUME pc + 2 < Len(program) PROVE ReachedIn(program)[pc + 2 + 1]
      OBVIOUS
    <3>1. pc + 2 + 1 \in 1 .. Len(program) /\ (pc + 2 + 1) - 1 = pc + 2
      BY <1>1
    <3> QED
      BY <1>1, <2>2, <3>1, ReachedNext
  <2>5. ComputesUpTo(program, p', pc + 2)
    BY <1>1, <1>3, <2>3, <2>4 DEF ComputesUpTo, Represents
  <2> QED
    BY <2>1, <2>5 DEF Computes
<1> QED
  BY <1>4, <1>5

LEMMA NextComputes ==
  ASSUME ShortPrograms, Sound, Computes, [Next]_vars
  PROVE  Computes'
<1>1. Typed /\ InTheMiddle
  BY DEF Sound, SleepsRight
<1>2. /\ num_inst \in Nat /\ p.program_counter \in Nat /\ num_inst <= MaxCapacity
      /\ Index(num_inst) \subseteq Int /\ num_inst = Len(program)
  BY <1>1, Length, IndexIsInt DEF Typed, ShortPrograms, num_inst
<1>3. program' = program
  BY DEF Next, ExecuteInstruction, Declare, Compute, PrintVariable, PrintToNull, For,
         Sleep, SleepUntil, Leaves, Look, Tick, WakeUp, Preempt, Dispatch,
         SwapOutAndIn, vars
<1>4. CASE NumbersIn(program)
  BY <1>3, <1>4 DEF Computes
<1> SUFFICES ASSUME ~NumbersIn(program) PROVE Computes'
  BY <1>4
<1> DEFINE done == Done(program, Executed)
<1>5. /\ ComputesUpTo(program, p, Executed)
      /\ Meaningful(done) /\ Represents(p, done)
      /\ p.has_logs => p.logs = LastOf(done.printed)
  BY DEF Computes, ComputesUpTo
<1>6. p.program_counter < num_inst => Current \in Texts(num_inst)
  BY <1>1, CurrentText DEF Current
<1> HIDE DEF done
<1>7. CASE Declare
  <2>1. /\ p.program_counter < num_inst /\ p.program_counter + 1 = p'.program_counter
        /\ p'.has_logs = p.has_logs /\ p'.logs = p.logs /\ Current.cmd = "DECLARE"
        /\ \A m : ValueOf(p', m, 0) = IF m = Current.var THEN Clamp(Current.num)
                                      ELSE ValueOf(p, m, 0)
    BY <1>1, <1>2, <1>7, DeclareStep DEF Declare, Fetch, Executes
  <2>2. LET after == Effect(done, Current)
        IN  /\ Meaningful(after) /\ after.printed = done.printed
            /\ \A m : Lookup(after.values, m) =
                        IF m = Current.var THEN Clamp(Current.num)
                                           ELSE Lookup(done.values, m)
    <3>1. Current \in Texts(num_inst) /\ Current.cmd = "DECLARE"
      BY <1>6, <2>1
    <3> QED
      BY <1>2, <1>5, <3>1, EffectOfDeclare, Zenon
  <2>3. Represents(p', Effect(done, Current))
    BY <1>5, <2>1, <2>2 DEF Represents
  <2> QED
    BY <1>1, <1>3, <1>5, <2>1, <2>2, <2>3, ComputesNext DEF done
<1>8. CASE Compute
  <2>1. /\ p.program_counter < num_inst /\ p.program_counter + 1 = p'.program_counter
        /\ p'.has_logs = p.has_logs /\ p'.logs = p.logs
        /\ Current.cmd \in {"ADD", "SUBTRACT"}
        /\ Current.left \in Operands(num_inst) /\ Current.right \in Operands(num_inst)
        /\ \A m : ValueOf(p', m, 0) =
                    IF m = Current.var
                    THEN Clamp(IF Current.cmd = "ADD"
                               THEN Given(Current.left) + Given(Current.right)
                               ELSE Given(Current.left) - Given(Current.right))
                    ELSE ValueOf(p, m, 0)
    BY <1>1, <1>2, <1>8, ComputeStep DEF Compute, Fetch, Executes
  <2>2. IsVariable(Current.left) /\ IsVariable(Current.right)
    <3>1. p.program_counter + 1 \in 1 .. Len(program)
      BY <1>2, <2>1
    <3> QED
      BY <2>1, <3>1 DEF NumbersIn, Current
  <2>3. Current.left.var \in Int /\ Current.right.var \in Int
    BY <1>2, <2>1, <2>2, OperandNames
  <2>4. /\ Given(Current.left) = Lookup(done.values, Current.left.var)
        /\ Given(Current.right) = Lookup(done.values, Current.right.var)
    BY <1>5, <2>2, <2>3 DEF Given, Represents
  <2>5. LET after == Effect(done, Current)
            left == Lookup(done.values, Current.left.var)
            right == Lookup(done.values, Current.right.var)
        IN  /\ Meaningful(after) /\ after.printed = done.printed
            /\ \A m : Lookup(after.values, m) =
                        IF m = Current.var
                        THEN Clamp(IF Current.cmd = "ADD" THEN left + right
                                                          ELSE left - right)
                        ELSE Lookup(done.values, m)
    <3>1. Current \in Texts(num_inst) /\ Current.cmd \in {"ADD", "SUBTRACT"}
      BY <1>6, <2>1
    <3> QED
      BY <1>2, <1>5, <2>2, <3>1, EffectOfCompute, Zenon
  <2>6. Represents(p', Effect(done, Current))
    BY <1>5, <2>1, <2>4, <2>5 DEF Represents
  <2> QED
    BY <1>1, <1>3, <1>5, <2>1, <2>5, <2>6, ComputesNext DEF done
<1>9. CASE PrintVariable
  <2> DEFINE kept == IF Len(p.logs) >= LogCapacity THEN <<>> ELSE p.logs
             entry == [name |-> Current.var, value |-> ValueOf(p, Current.var, 0)]
  <2>1. /\ p.program_counter < num_inst /\ p.program_counter + 1 = p'.program_counter
        /\ p.has_logs /\ Current.cmd = "PRINT" /\ Current.var \in Index(num_inst)
        /\ \A m : ValueOf(p', m, 0) = ValueOf(p, m, 0)
        /\ p'.logs = Append(kept, entry)
    BY <1>1, <1>9, PrintStep DEF PrintVariable, Fetch, Executes
  <2>2. entry = [name |-> Current.var, value |-> Lookup(done.values, Current.var)]
    BY <1>2, <1>5, <2>1 DEF Represents
  <2>3. LET after == Effect(done, Current)
        IN  /\ Meaningful(after) /\ after.values = done.values
            /\ after.printed = Append(done.printed, entry)
            /\ entry \in Entries
    BY <1>2, <1>5, <1>6, <2>1, <2>2, EffectOfPrint
  <2> HIDE DEF entry
  <2>4. p'.logs = LastOf(Effect(done, Current).printed)
    <3>1. done.printed \in Seq(Entries) /\ p.logs = LastOf(done.printed)
      BY <1>5, <2>1 DEF Meaningful
    <3>2. Append(kept, entry) = LastOf(Append(done.printed, entry))
      BY <2>3, <3>1, LogsNext
    <3> QED
      BY <2>1, <2>3, <3>2
  <2>5. Represents(p', Effect(done, Current))
    BY <1>5, <2>1, <2>3 DEF Represents
  <2> QED
    BY <1>1, <1>3, <1>5, <2>1, <2>3, <2>4, <2>5, ComputesNext DEF done
<1>10. CASE PrintToNull
  BY <1>3, <1>10, ComputesStutters DEF PrintToNull
<1>11. CASE For
  <2>1. /\ p.program_counter < num_inst /\ p'.program_counter = p.program_counter + 2
        /\ p'.has_logs = p.has_logs /\ p'.logs = p.logs /\ Current.cmd = "FOR"
        /\ \A m : ValueOf(p', m, 0) = ValueOf(p, m, 0)
    BY <1>1, <1>11, ForStep DEF For, Fetch, Executes
  <2> QED
    BY <1>1, <1>3, <1>5, <2>1, ComputesFor
<1>12. CASE Sleep
  BY <1>1, <1>3, <1>12, SleepStep, ComputesStutters
<1>13. CASE SleepUntil
  <2>1. /\ p.program_counter < num_inst /\ p'.program_counter = p.program_counter + 1
        /\ p'.has_logs = p.has_logs /\ p'.logs = p.logs /\ Current.cmd = "SLEEP"
        /\ \A m : ValueOf(p', m, 0) = ValueOf(p, m, 0)
    BY <1>1, <1>13, SleepUntilStep
  <2>2. Effect(done, Current) = done
    BY <2>1, EffectOfOther
  <2>3. Represents(p', Effect(done, Current))
    BY <1>5, <2>1, <2>2 DEF Represents
  <2> QED
    BY <1>1, <1>3, <1>5, <2>1, <2>2, <2>3, ComputesNext DEF done
<1>14. CASE Tick
  BY <1>3, <1>14, ComputesStutters DEF Tick
<1>15. CASE WakeUp
  BY <1>1, <1>3, <1>15, StateStep, ComputesStutters DEF WakeUp
<1>16. CASE SwapOutAndIn
  BY <1>1, <1>3, <1>16, SwapStep, ComputesStutters
<1>17. CASE Preempt
  BY <1>1, <1>3, <1>17, StateStep, ComputesStutters DEF Preempt
<1>18. CASE Dispatch
  BY <1>1, <1>3, <1>18, StateStep, ComputesStutters DEF Dispatch
<1>19. CASE Look
  BY <1>3, <1>19, ComputesStutters DEF Look
<1>20. CASE UNCHANGED vars
  BY <1>3, <1>20, ComputesStutters DEF vars
<1> QED
  BY <1>7, <1>8, <1>9, <1>10, <1>11, <1>12, <1>13, <1>14, <1>15, <1>16, <1>17, <1>18,
     <1>19, <1>20
  DEF Next, ExecuteInstruction

LEMMA AlwaysComputes == ASSUME ShortPrograms PROVE Spec => [](Sound /\ Computes)
<1>1. Init => Sound /\ Computes
  BY InitSound, InitComputes
<1>2. (Sound /\ Computes) /\ [Next]_vars => (Sound /\ Computes)'
  BY NextSound, NextComputes
<1> QED
  BY <1>1, <1>2, PTL DEF Spec

(* Every program without numbers as operands, of any length up to the      *)
(* largest array of variables, computes what it says but for what stands   *)
(* right behind a FOR: whatever is clamped, however often the array has    *)
(* grown under its pointers and however often the process has slept or     *)
(* been stored and read back.                                              *)
THEOREM ProgramsCompute ==
  ASSUME ShortPrograms PROVE Spec => []ComputesItsMeaning
<1>1. Sound /\ Computes => ComputesItsMeaning
  <2> SUFFICES ASSUME Sound, Computes, ~NumberOperands
               PROVE  Agrees(Meaning(ReachedByFor, Executed))
    BY DEF ComputesItsMeaning
  <2> DEFINE done == Done(program, Executed)
  <2>1. Meaning(ReachedByFor, Executed) = done
    BY SameMeaning, SameReached DEF Done
  <2>2. Meaningful(done) /\ Represents(p, done)
    BY DEF Computes, ComputesUpTo, NumbersIn, NumberOperands, num_inst
  <2>3. Names \subseteq Int
    <3>1. p \in Structs
      BY DEF Sound, Typed
    <3>2. \A i \in DOMAIN p.variables : p.variables[i] \in Entries
      BY <3>1 DEF Structs
    <3> QED
      BY <3>2 DEF Names, Entries
  <2>4. DOMAIN done.values \subseteq Int
    BY <2>2 DEF Meaningful
  <2> HIDE DEF done
  <2> QED
    BY <2>1, <2>2, <2>3, <2>4 DEF Agrees, Represents
<1> QED
  BY <1>1, AlwaysComputes, PTL

(* The log of such a program has its last PRINTs, those since the buffer   *)
(* was emptied, as long as the process was not in the backing store.       *)
THEOREM LogsKeepTheLast ==
  ASSUME ShortPrograms PROVE Spec => []LogsAreTheLast
<1>1. Sound /\ Computes => LogsAreTheLast
  <2> SUFFICES ASSUME Sound, Computes, p.has_logs, ~NumberOperands
               PROVE  LET printed == Meaning(ReachedByFor, Executed).printed
                          dropped == IF printed = <<>> THEN 0
                                     ELSE ((Len(printed) - 1) \div LogCapacity)
                                            * LogCapacity
                      IN  p.logs = SubSeq(printed, dropped + 1, Len(printed))
    BY DEF LogsAreTheLast
  <2> DEFINE printed == Done(program, Executed).printed
  <2>1. Meaning(ReachedByFor, Executed).printed = printed
    BY SameMeaning, SameReached DEF Done
  <2>2. p.logs = LastOf(printed) /\ printed \in Seq(Entries)
    BY DEF Computes, ComputesUpTo, NumbersIn, NumberOperands, num_inst, Meaningful
  <2> HIDE DEF printed
  <2>3. printed = <<>> <=> Len(printed) = 0
    BY <2>2, EmptySeq
  <2> QED
    BY <2>1, <2>2, <2>3 DEF LastOf, Dropped
<1> QED
  BY <1>1, AlwaysComputes, PTL
=============================================================================
