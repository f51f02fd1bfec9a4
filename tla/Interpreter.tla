---------------------------- MODULE Interpreter -----------------------------
(***************************************************************************)
(* One process and its program: execute_instruction with get_variable and  *)
(* resolve_value on the thread of a core, every write of state that the    *)
(* scheduler thread makes, the clock, and the way of the struct through    *)
(* the backing store, which the scheduler may send it between two          *)
(* instructions.                                                           *)
(*                                                                         *)
(* Grain: a core thread looks at the state under the lock and executes     *)
(* after that without it, so the process may be queued, and dispatched     *)
(* again, before the instruction is executed.  An instruction is a step,   *)
(* but SLEEP is two, since the scheduler may wake the process between its  *)
(* writes of state and deadline.  One thread executes the process at a     *)
(* time: the second one that round robin on several cores allows is in     *)
(* Scheduler.                                                              *)
(*                                                                         *)
(* The branches of execute_instruction for a FOR with sub-instructions are *)
(* left out: no instruction of a process that is ever enqueued has any     *)
(* (see parse_for), so for_depth is 0.  READ and WRITE come only from      *)
(* "screen -c", whose processes are never enqueued.                        *)
(*                                                                         *)
(* program, due and raced are not in the struct: the text the program was  *)
(* parsed from, when the last SLEEP should end, and whether the process    *)
(* was woken between its two writes or queued while it was executed.       *)
(***************************************************************************)
EXTENDS Instructions, FiniteSets

CONSTANTS
  GeneratedPrograms, \* the programs of generate_dummy_process, as texts
  ScreenPrograms,    \* those of screen_start
  InitialCapacity,   \* 8 in generate_dummy_process
  MaxCapacity,       \* 1000000 in get_variable
  LogCapacity,       \* 100
  DeadlineWrap,      \* 2^16: sleep_until_tick is a uint16_t
  quantum,           \* config.quantum_cycles
  LastTick           \* bound: CPU_TICKS stops here

ASSUME InterpreterAssumption ==
  /\ \A text \in GeneratedPrograms :
       /\ Len(text) \in Nat \ {0}
       /\ text \in ProgramsOf(generate_dummy_process, Len(text))
  /\ \A text \in ScreenPrograms :
       /\ Len(text) \in Nat \ {0}
       /\ text \in ProgramsOf(screen_start, Len(text))
  /\ {InitialCapacity, MaxCapacity, LogCapacity, DeadlineWrap} \subseteq Nat \ {0}
  /\ quantum \in Nat
  /\ LastTick \in Nat /\ LastTick + 1 >= DeadlineWrap

VARIABLES
  program,     \* the text
  p,           \* the Process struct
  CPU_TICKS,
  step,        \* "look" at the slot, "fetch" an instruction, or "deadline" in
               \* the middle of a SLEEP
  on_core,     \* whether a slot has the process; it is queued if not
  ticks_ran_in_quantum, \* a field of the struct
  due, raced,
  fault        \* whether a PRINT has written through NULL

vars == <<program, p, CPU_TICKS, step, on_core, ticks_ran_in_quantum, due, raced,
          fault>>

(* A new struct, dispatched.  array is the number of entries of the        *)
(* allocated variables array.                                              *)
NewProcess(capacity) ==
  [program_counter |-> 0, state |-> "RUNNING", variables |-> <<>>,
   variables_capacity |-> capacity, array |-> capacity,
   logs |-> <<>>, has_logs |-> TRUE, sleep_until_tick |-> 0]

Init ==
  /\ \/ /\ program \in GeneratedPrograms
        /\ p = NewProcess(InitialCapacity)
     \/ /\ program \in ScreenPrograms
        /\ p = NewProcess(Len(program))
  /\ CPU_TICKS = 0
  /\ step = "look"
  /\ on_core = TRUE /\ ticks_ran_in_quantum = 0
  /\ due = 0 /\ raced = FALSE
  /\ fault = FALSE
-----------------------------------------------------------------------------
num_inst == Len(program)

NumVar(q) == Len(q.variables)

Has(q, name) == \E i \in DOMAIN q.variables : q.variables[i].name = name

(* The array twice as long, when it is full. *)
Grown(q) == [q EXCEPT !.variables_capacity = 2 * @,
                      !.array = 2 * q.variables_capacity]

(* The struct after get_variable(name): the variable is there, unless the  *)
(* array cannot grow any more.                                             *)
get_variable(q, name) ==
  LET full == NumVar(q) >= q.variables_capacity
      room == IF full THEN Grown(q) ELSE q
  IN  IF Has(q, name) \/ (full /\ q.variables_capacity >= MaxCapacity)
      THEN q
      ELSE [room EXCEPT !.variables = Append(@, [name |-> name, value |-> 0])]

(* The value at the pointer it returns, fallback if that is NULL. *)
ValueOf(q, name, fallback) ==
  IF ~Has(q, name) THEN fallback
  ELSE LET i == CHOOSE i \in DOMAIN q.variables : q.variables[i].name = name
       IN  q.variables[i].value

(* resolve_value creates the variable it is to read, but for the empty name. *)
Resolved(q, arg) == IF arg = NoArg THEN q ELSE get_variable(q, arg)

resolve_value(q, arg, fallback) ==
  IF arg = NoArg THEN fallback ELSE ValueOf(Resolved(q, arg), arg, fallback)

(* *v = value through the pointer get_variable(name) has returned. *)
Assigned(q, name, value) ==
  LET there == get_variable(q, name)
  IN  [there EXCEPT !.variables =
         [i \in DOMAIN @ |-> IF @[i].name = name THEN [@[i] EXCEPT !.value = value]
                                                ELSE @[i]]]

(* Mutant of Computed: the destination is looked up first, and the write   *)
(* goes to the old array when a later lookup has moved it.                 *)
ComputedIntoOldArray(q, inst) ==
  LET first == get_variable(q, inst.arg1)
      q2 == Resolved(first, inst.arg2)
      q3 == Resolved(q2, inst.arg3)
      v2 == resolve_value(first, inst.arg2, 0)
      v3 == resolve_value(q2, inst.arg3, 0)
  IN  IF q3.array # first.array THEN q3
      ELSE Assigned(q3, inst.arg1,
                    Clamp(IF inst.type = "ADD" THEN v2 + v3 ELSE v2 - v3))

(* ADD and SUBTRACT: the operands are resolved before the destination, so  *)
(* that no growth moves the array under its pointer.                       *)
Computed(q, inst) ==
  LET q2 == Resolved(q, inst.arg2)
      q3 == Resolved(q2, inst.arg3)
      v2 == resolve_value(q, inst.arg2, 0)
      v3 == resolve_value(q2, inst.arg3, 0)
  IN  Assigned(q3, inst.arg1,
               Clamp(IF inst.type = "ADD" THEN v2 + v3 ELSE v2 - v3))

(* Mutant of Logged: the buffer is emptied one entry late. *)
LoggedLate(q, name) ==
  LET there == get_variable(q, name)
      kept == IF Len(q.logs) > LogCapacity THEN <<>> ELSE q.logs
  IN  [there EXCEPT !.logs =
         Append(kept, [name |-> name, value |-> ValueOf(there, name, 0)])]

(* PRINT: a full buffer is emptied, then the value is logged. *)
Logged(q, name) ==
  LET there == get_variable(q, name)
      kept == IF Len(q.logs) >= LogCapacity THEN <<>> ELSE q.logs
  IN  [there EXCEPT !.logs =
         Append(kept, [name |-> name, value |-> ValueOf(there, name, 0)])]
-----------------------------------------------------------------------------
Instruction == parse(program[p.program_counter + 1])

(* The slot has the process, it is RUNNING, and an instruction is there.    *)
Look ==
  /\ ~fault
  /\ step = "look"
  /\ on_core /\ p.state = "RUNNING"
  /\ p.program_counter < num_inst
  /\ step' = "fetch"
  /\ UNCHANGED <<program, p, CPU_TICKS, on_core, ticks_ran_in_quantum, due, raced,
                 fault>>

(* The thread executes without the lock, whatever has become of the state. *)
Fetch(types) ==
  /\ ~fault
  /\ step = "fetch"
  /\ p.program_counter < num_inst
  /\ Instruction.type \in types

(* The end of execute_instruction, for the struct q. *)
Advanced(q) == [q EXCEPT !.program_counter = @ + 1]

(* The instruction has left the struct q. *)
Leaves(q) ==
  /\ p' = q
  /\ step' = "look"
  /\ ticks_ran_in_quantum' = ticks_ran_in_quantum + 1
  /\ UNCHANGED <<program, CPU_TICKS, on_core, raced, fault>>

Declare ==
  /\ Fetch({"DECLARE"})
  /\ Leaves(Advanced(Assigned(p, Instruction.arg1, Clamp(Instruction.value))))
  /\ UNCHANGED due

Compute ==
  /\ Fetch({"ADD", "SUBTRACT"})
  /\ Leaves(Advanced(Computed(p, Instruction)))
  /\ UNCHANGED due

PrintVariable ==
  /\ Fetch({"PRINT"})
  /\ p.has_logs
  /\ Leaves(Advanced(Logged(p, Instruction.arg1)))
  /\ UNCHANGED due

(* p->logs is NULL: no defined behaviour from here on. *)
PrintToNull ==
  /\ Fetch({"PRINT"})
  /\ ~p.has_logs
  /\ fault' = TRUE
  /\ UNCHANGED <<program, p, CPU_TICKS, step, on_core, ticks_ran_in_quantum, due,
                 raced>>

(* FOR with an empty body: it advances the pc, and so does the end of      *)
(* execute_instruction.                                                    *)
For ==
  /\ Fetch({"FOR"})
  /\ Leaves(Advanced(Advanced(p)))
  /\ UNCHANGED due

Sleep ==
  /\ Fetch({"SLEEP"})
  /\ p' = [p EXCEPT !.state = "SLEEPING"]
  /\ step' = "deadline"
  /\ due' = CPU_TICKS + Instruction.value
  /\ raced' = ~on_core
  /\ UNCHANGED <<program, CPU_TICKS, on_core, ticks_ran_in_quantum, fault>>

(* Mutant of Deadline: the clock is left out. *)
DeadlineRelative == Instruction.value % DeadlineWrap

(* What the 16-bit field keeps. *)
Deadline == (CPU_TICKS + Instruction.value) % DeadlineWrap

SleepUntil ==
  /\ step = "deadline"
  /\ due' = CPU_TICKS + Instruction.value
  /\ Leaves(Advanced([p EXCEPT !.sleep_until_tick = Deadline]))

ExecuteInstruction ==
  \/ Declare \/ Compute \/ PrintVariable \/ PrintToNull \/ For \/ Sleep \/ SleepUntil
-----------------------------------------------------------------------------
(* The scheduler thread.                                                   *)

Tick ==
  /\ CPU_TICKS < LastTick
  /\ CPU_TICKS' = CPU_TICKS + 1
  /\ UNCHANGED <<program, p, step, on_core, ticks_ran_in_quantum, due, raced, fault>>

(* Mutant of TimeToWake: = instead of >=. *)
TimeToWakeExactly == CPU_TICKS = p.sleep_until_tick

TimeToWake == CPU_TICKS >= p.sleep_until_tick

(* The first loop of schedule_fcfs and schedule_rr: it looks at the slots. *)
WakeUp ==
  /\ ~fault
  /\ on_core /\ p.state = "SLEEPING"
  /\ TimeToWake
  /\ p' = [p EXCEPT !.state = "RUNNING"]
  /\ ticks_ran_in_quantum' = 0
  /\ raced' = (raced \/ step = "deadline")
  /\ UNCHANGED <<program, CPU_TICKS, step, on_core, due, fault>>

(* Step 1 of schedule_rr.  (A SLEEP that writes the state between its look *)
(* at the state and its write comes to the same as one right after it:     *)
(* Dispatch overwrites either.)                                            *)
Preempt ==
  /\ ~fault
  /\ on_core /\ p.state = "RUNNING"
  /\ ticks_ran_in_quantum >= quantum
  /\ on_core' = FALSE
  /\ p' = [p EXCEPT !.state = "READY"]
  /\ UNCHANGED <<program, CPU_TICKS, step, ticks_ran_in_quantum, due, raced, fault>>

(* Step 2: a queued process gets a slot and is RUNNING, whatever the core  *)
(* thread that still executed it has made of its state.                    *)
Dispatch ==
  /\ ~fault
  /\ ~on_core
  /\ on_core' = TRUE
  /\ p' = [p EXCEPT !.state = "RUNNING"]
  /\ ticks_ran_in_quantum' = 0
  /\ UNCHANGED <<program, CPU_TICKS, step, due, raced, fault>>

(* Mutant of Restored: the array is as long as what was saved. *)
RestoredTight(q) ==
  [q EXCEPT !.array = IF NumVar(q) > 0 THEN NumVar(q) ELSE InitialCapacity,
            !.logs = <<>>, !.has_logs = FALSE]

(* write_process_to_backing_store, then read_first_process: the struct, the *)
(* instructions and the variables come back, in an array of the capacity   *)
(* the struct names; logs is NULL.                                         *)
Restored(q) ==
  [q EXCEPT !.array = q.variables_capacity, !.logs = <<>>, !.has_logs = FALSE]

(* The victim of a swap is RUNNING.  It is queued when it has come back.   *)
(* (That it can be freed in the middle of an instruction is in Scheduler.) *)
SwapOutAndIn ==
  /\ ~fault
  /\ step = "look"
  /\ on_core /\ p.state = "RUNNING"
  /\ on_core' = FALSE
  /\ p' = Restored(p)
  /\ UNCHANGED <<program, CPU_TICKS, step, ticks_ran_in_quantum, due, raced, fault>>

Next ==
  \/ Look \/ ExecuteInstruction
  \/ Tick \/ WakeUp \/ Preempt \/ Dispatch \/ SwapOutAndIn

Spec == Init /\ [][Next]_vars

(* The clock ticks, and the waking loop and the dispatch run in each round *)
(* of the scheduler.  A core thread that has looked executes.  It looks    *)
(* again and again while the process is on its core: a process is not      *)
(* preempted before it has executed, and victims are taken 50 ticks apart. *)
FairSpec ==
  /\ Spec
  /\ SF_vars(Look) /\ WF_vars(ExecuteInstruction)
  /\ WF_vars(Tick) /\ WF_vars(WakeUp) /\ WF_vars(Dispatch)
-----------------------------------------------------------------------------
(* What a program means: the reference the code is compared with.          *)

Names == {p.variables[i].name : i \in DOMAIN p.variables}

NothingDone == [values |-> [name \in {} |-> 0], printed |-> <<>>]

Lookup(values, name) == IF name \in DOMAIN values THEN values[name] ELSE 0

Set(values, name, value) ==
  [n \in DOMAIN values \cup {name} |-> IF n = name THEN value ELSE values[n]]

Operand(values, operand) ==
  IF IsVariable(operand) THEN Lookup(values, operand.var) ELSE operand.num

(* The effect of one text on the values of the variables and the output. *)
Effect(done, text) ==
  CASE text.cmd = "DECLARE" ->
         [done EXCEPT !.values = Set(@, text.var, Clamp(text.num))]
    [] text.cmd = "ADD" ->
         [done EXCEPT !.values = Set(@, text.var,
            Clamp(Operand(@, text.left) + Operand(@, text.right)))]
    [] text.cmd = "SUBTRACT" ->
         [done EXCEPT !.values = Set(@, text.var,
            Clamp(Operand(@, text.left) - Operand(@, text.right)))]
    [] text.cmd = "PRINT" ->
         [done EXCEPT !.printed = Append(@,
            [name |-> text.var, value |-> Lookup(done.values, text.var)])]
    [] OTHER -> done

(* The effect of the first n texts.  reached[i] says whether text i is     *)
(* executed at all.                                                        *)
Meaning(reached, n) ==
  LET after[i \in 0 .. n] ==
        IF i = 0 THEN NothingDone
        ELSE IF reached[i] THEN Effect(after[i - 1], program[i])
        ELSE after[i - 1]
  IN  after[n]

AllReached == [i \in 1 .. num_inst |-> TRUE]

(* A text right behind a FOR that is reached is not. *)
ReachedByFor ==
  LET reached[i \in 1 .. num_inst] ==
        i = 1 \/ program[i - 1].cmd # "FOR" \/ ~reached[i - 1]
  IN  reached

Executed == IF p.program_counter < num_inst THEN p.program_counter ELSE num_inst

NumberOperands ==
  \E i \in 1 .. num_inst :
    /\ program[i].cmd \in {"ADD", "SUBTRACT"}
    /\ ~(IsVariable(program[i].left) /\ IsVariable(program[i].right))

Agrees(meaning) ==
  \A name \in Names \cup DOMAIN meaning.values :
    ValueOf(p, name, 0) = Lookup(meaning.values, name)
-----------------------------------------------------------------------------
(* The values the variables range over. *)
TypeOK ==
  /\ program \in GeneratedPrograms \cup ScreenPrograms
  /\ p.program_counter \in 0 .. num_inst + 1
  /\ p.state \in {"READY", "RUNNING", "SLEEPING"}
  /\ \A i \in DOMAIN p.variables : p.variables[i].value \in 0 .. ValueMax
  /\ p.variables_capacity \in Nat /\ p.array \in Nat
  /\ p.has_logs \in BOOLEAN
  /\ p.sleep_until_tick \in 0 .. DeadlineWrap - 1
  /\ CPU_TICKS \in 0 .. LastTick
  /\ step \in {"look", "fetch", "deadline"}
  /\ ticks_ran_in_quantum \in Nat /\ due \in Nat
  /\ {on_core, raced, fault} \subseteq BOOLEAN

(* The variables fit in their array and each name is there once, however   *)
(* often the array has grown and the process been stored and read back.    *)
VariablesFit ==
  /\ NumVar(p) <= p.array
  /\ p.variables_capacity <= p.array
  /\ \A i, j \in DOMAIN p.variables :
       p.variables[i].name = p.variables[j].name => i = j

(* A program without numbers as operands computes what it says, at every   *)
(* instruction and wherever it was stored and read back, but for the       *)
(* instructions right behind a FOR, which are never executed.              *)
ComputesItsMeaning ==
  ~NumberOperands => Agrees(Meaning(ReachedByFor, Executed))

(* The log holds the last PRINTs, as many as there are since the buffer    *)
(* was full, and never more than fit in it.                                *)
LogsAreTheLast ==
  p.has_logs /\ ~NumberOperands =>
    LET printed == Meaning(ReachedByFor, Executed).printed
        dropped == IF printed = <<>> THEN 0
                   ELSE ((Len(printed) - 1) \div LogCapacity) * LogCapacity
    IN  p.logs = SubSeq(printed, dropped + 1, Len(printed))

(* A process that sleeps runs on no earlier than it said, through          *)
(* preemptions, dispatches and swaps, but for three cases: it was woken    *)
(* between the two writes of SLEEP, it had been preempted before its core  *)
(* thread came to execute the SLEEP, or its deadline did not fit in 16     *)
(* bits.                                                                   *)
SleepLasts ==
  p.state = "RUNNING" /\ CPU_TICKS < due => raced \/ due >= DeadlineWrap

(* Every program comes to its end: a SLEEP ends even if its deadline did   *)
(* not fit, and no instruction is waited for forever.                      *)
EveryProgramEnds == <>(p.program_counter >= num_inst \/ fault)

(* ADD(var1, var2/value, var3/value): what is computed is what a program   *)
(* without FOR says, numbers included.                                     *)
NumbersCount ==
  (\A i \in 1 .. num_inst : program[i].cmd # "FOR")
    => Agrees(Meaning(AllReached, Executed))
=============================================================================
