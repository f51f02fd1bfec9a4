----------------------------- MODULE Scheduler ------------------------------
(***************************************************************************)
(* The emulator once it runs: the scheduler thread (scheduler_loop with    *)
(* schedule_fcfs or schedule_rr), one thread per core (core_loop), and the *)
(* commands of the CLI thread that touch the same data.                    *)
(*                                                                         *)
(* Grain.  cpu_cores_cs is held from the first loop of schedule_* to the   *)
(* end of it: the scheduler's steps between them are those with            *)
(* sched.pc \in LockedSteps, and the lock blocks of the cores, one step    *)
(* each, wait meanwhile.  Everything a core does between its lock blocks   *)
(* interleaves with the scheduler.                                         *)
(*                                                                         *)
(* Times are kept as what is left of them: sleep_left is sleep_until_tick  *)
(* - CPU_TICKS, wait_left what busy_wait_ticks still waits for.            *)
(*                                                                         *)
(* fault names the first access through a freed or a NULL pointer.  The C  *)
(* program has no defined behaviour from there on and the model stops.     *)
(***************************************************************************)
EXTENDS AddressMap, Sequences, FiniteSets

CONSTANTS
  CliProcs,     \* the processes "screen -s" creates; the others are generated
  Program,      \* process -> the kinds of its instructions, in order
  NoProc,       \* NULL
  NumCores,     \* num-cpu
  RoundRobin,   \* schedule_type
  Quantum,      \* quantum-cycles
  Delay,        \* delay-per-exec
  SleepTicks,   \* the argument of every SLEEP
  BatchFreq,    \* batch-process-freq
  MinMem,       \* min-mem-per-proc
  SwapPeriod,   \* 50 in schedule_fcfs and schedule_rr
  Reports       \* whether the user may type "report-util" and "screen -ls"

Cores == 1 .. NumCores
Kinds == {"op", "print", "sleep", "for"}

ASSUME SchedulerAssumption ==
  /\ CliProcs \subseteq Procs
  /\ Program \in [Procs -> Seq(Kinds) \ {<<>>}]
  /\ NoProc \notin Procs
  /\ NumCores \in Nat \ {0}
  /\ RoundRobin \in BOOLEAN /\ Reports \in BOOLEAN
  /\ {Quantum, Delay, SleepTicks, MinMem} \subseteq Nat
  /\ {BatchFreq, SwapPeriod} \subseteq Nat \ {0}

VARIABLES
  proc,         \* process -> the fields of its Process struct
  owner,        \* the memory: address -> process or Free
  ready_queue,
  store,        \* the processes in the backing store file, first one first
  cpu_cores,    \* core -> process or NoProc
  used,         \* the counter behind utilization
  finished,     \* finished_processes
  sched,        \* the scheduler thread: its step and its loop counter
  clock,        \* CPU_TICKS % SwapPeriod, CPU_TICKS - last_process_tick
  processes_generating,
  core,         \* core -> the state of its thread
  fault         \* "none", or the undefined access that happened

vars == <<proc, owner, ready_queue, store, cpu_cores, used, finished, sched,
          clock, processes_generating, core, fault>>

NumInst(p) == Len(Program[p])

(* ticks_ran_in_quantum is only compared with quantum: it stops counting   *)
(* two above it.                                                           *)
TicksCap == Quantum + 2

SchedSteps == {"tick", "generate", "wake", "preempt", "assign", "swap", "idle"}
LockedSteps == {"preempt", "assign", "swap", "idle"}
CoreSteps ==
  {"read", "validate", "execute", "for", "commit", "remove", "complete"}

LockFree == sched.pc \notin LockedSteps

FreeMemory == Cardinality({a \in Addresses : owner[a] = Free})

Fits(own, p) == Holes(own, MemoryAllocation[p]) # {}

(* The owner map after try_allocate_memory(p) found a block. *)
Allocated(own, p) ==
  LET holes == Holes(own, MemoryAllocation[p])
      lowest == CHOOSE base \in holes : \A other \in holes : base <= other
  IN  Taken(own, p, lowest, MemoryAllocation[p])

(* free(p): the core threads that hold p now hold a dangling pointer. *)
StructFreed(p) ==
  [c \in Cores |-> IF core[c].held = p THEN [core[c] EXCEPT !.dangling = TRUE]
                                       ELSE core[c]]

(* Mutant of Dec: unsigned arithmetic without the test. *)
DecBelowZero(n) == n - 1

Dec(n) == IF n > 0 THEN n - 1 ELSE 0
-----------------------------------------------------------------------------
NewProcess ==
  [state |-> "NEW", program_counter |-> 0, logs |-> TRUE, in_memory |-> FALSE,
   for_depth |-> 0, ticks_ran_in_quantum |-> 0, sleep_left |-> 0]

IdleThread ==
  [pc |-> "read", held |-> NoProc, dangling |-> FALSE, wait_left |-> 0,
   inst |-> "op", at |-> 0]

(* scheduler-start on an empty backing store.  With no process to generate *)
(* it is the start by the first "screen -s".                               *)
Init ==
  /\ proc = [p \in Procs |-> NewProcess]
  /\ owner = [a \in Addresses |-> Free]
  /\ ready_queue = <<>> /\ store = <<>>
  /\ cpu_cores = [c \in Cores |-> NoProc]
  /\ used = 0
  /\ finished = {}
  /\ sched = [pc |-> "tick", slot |-> 1]
  /\ clock = [phase |-> 0, since |-> 0]
  /\ processes_generating = TRUE
  /\ core = [c \in Cores |-> IdleThread]
  /\ fault = "none"

Goto(step) == sched' = [pc |-> step, slot |-> 1]

(* CPU_TICKS++ *)
Tick ==
  /\ sched.pc = "tick"
  /\ clock' = [phase |-> (clock.phase + 1) % SwapPeriod,
               since |-> IF clock.since < BatchFreq THEN clock.since + 1
                                                    ELSE clock.since]
  /\ proc' = [p \in Procs |-> [proc[p] EXCEPT !.sleep_left = Dec(@)]]
  /\ core' = [c \in Cores |-> [core[c] EXCEPT !.wait_left = Dec(@)]]
  /\ Goto("generate")
  /\ UNCHANGED <<owner, ready_queue, store, cpu_cores, used, finished,
                 processes_generating, fault>>

GenerationDue == processes_generating /\ clock.since >= BatchFreq

Generable == {p \in Procs \ CliProcs : proc[p].state = "NEW"}

(* Mutant of Submit: at the head of the queue. *)
SubmitFirst(p) ==
  /\ proc' = [proc EXCEPT ![p].state = "READY"]
  /\ ready_queue' = <<p>> \o ready_queue

(* A process is created, added to the process table and enqueued. *)
Submit(p) ==
  /\ proc' = [proc EXCEPT ![p].state = "READY"]
  /\ ready_queue' = Append(ready_queue, p)

(* scheduler_loop generates a process. *)
Generate ==
  /\ sched.pc = "generate"
  /\ GenerationDue /\ FreeMemory >= MinMem
  /\ \E p \in Generable : Submit(p)
  /\ clock' = [clock EXCEPT !.since = 0]
  /\ Goto("wake")
  /\ UNCHANGED <<owner, store, cpu_cores, used, finished,
                 processes_generating, core, fault>>

(* It does not: not due, too little free memory, or, a bound of the model, *)
(* every process of Procs has been generated.                              *)
GenerateNothing ==
  /\ sched.pc = "generate"
  /\ ~(GenerationDue /\ FreeMemory >= MinMem) \/ Generable = {}
  /\ clock' = [clock EXCEPT !.since = IF GenerationDue THEN 0 ELSE @]
  /\ Goto("wake")
  /\ UNCHANGED <<proc, owner, ready_queue, store, cpu_cores, used, finished,
                 processes_generating, core, fault>>

(* Mutant of AfterWake: schedule_rr is called for "fcfs" too. *)
AfterWakeAlwaysRR == "preempt"

AfterWake == IF RoundRobin THEN "preempt" ELSE "assign"

(* EnterCriticalSection and the first loop: wake up sleeping processes. *)
WakeSleepers ==
  LET due == {p \in Procs : /\ \E c \in Cores : cpu_cores[c] = p
                            /\ proc[p].state = "SLEEPING"
                            /\ proc[p].sleep_left = 0}
  IN  /\ sched.pc = "wake"
      /\ proc' = [p \in Procs |->
                    IF p \notin due THEN proc[p]
                    ELSE [proc[p] EXCEPT
                            !.state = "RUNNING",
                            !.ticks_ran_in_quantum = IF RoundRobin THEN 0 ELSE @]]
      /\ Goto(AfterWake)
      /\ UNCHANGED <<owner, ready_queue, store, cpu_cores, used, finished,
                     clock, processes_generating, core, fault>>

(* The next iteration of a loop over the cores, or the step after it. *)
NextSlot(after) ==
  IF sched.slot < NumCores THEN sched' = [sched EXCEPT !.slot = @ + 1]
                           ELSE Goto(after)

(* Mutant of Expired: > instead of >=. *)
ExpiredLate(p) == /\ p # NoProc
                  /\ proc[p].state = "RUNNING"
                  /\ proc[p].ticks_ran_in_quantum > Quantum

Expired(p) == /\ p # NoProc
              /\ proc[p].state = "RUNNING"
              /\ proc[p].ticks_ran_in_quantum >= Quantum

(* Mutant of Preempt: the slot is not cleared. *)
PreemptKeepingSlot ==
  LET p == cpu_cores[sched.slot]
  IN  /\ sched.pc = "preempt"
      /\ IF Expired(p)
         THEN /\ used' = used - 1
              /\ proc' = [proc EXCEPT ![p].state = "READY"]
              /\ ready_queue' = Append(ready_queue, p)
         ELSE UNCHANGED <<used, proc, ready_queue>>
      /\ NextSlot("assign")
      /\ UNCHANGED <<owner, store, cpu_cores, finished, clock,
                     processes_generating, core, fault>>

(* schedule_rr takes the process of this core off it when its quantum is   *)
(* used up.  The core thread is not told.                                  *)
Preempt ==
  LET p == cpu_cores[sched.slot]
  IN  /\ sched.pc = "preempt"
      /\ IF Expired(p)
         THEN /\ used' = used - 1
              /\ cpu_cores' = [cpu_cores EXCEPT ![sched.slot] = NoProc]
              /\ proc' = [proc EXCEPT ![p].state = "READY"]
              /\ ready_queue' = Append(ready_queue, p)
         ELSE UNCHANGED <<used, cpu_cores, proc, ready_queue>>
      /\ NextSlot("assign")
      /\ UNCHANGED <<owner, store, finished, clock, processes_generating,
                     core, fault>>

(* This core has a process, or there is none for it. *)
AssignNothing ==
  /\ sched.pc = "assign"
  /\ cpu_cores[sched.slot] # NoProc \/ ready_queue = <<>>
  /\ NextSlot("swap")
  /\ UNCHANGED <<proc, owner, ready_queue, store, cpu_cores, used, finished,
                 clock, processes_generating, core, fault>>

(* The free core gets the head of the queue, which is in memory or gets    *)
(* its memory now.                                                         *)
Dispatch ==
  LET p == Head(ready_queue)
  IN  /\ sched.pc = "assign"
      /\ cpu_cores[sched.slot] = NoProc /\ ready_queue # <<>>
      /\ proc[p].in_memory \/ Fits(owner, p)
      /\ owner' = IF proc[p].in_memory THEN owner ELSE Allocated(owner, p)
      /\ ready_queue' = Tail(ready_queue)
      /\ cpu_cores' = [cpu_cores EXCEPT ![sched.slot] = p]
      /\ used' = used + 1
      /\ proc' = [proc EXCEPT ![p].state = "RUNNING",
                              ![p].in_memory = TRUE,
                              ![p].ticks_ran_in_quantum =
                                 IF RoundRobin THEN 0 ELSE @]
      /\ NextSlot("swap")
      /\ UNCHANGED <<store, finished, clock, processes_generating, core, fault>>

(* There is no memory for the head of the queue: it goes to the store. *)
DispatchToStore ==
  LET p == Head(ready_queue)
  IN  /\ sched.pc = "assign"
      /\ cpu_cores[sched.slot] = NoProc /\ ready_queue # <<>>
      /\ ~proc[p].in_memory /\ ~Fits(owner, p)
      /\ ready_queue' = Tail(ready_queue)
      /\ store' = Append(store, p)
      /\ core' = StructFreed(p)
      /\ NextSlot("swap")
      /\ UNCHANGED <<proc, owner, cpu_cores, used, finished, clock,
                     processes_generating, fault>>

OnCoreRunning(c) == cpu_cores[c] # NoProc /\ proc[cpu_cores[c]].state = "RUNNING"

(* Mutant of Restored: in_memory = 1 is forgotten. *)
RestoredUnflagged(r) ==
  [r EXCEPT !.logs = FALSE, !.for_depth = 0, !.ticks_ran_in_quantum = 0]

(* Mutant of Restored: the process starts over. *)
RestoredFromStart(r) ==
  [r EXCEPT !.program_counter = 0, !.logs = FALSE, !.for_depth = 0,
            !.in_memory = TRUE, !.ticks_ran_in_quantum = 0]

(* What read_first_process_from_backing_store makes of a saved process,    *)
(* once it has its memory: logs is NULL from here on.                      *)
Restored(r) ==
  [r EXCEPT !.logs = FALSE, !.for_depth = 0, !.in_memory = TRUE,
            !.ticks_ran_in_quantum = 0]

(* Step 3, and its tests: every SwapPeriod ticks the first stored process  *)
(* is read; if it fits it is enqueued.                                     *)
SwapInDue == sched.pc = "swap" /\ clock.phase = 0 /\ store # <<>>

(* Mutant of SwapIn: the entry is not removed from the store. *)
SwapInKeepingEntry ==
  LET p == Head(store)
  IN  /\ SwapInDue /\ Fits(owner, p)
      /\ owner' = Allocated(owner, p)
      /\ ready_queue' = Append(ready_queue, p)
      /\ proc' = [proc EXCEPT ![p] = Restored(@)]
      /\ Goto("idle")
      /\ UNCHANGED <<store, cpu_cores, used, finished, clock,
                     processes_generating, core, fault>>

SwapIn ==
  LET p == Head(store)
  IN  /\ SwapInDue /\ Fits(owner, p)
      /\ owner' = Allocated(owner, p)
      /\ store' = Tail(store)
      /\ ready_queue' = Append(ready_queue, p)
      /\ proc' = [proc EXCEPT ![p] = Restored(@)]
      /\ Goto("idle")
      /\ UNCHANGED <<cpu_cores, used, finished, clock, processes_generating,
                     core, fault>>

(* It does not fit: the process of the lowest core that runs one is        *)
(* written to the store and its struct freed; then a second attempt.       *)
SwapOutAndIn ==
  LET p == Head(store)
  IN  /\ SwapInDue /\ ~Fits(owner, p)
      /\ \E c \in Cores :
           LET victim == cpu_cores[c]
               freed == GivenBack(owner, victim)
               saved == [proc EXCEPT ![victim].in_memory = FALSE]
           IN  /\ OnCoreRunning(c)
               /\ \A lower \in Cores : lower < c => ~OnCoreRunning(lower)
               /\ cpu_cores' = [cpu_cores EXCEPT ![c] = NoProc]
               /\ used' = used - 1
               /\ core' = StructFreed(victim)
               /\ IF Fits(freed, p)
                  THEN /\ owner' = Allocated(freed, p)
                       /\ store' = Append(Tail(store), victim)
                       /\ ready_queue' = Append(ready_queue, p)
                       /\ proc' = [saved EXCEPT ![p] = Restored(@)]
                  ELSE /\ owner' = freed
                       /\ store' = Append(store, victim)
                       /\ proc' = saved
                       /\ UNCHANGED ready_queue
      /\ Goto("idle")
      /\ UNCHANGED <<finished, clock, processes_generating, fault>>

(* Not due, nothing stored, or no victim: the copy read is dropped. *)
SwapNothing ==
  /\ sched.pc = "swap"
  /\ \/ ~SwapInDue
     \/ SwapInDue /\ ~Fits(owner, Head(store)) /\ \A c \in Cores : ~OnCoreRunning(c)
  /\ Goto("idle")
  /\ UNCHANGED <<proc, owner, ready_queue, store, cpu_cores, used, finished,
                 clock, processes_generating, core, fault>>

(* Step 4, at any tick: no core runs a process and none is ready. *)
IdleSwapInPossible ==
  /\ \A c \in Cores : ~OnCoreRunning(c)
  /\ ready_queue = <<>> /\ store # <<>>
  /\ Fits(owner, Head(store))

IdleSwapIn ==
  LET p == Head(store)
  IN  /\ sched.pc = "idle"
      /\ IdleSwapInPossible
      /\ owner' = Allocated(owner, p)
      /\ store' = Tail(store)
      /\ ready_queue' = Append(ready_queue, p)
      /\ proc' = [proc EXCEPT ![p] = Restored(@)]
      /\ Goto("tick")
      /\ UNCHANGED <<cpu_cores, used, finished, clock, processes_generating,
                     core, fault>>

IdleNothing ==
  /\ sched.pc = "idle"
  /\ ~IdleSwapInPossible
  /\ Goto("tick")
  /\ UNCHANGED <<proc, owner, ready_queue, store, cpu_cores, used, finished,
                 clock, processes_generating, core, fault>>

SchedulerStep ==
  \/ Tick \/ Generate \/ GenerateNothing \/ WakeSleepers \/ Preempt
  \/ AssignNothing \/ Dispatch \/ DispatchToStore
  \/ SwapIn \/ SwapOutAndIn \/ SwapNothing \/ IdleSwapIn \/ IdleNothing
-----------------------------------------------------------------------------
(* The threads of the cores.                                               *)

At(c, step) == core[c].pc = step

(* A lock block of core c begins: nobody else holds cpu_cores_cs. *)
AtLock(c, step) == At(c, step) /\ LockFree

(* The core reads the process of its slot and whether it is to execute it. *)
Read(c) ==
  LET p == cpu_cores[c]
  IN  /\ AtLock(c, "read")
      /\ core' = [core EXCEPT
                    ![c].held = p,
                    ![c].pc = IF OnCoreRunning(c) THEN "validate" ELSE "complete"]
      /\ UNCHANGED <<proc, owner, ready_queue, store, cpu_cores, used, finished,
                     sched, clock, processes_generating, fault>>

(* Mutant of Executable: the last instruction counts as out of bounds. *)
ExecutableTooShort(p) ==
  p \notin finished /\ proc[p].program_counter + 1 < NumInst(p)

(* p->instructions and p->variables are not NULL and the pc is not past    *)
(* the end: cleanup_process frees the two arrays of a finished process.    *)
Executable(p) ==
  p \notin finished /\ proc[p].program_counter < NumInst(p)

(* The validation outside the lock, and the start of busy_wait_ticks. *)
Validate(c) ==
  /\ At(c, "validate") /\ ~core[c].dangling
  /\ core' = IF Executable(core[c].held)
             THEN [core EXCEPT ![c].pc = "execute", ![c].wait_left = Delay]
             ELSE [core EXCEPT ![c].pc = "remove"]
  /\ UNCHANGED <<proc, owner, ready_queue, store, cpu_cores, used, finished,
                 sched, clock, processes_generating, fault>>

Instruction(c) == Program[core[c].held][proc[core[c].held].program_counter + 1]

(* The busy wait is over: execute_instruction, up to the increment of the  *)
(* pc, for an instruction that is no FOR.  A SLEEP sets the state here and *)
(* its deadline in Commit.  for_depth is only above 0 in the middle of a   *)
(* FOR of another thread, or when one of them lost it.                     *)
Execute(c) ==
  LET p == core[c].held
  IN  /\ At(c, "execute") /\ ~core[c].dangling
      /\ core[c].wait_left = 0
      /\ Executable(p) /\ proc[p].for_depth <= 0
      /\ Instruction(c) # "for"
      /\ Instruction(c) = "print" => proc[p].logs
      /\ proc' = IF Instruction(c) = "sleep"
                 THEN [proc EXCEPT ![p].state = "SLEEPING"] ELSE proc
      /\ core' = [core EXCEPT ![c].pc = "commit",
                              ![c].inst = Instruction(c),
                              ![c].at = proc[p].program_counter]
      /\ UNCHANGED <<owner, ready_queue, store, cpu_cores, used, finished,
                     sched, clock, processes_generating, fault>>

(* A FOR: its context is pushed on for_stack. *)
EnterFor(c) ==
  LET p == core[c].held
  IN  /\ At(c, "execute") /\ ~core[c].dangling
      /\ core[c].wait_left = 0
      /\ Executable(p) /\ proc[p].for_depth = 0
      /\ Instruction(c) = "for"
      /\ proc' = [proc EXCEPT ![p].for_depth = @ + 1]
      /\ core' = [core EXCEPT ![c].pc = "for",
                              ![c].inst = "for",
                              ![c].at = proc[p].program_counter]
      /\ UNCHANGED <<owner, ready_queue, store, cpu_cores, used, finished,
                     sched, clock, processes_generating, fault>>

(* The body of the FOR of a generated program is empty (see parse_for):    *)
(* the context is popped and the pc incremented.  Both are done without a  *)
(* lock: when another core changed them since, either value may be the one *)
(* that is counted from.                                                   *)
LeaveFor(c) ==
  LET p == core[c].held
  IN  /\ At(c, "for") /\ ~core[c].dangling
      /\ \E from \in {core[c].at, proc[p].program_counter},
            depth \in {1, proc[p].for_depth} :
           /\ proc' = [proc EXCEPT ![p].program_counter = from + 1,
                                   ![p].for_depth = depth - 1]
           /\ core' = [core EXCEPT ![c].pc = "commit", ![c].at = from + 1]
      /\ UNCHANGED <<owner, ready_queue, store, cpu_cores, used, finished,
                     sched, clock, processes_generating, fault>>

(* Since the validation another core has used up or finished the process:  *)
(* execute_instruction returns at once.  The tick is counted all the same. *)
CountTick(p) ==
  [proc EXCEPT ![p].ticks_ran_in_quantum = IF @ < TicksCap THEN @ + 1 ELSE @]

ExecuteNothing(c) ==
  /\ At(c, "execute") /\ ~core[c].dangling
  /\ core[c].wait_left = 0
  /\ ~Executable(core[c].held)
  /\ proc' = CountTick(core[c].held)
  /\ core' = [core EXCEPT ![c].pc = "complete"]
  /\ UNCHANGED <<owner, ready_queue, store, cpu_cores, used, finished,
                 sched, clock, processes_generating, fault>>

(* Another core is in a FOR of this process: this one takes the loop for   *)
(* its own, finds no instruction in it and none of its repetitions left,   *)
(* pops it and returns.                                                    *)
PopFor(c) ==
  LET p == core[c].held
  IN  /\ At(c, "execute") /\ ~core[c].dangling
      /\ core[c].wait_left = 0
      /\ Executable(p) /\ proc[p].for_depth > 0
      /\ proc' = [CountTick(p) EXCEPT ![p].program_counter = @ + 1,
                                      ![p].for_depth = @ - 1]
      /\ core' = [core EXCEPT ![c].pc = "complete"]
      /\ UNCHANGED <<owner, ready_queue, store, cpu_cores, used, finished,
                     sched, clock, processes_generating, fault>>

(* The end of execute_instruction and ticks_ran_in_quantum++.  The pc is   *)
(* incremented, but for a process in a loop, without a lock: when another  *)
(* core moved it since at was read, either value may be the one written    *)
(* back.                                                                   *)
Commit(c) ==
  LET p == core[c].held
  IN  /\ At(c, "commit") /\ ~core[c].dangling
      /\ \E from \in {core[c].at, proc[p].program_counter} :
           proc' = [CountTick(p) EXCEPT
                      ![p].program_counter =
                         IF proc[p].for_depth > 0 THEN @ ELSE from + 1,
                      ![p].sleep_left = IF core[c].inst = "sleep"
                                      THEN SleepTicks ELSE @]
      /\ core' = [core EXCEPT ![c].pc = "complete"]
      /\ UNCHANGED <<owner, ready_queue, store, cpu_cores, used, finished,
                     sched, clock, processes_generating, fault>>

(* Mutant of Remove: without update_cpu_util(-1). *)
RemoveUncounted(c) ==
  /\ AtLock(c, "remove") /\ ~core[c].dangling
  /\ cpu_cores' = [cpu_cores EXCEPT ![c] = NoProc]
  /\ core' = [core EXCEPT ![c].pc = "complete"]
  /\ UNCHANGED <<proc, owner, ready_queue, store, used, finished, sched, clock,
                 processes_generating, fault>>

(* "Invalid process data detected": the slot is cleared, whatever is in it *)
(* by now.                                                                 *)
Remove(c) ==
  /\ AtLock(c, "remove") /\ ~core[c].dangling
  /\ cpu_cores' = [cpu_cores EXCEPT ![c] = NoProc]
  /\ used' = used - 1
  /\ core' = [core EXCEPT ![c].pc = "complete"]
  /\ UNCHANGED <<proc, owner, ready_queue, store, finished, sched, clock,
                 processes_generating, fault>>

(* Mutant of Done: > instead of >=. *)
DoneLate(p) == /\ p # NoProc
               /\ proc[p].program_counter > NumInst(p)
               /\ proc[p].for_depth = 0

Done(p) == /\ p # NoProc
           /\ proc[p].program_counter >= NumInst(p)
           /\ proc[p].for_depth = 0

(* Mutant of Complete: the memory is not given back, nor the core counted. *)
CompleteLeaking(c) ==
  LET p == cpu_cores[c]
  IN  /\ AtLock(c, "complete")
      /\ Done(p)
      /\ proc' = [proc EXCEPT ![p].state = "FINISHED", ![p].in_memory = FALSE]
      /\ finished' = finished \cup {p}
      /\ cpu_cores' = [cpu_cores EXCEPT ![c] = NoProc]
      /\ core' = [core EXCEPT ![c] = IdleThread]
      /\ UNCHANGED <<owner, used, ready_queue, store, sched, clock,
                     processes_generating, fault>>

(* The completion block: the process of the slot is finished. *)
Complete(c) ==
  LET p == cpu_cores[c]
  IN  /\ AtLock(c, "complete")
      /\ Done(p)
      /\ proc' = [proc EXCEPT ![p].state = "FINISHED", ![p].in_memory = FALSE]
      /\ finished' = finished \cup {p}
      /\ owner' = GivenBack(owner, p)
      /\ used' = used - 1
      /\ cpu_cores' = [cpu_cores EXCEPT ![c] = NoProc]
      /\ core' = [core EXCEPT ![c] = IdleThread]
      /\ UNCHANGED <<ready_queue, store, sched, clock, processes_generating,
                     fault>>

(* There is nothing to finish.  The local pointer is dead in both cases. *)
NotComplete(c) ==
  /\ AtLock(c, "complete")
  /\ ~Done(cpu_cores[c])
  /\ core' = [core EXCEPT ![c] = IdleThread]
  /\ UNCHANGED <<proc, owner, ready_queue, store, cpu_cores, used, finished,
                 sched, clock, processes_generating, fault>>

(* The core follows its pointer p after the scheduler freed the struct, or *)
(* another core freed the arrays of p in the middle of its instruction.    *)
UseAfterFree(c) ==
  /\ \/ /\ core[c].dangling
        /\ \/ core[c].pc \in {"validate", "for", "commit"}
           \/ At(c, "execute") /\ core[c].wait_left = 0
           \/ AtLock(c, "remove")
     \/ core[c].pc \in {"for", "commit"} /\ core[c].held \in finished
  /\ fault' = "use after free"
  /\ UNCHANGED <<proc, owner, ready_queue, store, cpu_cores, used, finished,
                 sched, clock, processes_generating, core>>

(* PRINT writes to logs[num_logs], and logs is NULL. *)
PrintToNull(c) ==
  /\ At(c, "execute") /\ ~core[c].dangling /\ core[c].wait_left = 0
  /\ Executable(core[c].held) /\ proc[core[c].held].for_depth <= 0
  /\ Instruction(c) = "print" /\ ~proc[core[c].held].logs
  /\ fault' = "null logs"
  /\ UNCHANGED <<proc, owner, ready_queue, store, cpu_cores, used, finished,
                 sched, clock, processes_generating, core>>

(* FOR writes to for_stack[for_depth], and for_depth is below 0: the loop   *)
(* of another FOR was popped by two threads.                               *)
PushBelowStack(c) ==
  /\ At(c, "execute") /\ ~core[c].dangling /\ core[c].wait_left = 0
  /\ Executable(core[c].held) /\ proc[core[c].held].for_depth < 0
  /\ Instruction(c) = "for"
  /\ fault' = "outside for_stack"
  /\ UNCHANGED <<proc, owner, ready_queue, store, cpu_cores, used, finished,
                 sched, clock, processes_generating, core>>

CoreLockStep(c) == Read(c) \/ Remove(c) \/ Complete(c) \/ NotComplete(c)

CoreRunStep(c) ==
  \/ Validate(c) \/ Execute(c) \/ EnterFor(c) \/ LeaveFor(c) \/ PopFor(c)
  \/ ExecuteNothing(c) \/ Commit(c)
  \/ UseAfterFree(c) \/ PrintToNull(c) \/ PushBelowStack(c)
-----------------------------------------------------------------------------
(* The CLI thread.                                                         *)

(* "screen -s": creates and enqueues a process, at any time, whatever the  *)
(* scheduler thread is doing.                                              *)
screen_start(p) ==
  /\ p \in CliProcs
  /\ proc[p].state = "NEW"
  /\ Submit(p)
  /\ UNCHANGED <<owner, store, cpu_cores, used, finished, sched, clock,
                 processes_generating, core, fault>>

(* "scheduler-stop" *)
stop_scheduler ==
  /\ processes_generating
  /\ processes_generating' = FALSE
  /\ UNCHANGED <<proc, owner, ready_queue, store, cpu_cores, used, finished,
                 sched, clock, core, fault>>

(* "report-util", without the lock: a process on core c whose pc is past   *)
(* the end gets it moved back to its last instruction.                     *)
report_utilization(c) ==
  LET p == cpu_cores[c]
  IN  /\ Reports
      /\ p # NoProc /\ proc[p].program_counter >= NumInst(p)
      /\ proc' = [proc EXCEPT ![p].program_counter = NumInst(p) - 1]
      /\ UNCHANGED <<owner, ready_queue, store, cpu_cores, used, finished,
                     sched, clock, processes_generating, core, fault>>

(* "screen -ls", and "report-util" again: the pc of a finished process that *)
(* a FOR took past the end is moved to the end.                            *)
screen_list(p) ==
  /\ Reports
  /\ p \in finished /\ proc[p].program_counter > NumInst(p)
  /\ proc' = [proc EXCEPT ![p].program_counter = NumInst(p)]
  /\ UNCHANGED <<owner, ready_queue, store, cpu_cores, used, finished,
                 sched, clock, processes_generating, core, fault>>

CliStep ==
  \/ \E p \in Procs : screen_start(p) \/ screen_list(p)
  \/ stop_scheduler
  \/ \E c \in Cores : report_utilization(c)

Next ==
  /\ fault = "none"
  /\ \/ SchedulerStep
     \/ \E c \in Cores : CoreLockStep(c) \/ CoreRunStep(c)
     \/ CliStep

(* The threads keep running.  The scheduler thread sleeps 1 ms outside the *)
(* lock in each round, so a core that waits for the lock gets it: strong   *)
(* fairness for the cores.  Nothing makes the user type a command.         *)
CoreStep(c) == CoreLockStep(c) \/ CoreRunStep(c)

Fairness ==
  /\ WF_vars(fault = "none" /\ SchedulerStep)
  /\ \A c \in Cores : SF_vars(fault = "none" /\ CoreStep(c))

Spec == Init /\ [][Next]_vars

FairSpec == Spec /\ Fairness
-----------------------------------------------------------------------------
ProcessStruct ==
  [state : {"NEW", "READY", "RUNNING", "SLEEPING", "FINISHED"},
   program_counter : Nat, for_depth : Int, logs : BOOLEAN, in_memory : BOOLEAN,
   ticks_ran_in_quantum : 0 .. TicksCap, sleep_left : 0 .. SleepTicks]

CoreThread ==
  [pc : CoreSteps, held : Procs \cup {NoProc}, dangling : BOOLEAN,
   wait_left : 0 .. Delay, inst : Kinds, at : Nat]

(* The values the variables range over. *)
TypeOK ==
  /\ proc \in [Procs -> ProcessStruct]
  /\ owner \in [Addresses -> Procs \cup {Free}]
  /\ ready_queue \in Seq(Procs) /\ store \in Seq(Procs)
  /\ cpu_cores \in [Cores -> Procs \cup {NoProc}]
  /\ used \in Int
  /\ finished \subseteq Procs
  /\ sched \in [pc : SchedSteps, slot : Cores]
  /\ clock \in [phase : 0 .. SwapPeriod - 1, since : 0 .. BatchFreq]
  /\ processes_generating \in BOOLEAN
  /\ core \in [Cores -> CoreThread]
  /\ \A c \in Cores :
       core[c].pc \in {"validate", "execute", "for", "commit", "remove"}
         => core[c].held # NoProc
  /\ fault \in {"none", "use after free", "null logs", "outside for_stack"}

InQueue(p) == \E i \in DOMAIN ready_queue : ready_queue[i] = p
InStore(p) == \E i \in DOMAIN store : store[i] = p
OnCore(p) == \E c \in Cores : cpu_cores[c] = p

NoRepeat(s) == \A i, j \in DOMAIN s : s[i] = s[j] => i = j

(* However the threads interleave, a process is never in two places: not   *)
(* twice in the queue, on two cores, or finished and still queued.         *)
OnePlace ==
  /\ NoRepeat(ready_queue) /\ NoRepeat(store)
  /\ \A c, d \in Cores : cpu_cores[c] = cpu_cores[d] => c = d \/ cpu_cores[c] = NoProc
  /\ \A p \in Procs :
       /\ InQueue(p) => ~InStore(p) /\ ~OnCore(p)
       /\ InStore(p) => ~OnCore(p)
       /\ p \in finished => ~InQueue(p) /\ ~InStore(p) /\ ~OnCore(p)

(* A process that was created is queued, stored, on a core or finished:    *)
(* the scheduler does not drop it ("Invalid process data" is an error).    *)
NoneLost ==
  \A p \in Procs :
    proc[p].state # "NEW" => InQueue(p) \/ InStore(p) \/ OnCore(p) \/ p \in finished

(* The owner map and the in_memory flags agree: a process with the flag    *)
(* has one run of the length it asked for, one without it has nothing.     *)
(* A process on a core has memory; one stored or finished has none.        *)
MemoryAgrees ==
  \A p \in Procs :
    /\ IF proc[p].in_memory
       THEN \E base \in Addresses :
              /\ Run(base, MemoryAllocation[p]) \subseteq Addresses
              /\ \A a \in Addresses :
                   owner[a] = p <=> a \in Run(base, MemoryAllocation[p])
       ELSE ~Resident(owner, p)
    /\ OnCore(p) => proc[p].in_memory
    /\ InStore(p) \/ p \in finished => ~proc[p].in_memory

(* used counts the cores that have a process. *)
UsedCountsCores == used = Cardinality({c \in Cores : cpu_cores[c] # NoProc})

(* A core thread between its lock blocks works on the process of its slot, *)
(* so no process is executed by two threads or while it is queued.         *)
ExecutesItsSlot ==
  \A c \in Cores : core[c].pc \in {"validate", "execute", "for", "commit", "remove"}
                     => cpu_cores[c] = core[c].held

(* No thread uses a Process struct that was freed. *)
NoUseAfterFree == fault # "use after free"

(* With one core, a process is taken off it before it has executed more    *)
(* than its quantum if an instruction takes two ticks, and one instruction *)
(* later if it takes one: the scheduler looks once per tick.               *)
QuantumRespected ==
  \A c \in Cores :
    cpu_cores[c] # NoProc =>
      proc[cpu_cores[c]].ticks_ran_in_quantum
        <= IF Delay >= 2 THEN Quantum ELSE Quantum + 1

(* No instruction is gone back to: program counters only grow. *)
PcNeverGoesBack ==
  [][\A p \in Procs : proc'[p].program_counter >= proc[p].program_counter]_vars

(* A process in the backing store is swapped in some time, but for the     *)
(* memory that a removed "invalid" process keeps: as long as none was      *)
(* removed, swapping starves nobody when everybody fits.                   *)
StoreDrains ==
  \A p \in Procs : InStore(p) ~> ~InStore(p) \/ fault # "none" \/ ~NoneLost

(* Under fcfs, with memory for everyone, the two kinds of threads implement *)
(* the service: a process is what its place says, and a pc that a FOR took  *)
(* past the end has nothing left to do.                                     *)
Service ==
  INSTANCE FcfsService WITH
    Length <- [p \in Procs |-> NumInst(p)],
    waiting <- ready_queue,
    running <- {p \in Procs : OnCore(p)},
    progress <- [p \in Procs |->
                   IF proc[p].program_counter < NumInst(p)
                   THEN proc[p].program_counter ELSE NumInst(p)],
    done <- finished

ImplementsFcfs == Service!Spec

(* Every process that is created finishes. *)
EveryProcessFinishes ==
  \A p \in Procs : proc[p].state = "READY" ~> p \in finished
=============================================================================
