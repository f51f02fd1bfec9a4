# destroy_opesy in TLA+

The program is a process-scheduler emulator for Windows, in C: a command line,
a scheduler thread, one thread per emulated CPU core, an emulated memory with a
first-fit allocator, and a file that serves as backing store. Its difficulty is
that four kinds of threads and a file share the same process structs, and only
part of that sharing is protected by the one lock that matters, `cpu_cores_cs`.

This directory holds a model of that core, TLC runs that check it on small
instances, and theorems checked by TLAPS that hold for every instance.

- [The system](#the-system): inventory of the components
- [The modules](#the-modules): how state and actions correspond to the code
- [The runs](#the-runs): what each shows, with its bounds
- [Fairness](#fairness)
- [Where code and stated intent disagree](#where-code-and-stated-intent-disagree)
- [The proofs](#the-proofs)
- [What is not modelled](#what-is-not-modelled)
- [Plan](#plan)

## The system

All paths are relative to the repository's `src/` (the build compiles
`src/src/*.c`).

| Component | State | Operations | Interacts with |
|---|---|---|---|
| **Scheduler thread**, `scheduler.c` | `CPU_TICKS`, `last_process_tick`, `processes_generating`, `quantum`, `used` | `scheduler_loop`, `schedule_fcfs`, `schedule_rr` | queue, slots, allocator, store; writes the structs of running processes |
| **Core threads**, `scheduler.c` | `cpu_cores[]`, a local pointer `p` each | `core_loop`, `busy_wait_ticks`, completion | executes a process outside the lock; finishes it inside |
| **Ready queue**, `scheduler.c` | ring `items`, `capacity`, `size`, `head`, `tail` | `enqueue_ready`, `dequeue_ready` | scheduler thread (under the lock or not) and CLI thread (no lock) |
| **Block allocator**, `memory.c`, `scheduler.c` | list from `memory_head`, `memory.free_memory`, `num_processes_in_memory` | `try_allocate_memory`, `free_process_memory`, `merge_adjacent_free_blocks`, `update_free_memory` | called under the lock; `vmstat` recomputes the counters without it |
| **Backing store**, `backing_store.c` | `csopesy-backing-store.txt`, which outlives the program | append, read first, remove first (truncate and rewrite) | scheduler thread |
| **Interpreter**, `process.c` | the `Process` struct: state, `program_counter`, variables, logs, deadline, FOR stack | `execute_instruction` | core threads |
| **Generator and parsers**, `process.c` | `next_pid` | `generate_dummy_process`, `parse_*` | scheduler thread, CLI |
| **Screens**, `screen.c` | `process_table`, `process_count` | `screen_start`, `screen_resume`, `screen_list`, `screen_create_with_code`, `report_utilization` | enqueue; `report_utilization` and `screen_list` also write program counters |
| **Command line**, `cli.c` | `initialized` | `initialize`, `scheduler-start`, `scheduler-stop`, `exit` | starts the threads, any number of times |
| **Configuration**, `config.c` | `Config` | `load_config` | read by everything |
| **Memory reports**, `memory.c`, `stats.c` | `stats` | `vmstat`, `process_smi` | reads everything without a lock |

What makes these parts hard, and what correctness means for each:

- *Scheduler and cores.* A core copies the pointer in its slot under the lock,
  then validates, waits and executes outside it, and looks at the slot again
  under the lock. In between the scheduler may preempt the process, give it to
  another core, or swap it out and free it. Correct means: no process is in two
  places, none is dropped, the thread of a core works on the process of its
  slot, nobody touches a freed struct, program counters do not go back,
  quanta and sleeps are respected, `used` counts the cores in use, and every
  process finishes.
- *Memory and swapping.* The owner map, the `in_memory` flags and the places of
  the processes change in different statements. Correct means that they agree
  at every lock release, that freed neighbours become one block, and that a
  stored process gets back into memory.
- *Ready queue.* A wrapped ring must keep its order when it grows, and two
  threads must not overwrite each other's entries. Correct means that it is the
  FIFO its header promises.
- *Backing store.* It is rewritten in place and survives the session. Correct
  means that it is a queue, that `exit` inside a write is the only way to damage it,
  and that no process is in the file and somewhere else.
- *Interpreter.* Unlocked writes of state, deadline and program counter; a
  16-bit deadline compared with a 64-bit clock; arrays that move while pointers
  into them are held. Correct means that a program computes what it says.
- *CLI.* The order of commands: starting twice, `screen -s` before
  `scheduler-start`, duplicate names and pids.

The full list of hazards, each with its line and the properties that cover it
(or why none does yet), is in `PROJECT.json`.

## The modules

```
AddressMap ──► AddressSpace ◄── (implements) ── MemoryBlocks ◄── MCMemoryBlocks
     │                                              ▲
     │                                              └── MemoryBlocksProofs
     └───────► Scheduler ── (implements, fcfs) ──► FcfsService
                 ▲   ▲
                 │   └── MCScheduler
                 └── SchedulerProofs ◄── SchedulerPlaces ◄── FcfsProofs

Fifo ◄── (implements) ── ReadyQueue ◄── MCReadyQueue
                             ▲
                             └── ReadyQueueProofs

Instructions ──► Interpreter ◄── MCInterpreter
                      ▲
                      └── InterpreterProofs

BackingStore ──► Sessions ── (implements, but for damage) ──► DurableFifo
                    ▲
                    └── SessionsProofs

FiniteSums: lemmas used by MemoryBlocksProofs, SchedulerPlaces,
            InterpreterProofs and SessionsProofs
```

Definitions keep the names of the code where there is one. Operators called
"Mutant of X" are plausible mistakes in X; no specification uses them. They
serve to confirm that each property notices one.

### AddressMap, AddressSpace, MemoryBlocks: the allocator

`AddressSpace` is what the callers rely on: addresses have at most one owner, an
allocation takes the lowest hole that is long enough and is refused only when
there is none. `MemoryBlocks` is the code: `blocks` is the list that starts at
`memory_head`; `try_allocate_memory` walks to the first free block that is long
enough and splits it when it is longer; `free_process_memory` frees the first
block with the process's pid and starts `merge_adjacent_free_blocks`, whose loop
is a step per iteration (`MergeNext` or `Advance`); `EndMerge` is the recount of
`update_free_memory` that ends every release. `curr` is the cursor of the merge
loop. The callers hold the lock, so operations do not overlap.

`RefinesAddressSpace` maps the list to the owner map. The merge steps stutter,
and a refusal must be a refusal of the abstract allocator, so it fails if a
process is refused although contiguous memory is free: that is what coalescing
is for.

`AddressMap` holds the operators on owner maps; `Scheduler` uses the same owner
map for its memory, which the refinement justifies.

### Fifo, ReadyQueue: the ready queue

`ReadyQueue` has the fields of the struct and one step per statement of
`enqueue_ready` (`Enqueue` the comparison, `Copy` and `Install` the doubling,
`Put`, `Advance`, `Count`) and `dequeue_ready` (`Dequeue`, `Drop`, `Uncount`), on
two threads. `Overlapping` says whether calls of the two threads may overlap.
They may in the code: the lock around the call in `screen_start` is commented
out. Without overlap the ring implements `Fifo`; an entry counts from `size++`
to `size--`. `Scheduler` uses the queue of `Fifo`.

### Scheduler: the threads

`Scheduler` composes the scheduler thread, the core threads and the commands of
the CLI that interfere with them, over the owner map, the queue and the store.

| Variable | Code |
|---|---|
| `proc` | the fields of each `Process` struct that control depends on |
| `owner` | the allocator's blocks |
| `ready_queue`, `store` | the ring, the file, as sequences of processes |
| `cpu_cores`, `used`, `finished` | `cpu_cores[]`, `used`, `finished_processes` |
| `sched` | which part of the scheduler's round comes next, and the loop counter |
| `clock` | `CPU_TICKS % SwapPeriod` and `CPU_TICKS - last_process_tick` |
| `processes_generating` | the flag `scheduler-stop` clears |
| `core` | per core thread: its place, local `p`, remaining wait, and what it has read of the instruction |
| `fault` | the first access through a freed or NULL pointer |

One round of the scheduler thread:

| Action | Code |
|---|---|
| `Tick` | `CPU_TICKS++` |
| `Generate`, `GenerateNothing` | the generation block of `scheduler_loop` |
| `WakeSleepers` | `EnterCriticalSection` and the first loop of `schedule_*` |
| `Preempt` (per core, rr only) | the quantum loop of `schedule_rr` |
| `AssignNothing`, `Dispatch`, `DispatchToStore` (per core) | the assignment loop |
| `SwapIn`, `SwapOutAndIn`, `SwapNothing` | the periodic swap |
| `IdleSwapIn`, `IdleNothing` | step 4, and `LeaveCriticalSection` |

One round of a core thread: `Read` (first lock block), `Validate`, the wait,
the instruction, or else `Remove` (second lock block), then `Complete` or
`NotComplete` (third lock block). The instruction is `Execute` and `Commit`, which
split `execute_instruction` before the increment of the program counter, because
that is where its unlocked writes are: a SLEEP writes the state in the first and
the deadline in the second, and two threads in `Commit` may lose an increment. A
FOR is `EnterFor`, which pushes its context, `LeaveFor`, which pops it and
increments the program counter, and `Commit`. `PopFor` is a second thread that
executes the process meanwhile: it takes the loop for its own and pops it too.
`ExecuteNothing` finds the program at its end.

A FOR written by the generator has an empty body, and `parse_for` gives it a
`repeat_count` of 1, so nothing of it is repeated: `remaining` is 0, and a second
thread that meets it always pops it. When both pop, `for_depth` is -1: the process
is never found finished, and its next FOR writes to `for_stack[-1]`, which is
`fault` (`PushBelowStack`). The test of `for_depth` and the `++` or `--` after it are
one step.

The scheduler holds the lock from `WakeSleepers` to `IdleSwapIn` or
`IdleNothing`. It is several steps there, and the cores' lock blocks wait; what
the cores do outside the lock interleaves with each of them.

`FcfsService` is what all of this amounts to under `fcfs` when the memory is
enough: processes start in the order they arrive, at most one per core, advance
one step at a time only while they run, and leave right after their last
instruction. `ImplementsFcfs` maps the queue to who waits, the slots to who runs,
and the program counters to the progress. It fails if two threads execute one
process, if a process is dropped, queued twice or overtaken.

Abstractions, and why they lose nothing the properties need:

- Processes are their own pids. Two processes with one pid are the subject of
  `Sessions`.
- A program is a sequence of kinds of instructions: `sleep`, `print` (needs
  `logs`), `for` and `op` (everything else); what they compute is in
  `Interpreter`. The case FOR of `execute_instruction` adds 1 to the program
  counter and its end adds 1 again, which the model does, the second past the end
  when the FOR comes last.
- Deadlines are kept as the ticks left. The 16-bit wrap of
  `sleep_until_tick` is therefore not seen here; `Interpreter` has it.
- The backing store is the queue of the processes in it; `Sessions` has the file.
- `enqueue_ready` is one step, on the CLI thread as well; `ReadyQueue` shows what it
  takes for that to be so, and the run `ready_queue_overlap` that `screen_start` does
  not provide it. What `Scheduler` shows of processes of `screen -s` holds as long as
  their calls do not overlap one of the scheduler thread.
- `report_utilization` and `screen_list` matter only by their writes to `program_counter`.
- The first undefined access sets `fault` and the behaviour ends: what the C
  program does from there is not defined.
- The counters that only `vmstat` prints (`idle_ticks`, `active_ticks`,
  `num_paged_in`, ...) are left out, and with them the last lock block of the
  scheduler's round.
- The tests for NULL arrays in `Dispatch` are left out: only `cleanup_process`
  frees arrays of a process that still exists, and a finished process is never
  in the queue (`OnePlace`, proved).

### Instructions, Interpreter: what a program does

`Instructions` has the texts that `generate_dummy_process` and `screen_start`
print, as records (`generate_dummy_process(i)` and `screen_start(i)` are the sets of
texts possible for instruction `i`, one element for each outcome of `rand()`), and
what the parsers make of them: `parse_declare`, `parse_add_sub`, `parse_print`,
`parse_sleep`, `parse_for`, `Clamp` (`CLAMP_UINT16`).

`Interpreter` runs one process.

| Variable or action | Code |
|---|---|
| `p` | the `Process` struct; `array` is the length of the allocated `variables`, which the struct does not know |
| `on_core` | whether a slot has the process; if not, it is queued |
| `get_variable`, `resolve_value` | the functions, with the doubling of the array and its limit |
| `Look` | the first lock block of `core_loop`, which finds the process RUNNING |
| `Declare`, `Compute`, `PrintVariable`, `PrintToNull`, `For` | the cases of `execute_instruction`, each with the increment of the program counter at its end; outside the lock, whatever has become of the state |
| `Sleep`, `SleepUntil` | the two writes of SLEEP |
| `Tick`, `WakeUp` | `CPU_TICKS++` and the first loop of `schedule_*` |
| `Preempt`, `Dispatch` | what `schedule_rr` does to the state of a process when it takes it off its core and when it gives it one again: RUNNING, over a SLEEPING written in between |
| `SwapOutAndIn` | `write_process_to_backing_store`, then `read_first_process_from_backing_store` and `enqueue_ready`, at any point where the process is a possible victim |

`Meaning` is the reference: a fold of `Effect` over the texts, with values in a
function from names to numbers, no arrays, no pointers and no clock. `program`,
`due` and `raced` are not in the struct; they are what properties speak about (the
text, when the last SLEEP should end, whether it was woken between its two writes
or had been queued before it was executed).

One thread at a time executes the process. Several cores may, in round robin;
what that does to program counter, state and `for_depth` is in `Scheduler`, what
it does to variables is not modelled.

Not there: the branches for FOR with a body, READ and WRITE. The generator's FOR
is written so that `parse_for` finds neither body nor repeat count, and programs
of `screen -c`, which can contain the rest, are never enqueued. That a victim may
be freed in the middle of an instruction is in `Scheduler`.

### DurableFifo, BackingStore, Sessions: the file, the commands, the restarts

`BackingStore` is the file as a sequence of cells (struct, instructions, variables
if any) and the operation under way. Each `fwrite` is a step: `BeginAppend`,
`AppendCell`; `BeginRemove`, `Truncate`, `Rewrite`. `ReadsEntry`, `ReadsNothing` and
`ReadsGarbage` are the three outcomes of reading the first process; `StoreEnds` is
the end of the program at any point. `DurableFifo` is what the scheduler relies on: a
queue that restarts do not change. It allows anything once there was damage,
which the ghost `torn` records: the program ended inside an entry, or between
truncation and rewriting. `Stored`, the queue the file stands for, is what `Complete`
finds in the cells: a process is in it with the last cell of its entry.

`Sessions` composes the file with the CLI and the scheduler over several runs of
the program.

| Action | Code |
|---|---|
| `initialize`, `scheduler_start`, `stop_scheduler`, `exit` | the commands, in any order |
| `ScreenStart`, `ScreenPid`, `ScreenAdd` | `screen_start`: search for the name and read of `next_pid`; its write, start of the scheduler, read of `num_processes`; table and queue |
| `screen_create_with_code`, `ScreenCreateAdd` | `screen -c`: search for the name and read of `num_processes`; the write of the table |
| `ReadFreedName` | the search of `screen -s`, `-c` or `-r` that comes to a freed struct |
| `GenerateRead`, `GeneratePid`, `GenerateAdd` | the same parts of `generate_dummy_process` and `add_process`, on the scheduler thread |
| `Dispatch`, `DispatchToStore`, `FreeStored`, `Preempt` | assignment loop and quantum loop |
| `SwapIn`, `SwapOut`, `SwapOver`, `EndRemove` | the swap around the writes of the file |
| `WriteStore` | the next write |
| `Finish`, `FinishForeign` | the completion block, for a process of this session and of an earlier one |
| `Remove` | the removal of a process a core finds invalid: it keeps its block, and only the process table knows it |

`blocks` is the set of occupied blocks, each with base, size and pid;
`try_allocate_memory` takes the lowest hole that is long enough (`Holes`,
`Allocated`), as `MemoryBlocks` shows it does, and `free_process_memory` releases
the first block with the pid (`Released`).

Abstractions: each process has an `id` (session and number) the code does not have,
so that two with one pid can be told apart. The parts of a scheduler round come in
any order, programs end at any time and a core may find any process invalid, which
is more than `Scheduler` allows; what `Scheduler` allows beyond `Sessions` is a core
that executes a struct the scheduler has freed. `removed` is not in the code; it
holds the processes of `Remove`. A victim of a swap has variables if it has
executed, a process that never ran has none. `enqueue_ready` is one step. Behaviour
is not followed after a second start of the scheduler (two scheduler threads
without mutual exclusion), after a read of a freed name or of garbage, and after a
process of an earlier session finishes, because `cleanup_process` then frees a
pointer into that session's heap. The process table does not grow beyond its
first capacity.

## The runs

State counts are distinct states. With two workers the passing runs end in seconds,
but for `fcfs` (half a minute) and `interpreter`, `sessions`, `rr` and `fcfs_swap` (one
and a half to three minutes each).

| Run | Instance | States | Shows |
|---|---|---|---|
| `memory_blocks` | memory of 6, processes of 1, 2, 2, 3 | 11 603 | the list tiles the memory (`Tiling`), has no two free neighbours outside a merge (`Coalesced`), blocks and struct fields agree (`Ownership`), counters are exact, the merge ends, and it refines `AddressSpace` |
| `ready_queue` | 4 processes, first capacity 1, calls do not overlap | 37 685 | `RingShape`; the ring refines `Fifo` |
| `fcfs` | 3 processes, 2 cores, memory for all, with fairness | 110 838 | `ImplementsFcfs`, `NoneLost`, `ExecutesItsSlot`, `EveryProcessFinishes` |
| `fcfs_swap` | 3 processes of one instruction, 2 cores, memory for half of them, with fairness | 555 850 | `OnePlace`, `MemoryAgrees`, `UsedCountsCores`, `PcNeverGoesBack` up to a fault; `StoreDrains`: swapping starves nobody as long as no process was dropped |
| `rr` | 2 processes, one with two FORs, 2 cores, quantum 2, reports and `screen -ls` | 4 387 964 | `TypeOK`, `OnePlace`, `MemoryAgrees` although two cores may execute one process, pop one loop twice, and clear a slot that was refilled |
| `rr_one_core` | the same, 1 core, 2 ticks per instruction, no reports | 15 670 | `QuantumRespected`, `UsedCountsCores` |
| `interpreter` | every generated program of 3 instructions and every `screen -s` program of 4, values up to 3, first array of 1, log of 1, 2-bit deadlines, quantum 1, with fairness | 526 124 | `ComputesItsMeaning`, `LogsAreTheLast`, `VariablesFit` wherever the process is preempted, dispatched, stored and read back; `SleepLasts` but for two races and the wrap; `EveryProgramEnds` |
| `sessions` | 2 sessions, 3 processes, one name typed by the user (which is also a generated one), 1 core, memory of 8, sizes 4 and 8 for the user's and 3 for the generated | 3 394 068 | `PidsDiffer`, `OwnBlocks`, `OncePlaced`, `Accounted`, `TableLists`, `FreedWhenShort`, each with the cases in which the code does not keep it; `GarbageOnlyIfTorn`; the file refines `DurableFifo` |

The runs expected to find a violation are described
[below](#where-code-and-stated-intent-disagree).

Which property is checked where follows from what the code guarantees: with
memory for everyone, FCFS never takes a process off a core, so everything
holds; with swapping a process may be freed under a core; with round robin on two
cores two threads may execute one process. `OnePlace` and `MemoryAgrees` survive
all of that.

Bounds and why they are enough:

- *Two cores* give every race between two cores, and between a core and the
  scheduler; a third adds no new pair. *Three processes* leave one waiting or
  stored while two run. The instances contain every kind of instruction, the FOR
  that passes the end included.
- *Memory of 1, 2 or 4 units* against processes of 1 and 2 in `Scheduler`: everyone
  fits, some fit, or one does. The allocator itself is checked with 6 units and with the
  sizes that make splits, exact fits and fragmentation; where the blocks lie does
  not matter to the scheduler beyond that.
- *`SwapPeriod` 2* for the 50 of the code: the periodic swap happens in some
  rounds and not in others. *`BatchFreq`, `Delay`, `SleepTicks`* of 1 or 2: the
  timer can expire before or after the next lock block, which is all that
  matters.
- *Values up to 3, 2-bit deadlines, arrays and logs of 1* in `Interpreter`: with one
  literal 2, sums clamp above and differences below; the clock passes the wrap; the
  array doubles twice within a program; every second PRINT empties the log. Three
  instructions are enough for a FOR, what it skips and what follows.
- *Memory of 8* in `sessions`, for sizes 3, 4 and 8: the second of two blocks of 3 leaves
  holes of 3 and 2 in which 4 do not fit, so it matters where blocks lie
  (`FreedWhenShort` is false if memory is counted instead); a process of 8 is in the way
  of every other, so that two entries are written to the file in one session and a third
  in the next. *`MayReset`*: in
  `sessions` the memory is initialised only while it is empty. `initialize` on memory in
  use makes the instance four times as large and is left to the theorems, which hold
  for it, too.
- *`LastTick` 3* and *quantum 1* in `Interpreter`: the clock ends where the 2-bit
  deadline has wrapped, and a process can be preempted after every instruction.
- *Two sessions and three processes* in `Sessions`: one process of the first session
  may be left in the store while the second one creates another with its pid and
  stores a third. More sessions repeat the second.
- *`TicksCap`*: `ticks_ran_in_quantum` stops counting at `Quantum` + 2, since it is
  only compared with `Quantum`. *`clock.since`* stops at `BatchFreq` likewise.
- *A finite set of processes* stands for a generator that may go on forever:
  generation ends when all are used.
- *First capacity 1* instead of 16 in `ReadyQueue`: four processes make the ring
  double twice and wrap at each capacity.

Deadlock is checked except where the system may stop: in the runs that can reach
a fault or the end of what is followed (`fcfs_swap`, `rr`, `interpreter`,
`sessions`) and in those that look for a violation.

## Fairness

`FairSpec` assumes weak fairness of the scheduler thread and strong fairness of
each core thread, and none of the CLI.

A Windows thread that can run eventually does. The scheduler thread never waits
for anything but the lock. A core outside its lock blocks can always go on once
its wait is over, so strong and weak fairness are the same there. For its lock
blocks weak fairness would not be enough, because the lock is taken again and
again; strong fairness is justified by the scheduler thread's `Sleep(1)` outside
the lock in every round, in which a waiting core gets it. Nothing makes the user
type a command, so no property relies on one.

`Interpreter!FairSpec` is the same assumption seen from one process: weak fairness of
the clock, of the waking loop and of the dispatch, which run in each round of the
scheduler thread, and of an instruction a core thread has come to. `Look` has strong
fairness: the process may be taken off its core again and again before the core
looks at it, but only by a swap, since a process is not preempted before it has
executed something, and swaps are 50 ticks apart, in which the core looks many
times. Nothing is assumed of preemption and swapping. `Sessions` states no fairness and no liveness: `exit` may end
everything at any time.

## Where code and stated intent disagree

Each is a run that TLC ends with a counterexample. The quotes and lines are in
`PROJECT.json` under "findings".

| Run | Property | What happens |
|---|---|---|
| `interpreter_numbers` | `NumbersCount` | `ADD(v0, v0, 2)` adds 0: the parser puts the number where the interpreter does not look |
| `scheduler_restart` | `StartKeepsProcesses` | `scheduler-start` after `screen -s`, or again after `scheduler-stop`, starts on an empty queue and an empty memory: what was queued is never executed |
| `swap_frees_running` | `NoUseAfterFree` | the victim's struct is freed while its core is executing it |
| `ready_queue_overlap` | `NothingLost` | `screen -s` and the scheduler enqueue at once and one process is overwritten |

Other weaknesses show in the passing properties, as the cases they must exclude.
Each exclusion is necessary: without it TLC finds a counterexample (for those of
`OwnBlocks` and `FreedWhenShort` that are about `initialize` with `MayReset`, for the
overlap in `FreedWhenShort` with one process more).

- `StoreDrains` excludes `~NoneLost`: a process swapped out after its last
  instruction comes back, is dropped as "Invalid process data", and keeps its
  memory; what is stored may wait for it forever.
- `NoneLost` is checked in `fcfs` only: in round robin a process whose quantum ends
  with its last instruction is queued again, dispatched, and dropped likewise.
  `Accounted` counts such a process as `removed`, in `Sessions`.
- `UsedCountsCores` is checked with one core: in round robin on two, the removal
  decrements the counter for a slot the scheduler has already emptied. With a quantum
  of 0 TLC finds the same on one core, with three processes and a memory of 2.
- `PcNeverGoesBack` is checked without reports: `report-util` moves the program
  counter of a process back that has just ended.
- `SleepLasts` excludes `raced` and deadlines that do not fit in 16 bits. `raced` is
  two cases: SLEEPING is written before the deadline, and the scheduler may wake the
  process in between by the old one; and a core thread may execute the SLEEP of a
  process that was preempted after the thread had looked at it, which the dispatch
  ends at once.
- `LogsAreTheLast` excludes processes that were stored: they are read back with
  `logs == NULL`, and the next PRINT writes there (`PrintToNull`).
- `ComputesItsMeaning` excludes instructions right behind a FOR: they are skipped.
- `PidsDiffer` excludes processes of earlier sessions, whose pids started at the
  same number, and a `screen -s` that overlaps with the generator; `OwnBlocks` all
  of these, and `initialize` typed again.
- `TableLists` excludes two threads in `add_process` at once: one entry overwrites the
  other, and the process is not found by `screen -r`.
- No property says that names differ. `screen -s` and `screen -c` look for a duplicate
  among the first `process_count` entries of the table, which counts the processes of
  `screen -s` alone (screen.c:63, 222, 352), so `screen -c` accepts a name twice.
- `FreedWhenShort`: once memory is short, the process table points to freed structs.
  It is short for the processes that are still to execute and those removed as
  invalid, whose blocks nobody gives back. Blocks of other processes are not in the
  way, but only as long as pids differ and `initialize` is not typed again: memory is
  released by pid, so a process with the pid of another (an overlap, or a process
  of an earlier session) gives back the other's block, and its own is lost.
- `QuantumRespected` needs a quantum and a delay of at least one tick. `config.c`
  accepts 0 for both; with either, TLC finds a process that runs past its bound.

## The proofs

Every invariant and every safety refinement that a passing run checks is also a
theorem, for all values of the constants that satisfy the named assumptions of the
modules (`BlocksAssumption`, `SpaceAssumption`, `SchedulerAssumption`, ...): any
number of cores, processes and sessions, any memory, any sizes and programs.
`SpaceAssumption` asks for processes of at least one unit, `BlocksAssumption` does not.
Where a theorem needs more than that, its `ASSUME` says so, and the reason is
given here. The full list is in `PROJECT.json` under "theorems".

**Allocator** (`MemoryBlocksProofs`)

- `MemoryIsTiled`, `EveryProcessOwnsOneBlock`, `FreeRunsAreCoalesced` and
  `BlocksTypeCorrect`, that is `[]Tiling`, `[]Ownership`, `[]Coalesced` and
  `[]TypeOK`. None is inductive alone. Their conjunction `IInv` is, with
  `CursorInList` and `Ordered` (`base <= end + 1`): merging keeps a node's base from
  running past its end only if both halves were in order, and a release keeps the
  list a partition only if the freed block was the owner's. The proofs work by
  index: `InsertedAt` and `RemovedAt` say which element is where after `InsertAt` and
  `RemoveAt`, `AfterSplit` and `AfterMerge` what that means for the list.
- `CountersAreExact`: `[]CountersExact`. The code walks the list, the property sums
  over processes. `AddsUp(k)` connects them: free bytes and the owners'
  allocations up to node `k` add up to the address node `k + 1` starts at, and there
  are as many owners as occupied nodes. `NextAddsUp` is the step from node to node.
- `ImplementsAddressSpace`: `Spec => RefinesAddressSpace`. `MapIsRight` says that the
  owner map shows each address the pid of the one node that covers it;
  `HoleInNode` that a run of free addresses lies within one free node, which is
  where `Coalesced` is needed; from these, first fit in the list is the lowest hole
  of the map, and a refusal means that there is none. Hypothesis `Positive`:
  processes ask for at least one unit, since an owner map cannot show a block of
  length 0. `screen -s` asks for at least 64 and the repository's `config.txt` for
  512; `config.c` would accept a minimum of 0. The list invariants hold for 0, too.

**Ready queue** (`ReadyQueueProofs`)

- `RingTypeCorrect`, `TailFollowsTheLast` and `ImplementsFifo`: `[]TypeOK`,
  `[]RingShape` and `Spec => RefinesFifo`, statement by statement, the doubling
  included. Hypothesis `~Overlapping`: with overlap they are false
  (`ready_queue_overlap`). The invariant says that at most one thread is inside a call
  (`OneCall`), where the entries are (`RingIs`), and what the call has done so far
  (`CallIs`).

**Scheduler, either policy** (`SchedulerProofs`, `SchedulerPlaces`)

- `TypeCorrect`: `[]TypeOK`. One lemma per action. The parts that are not about
  shape are that no timer leaves its range, that `ticks_ran_in_quantum` respects its
  cap, and that a core thread past `Read` has a process, without which
  `proc[core[c].held]` would mean nothing.
- `NeverInTwoPlaces`: `[]OnePlace`. It is not inductive: enqueueing a new process
  would break it if that process were already somewhere. `NewNowhere` excludes
  this, and `Places == TypeOK /\ OnePlace /\ NewNowhere` is inductive. The proof goes
  by the moves a process can make: enqueued, dequeued, stored, taken from the store,
  put on a core, taken off, finished. Every action is one move, or two in a row, or
  none.
- `MemoryIsAccountedFor`: `[]MemoryAgrees`, inductive next to `Places`: what
  `FirstFit` takes was a hole (`Least` provides the lowest), and what is given back
  belonged to the process that left its core.
- `QuantumIsKept`: `[]QuantumRespected`, under `OneCore`: round robin, one core,
  quantum and delay at least 1. On two cores two threads may execute one process;
  with a quantum or delay of 0 the property is false (see above). The invariant
  `QuantumKept` relates three clocks: the ticks the process has had, the ticks its
  core still waits, and where the scheduler is between a tick and its look at the
  quanta. A core that starts to wait after the last look cannot be done before the
  next.

**Scheduler, one policy** (`FcfsProofs`: fcfs, and at the end round robin on one core)

- `UsedIsTheBusyCores` and `CountersOnlyGrow`, under fcfs: `[]UsedCountsCores` and, without
  reports, `PcNeverGoesBack`, whatever the memory and the swapping. The key is
  `SlotHeld`: a core thread between its lock blocks works on the process of its slot,
  or on a struct that a swap has freed, and then stops at its next access.
  `UsedIsTheBusyCores` covers the checks of `UsedCountsCores` in `fcfs_swap`.
- `NobodyIsLost`, `EachCoreExecutesItsSlot`, `NoFault` and `ServesInOrder`: `NoneLost`,
  `ExecutesItsSlot`, no fault, and `ImplementsFcfs` (without reports), for fcfs
  behaviours in which the store stays empty (`[]NothingStored`). With swapping each is false
  for the reasons in the section above. `Serves` is the invariant; its part `Loops` says
  that `for_depth` is 0 but for the process of a core between `EnterFor` and `LeaveFor`,
  so that no thread pops a loop of another and every process that ends is found finished.
- `NeverStored`: under fcfs the store does stay empty if each process needs at most `m` units
  and the memory has `(2 * NumCores - 1) * m` (`RoomForAll`): the blocks of the other
  `NumCores - 1` processes touch at most `2 * (NumCores - 1)` cells of `m` units,
  so one cell is free. The bound is sufficient, not necessary: in the run
  `fcfs` the memory is 4 where it asks for 6, and the store stays empty as well.
- `UsedIsTheBusyCoreInTurns`: `[]UsedCountsCores` in round robin on one core
  (`OneCoreInTurns`: quantum at least 1, any delay), where `SlotHeld` is false because
  the scheduler empties and refills the slot while the thread works on. The
  invariant `Turns` says that a process about to be removed as invalid is still in
  the slot, with its quantum unused (`Removing`): it was dispatched past its end. It
  needs `Loops` as well, and that a thread whose process is in the store has a dangling
  pointer (`StoredDangling`): the same process may come back while the thread is in a FOR. On two
  cores, or with a quantum of 0, the property is false (see above).

`OnePlace` does not say that the thread of a core works on the process of its slot.
That is `ExecutesItsSlot`, proved for `fcfs`; in round robin it fails, and two threads
may execute a process that is, on record, in one place.

**Interpreter** (`InterpreterProofs`)

- `InterpreterTypeCorrect`, `VariablesAlwaysFit` and `SleepIsLongEnough`: `[]TypeOK`,
  `[]VariablesFit`, `[]SleepLasts`. The invariant is `Sound == Typed /\ SleepsRight`. `Typed`
  has the types, with distinct names and an array that is never smaller than what it
  holds. `SleepsRight` has what is known between the two writes of SLEEP
  (`InTheMiddle`); that a process queued while it is SLEEPING was queued before its
  SLEEP was executed (`QueuedSleeper`); that the stored 16-bit deadline is the real one
  while it fits (`DeadlineKept`); and the property for every state that is not SLEEPING,
  queued ones included (`HasSlept`).
- `ProgramsCompute` and `LogsKeepTheLast`: `[]ComputesItsMeaning`, `[]LogsAreTheLast`.
  `Computes` says that the struct represents the meaning of what was executed, and that
  the program counter never stands right behind a FOR that was reached. Hypothesis
  `ShortPrograms`: no program has more than `MaxCapacity` (1 000 000) instructions,
  since `get_variable` returns NULL when the array has reached that size.

**Sessions and the file** (`SessionsProofs`)

- `SessionsTypeCorrect`, `PidsAreUnique`: `[]TypeOK`, `[]PidsDiffer`. `Typed` says, beside
  shapes, which process each thread has in hand at each of its steps, and that a
  pid below `next_pid` belongs to at most one process of the session; `Within` that
  blocks lie within the memory and have no address in common (`LaidOut`).
- `StoreIsDurable`: `Spec => RefinesDurableFifo`. Every write of a cell is either a
  stutter or, if it is the last of an entry, the append of a process; every
  rewriting is the removal of the first. `CompleteWithEntry` and `CompleteFirst` say
  what an entry behind or before other cells does to the processes an image holds.
- `OnlyDamageIsGarbage`: `[]GarbageOnlyIfTorn`, from `Unbroken`: unless there was damage
  the file together with what is still to be written consists of whole entries.
- `NeverTwice`, `NobodyDisappears`, `AllAreListed`: `[]OncePlaced`, `[]Accounted`,
  `[]TableLists`. `Fresh` and `Apart` speak of the places of process identities,
  including the hands of the two threads, those that finished or were removed taken
  together (`Gone`); `AllHere` says that every number up to `created` is in one of
  them, `Lists` that, while the table is not raced, the thread that adds to it has read
  the number it still has.
- `BlocksAreOwned`: `[]OwnBlocks`, from `Memories`. While pids differ no process has two
  blocks and every block belongs to a process in memory, removed ones included
  (`Backed`); and unless the memory was initialised again each of those has its block
  (`Owning`). The proof goes by what a step does to blocks and owners: nothing, one
  comes (`Allotted`), one goes, one takes the place of another (`Replaced`), all go.
- `FreedInShortage`: `[]FreedWhenShort`, from `Short`: while the scheduler thread writes a
  process to the store there is still no hole for the one that needs it, since nothing
  releases memory meanwhile. `BlocksAreOccupied` says that the blocks that are left are
  those of processes still to execute or removed. Nothing in it depends on sizes or on how
  the memory is fragmented.

**Induction over data.** `Meaning`, `Complete` and the sums of `CountersExact`
are recursive, and no prover here can instantiate an induction rule. They are proved about
by least counterexample: `Least` (in `FiniteSums`) gives the smallest number a claim is
false for, and the step from its predecessor refutes it. `FiniteSums` shows in this way
that the equation of a sum over a finite set has exactly one solution (`PartSumsAre`,
`SumsAgree`), and that any element may be taken out first (`SumWith`); the library's
`SumFunction` comes down to that equation.

Only model-checked: liveness (`EveryProcessFinishes`, `StoreDrains`,
`EveryProgramEnds`, `MergeEnds`). It needs fairness and `ENABLED`, which the prover does
not support. And the counterexamples: that a hypothesis or an exclusion is necessary is
TLC's finding on an instance.

## What is not modelled

- *`vmstat`'s recount:* it walks the list without the lock and writes
  `free_memory`, which the generator reads. It may read a node the merge has just
  freed, or count a block before it is cut and its rest once more after that was
  given away. The next allocation or release replaces what it wrote, and nothing in
  the repository says what its figures are good for while the emulator runs.
- *The start of the threads:* `start_scheduler` creates the scheduler thread before
  `start_core_threads` initialises the lock. What a lock that is not initialised
  does is up to Windows.
- *A process larger than the memory*, which `screen -s` accepts: it stays first in
  the store and blocks the rest. In all instances everybody fits.
- *Left out:* printing, colours, argument parsing and configuration-file parsing
  (no state that the properties are about); the random choice of instructions
  (the constant `Program` stands for any result).
- *Dead code:* `handle_page_fault` (its callers are commented out),
  `instruction.c` and `report_util.c` (commented out as a whole), and
  `OLD FILES/`, which is not part of the build.
- *READ, WRITE and FOR with a body* occur only in programs of `screen -c`, which are
  never enqueued; nor is the tokenising of such programs modelled, whose only effect
  is a printed number.

## Plan

Done: allocator, ready queue, scheduler with cores, swapping, generation and
reports, and what it implements under `fcfs`; the interpreter with its parsers; the
backing store as a file, with commands and restarts; the invariants and safety
refinements of all of them as theorems.

Left to model:

1. `MemoryReports`: `vmstat`'s recount against allocations, by statement.
2. An abstract service with swapping that `Scheduler` implements up to a fault, and
   one for round robin.
3. The start of the threads one by one.

Left to prove: what these will state; `NeverStored` from less memory than `RoomForAll`
asks for; for round robin on one core, that a process is lost only if its quantum ends with
its last instruction.
