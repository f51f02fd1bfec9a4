------------------------------ MODULE Sessions ------------------------------
(***************************************************************************)
(* Several runs of the program, one after the other, on one backing store. *)
(* In each the commands of the user (CLI thread), the generator and the    *)
(* scheduler (scheduler thread) create processes with pids and names, list *)
(* them in the process table and move them between queue, cores, memory    *)
(* and store.                                                              *)
(*                                                                         *)
(* Grain: what takes two steps here is what two threads do without a lock  *)
(* (++next_pid, process_table[num_processes++]) and what exit may cut in   *)
(* two (the writes of the file).  enqueue_ready is one step; ReadyQueue    *)
(* has its parts.  The parts of a round of the scheduler come in any       *)
(* order, programs end at any time, and a core may at any time find its    *)
(* process invalid, which is more than Scheduler allows.  What it allows   *)
(* beyond this is a core that executes a struct the scheduler has freed.   *)
(* The list of blocks is the set of the occupied ones; MemoryBlocks has    *)
(* its nodes.                                                              *)
(*                                                                         *)
(* Not in the code: the id of a process, which says in which session and   *)
(* as the how manieth it was created, and removed, created, freed, starts, *)
(* overlapped, table_raced, memory_reset, which remember what happened.    *)
(***************************************************************************)
EXTENDS BackingStore, FiniteSetsExt

CONSTANTS
  UserNames,     \* names typed by the user; N is the generated name "PN"
  NumCores,
  Memory,        \* its size
  UserSizes,     \* those the user asks for, and that of a generated process
  GeneratedSize,
  MayReset,      \* bound: whether memory in use may be initialised
  MaxSessions,   \* bound
  MaxCreated     \* bound on the processes enqueued in all sessions

ASSUME SessionsAssumption ==
  /\ UserNames \subseteq Nat /\ UserSizes \subseteq Nat \ {0} /\ MayReset \in BOOLEAN
  /\ {NumCores, Memory, GeneratedSize, MaxSessions, MaxCreated} \subseteq Nat \ {0}

VARIABLES
  session, initialized, scheduler_running, processes_generating,
  next_pid, process_table, num_processes, process_count,
  ready,         \* the ready queue
  on,            \* the processes on cores
  finished,
  blocks,        \* the occupied blocks: pid, and the id of the process
  removed,       \* what cores have dropped as invalid: structs that nothing but
                 \* the process table knows
  cli,           \* where the CLI thread is in screen_start and screen -c
  sched,         \* where the scheduler thread is
  created, total, freed, starts, overlapped, table_raced, memory_reset,
  fault          \* the first access that is not defined, or "none"

table == <<process_table, num_processes, process_count>>
places == <<ready, on, finished, blocks, removed>>
races == <<overlapped, table_raced>>
history == <<session, created, total, freed, starts, races, memory_reset, fault>>
flags == <<initialized, scheduler_running, processes_generating>>
vars == <<store, table, places, history, flags, next_pid, cli, sched>>

NoProcess == [id |-> <<0, 0>>, name |-> 0, pid |-> 0, num_var |-> 0, in_memory |-> 0,
              memory_allocation |-> GeneratedSize]

AtPrompt == [at |-> "prompt", read |-> 0, process |-> NoProcess]
InLoop == [at |-> "loop", read |-> 0, process |-> NoProcess, victim |-> NoProcess]

Init ==
  /\ StoreInit /\ session = 1 /\ total = 0 /\ fault = "none"
  /\ initialized = FALSE /\ scheduler_running = FALSE /\ processes_generating = FALSE
  /\ next_pid = 1
  /\ process_table = <<>> /\ num_processes = 0 /\ process_count = 0
  /\ ready = <<>> /\ on = {} /\ finished = {} /\ blocks = {} /\ removed = {}
  /\ cli = AtPrompt /\ sched = InLoop
  /\ created = 0 /\ freed = {} /\ starts = 0
  /\ overlapped = FALSE /\ table_raced = FALSE /\ memory_reset = FALSE

(* The CLI thread goes on.  After a second start there are two scheduler   *)
(* threads without mutual exclusion, which are not followed any further.   *)
Typing(at) == fault = "none" /\ starts <= 1 /\ cli.at = at

AtWork(at) == fault = "none" /\ starts = 1 /\ sched.at = at

(* Between the read of next_pid and the end of add_process; between the    *)
(* read and the write of num_processes, which "screen -c" has too.         *)
Creating == {"pid", "add"}
Adding == {"add", "create"}

NoteOverlap ==
  /\ overlapped' = (overlapped \/ (cli'.at \in Creating /\ sched'.at \in Creating))
  /\ table_raced' = (table_raced \/ (cli'.at \in Adding /\ sched'.at \in Adding))
-----------------------------------------------------------------------------
(* The commands.                                                           *)

initialize ==
  /\ Typing("prompt")
  /\ blocks = {} \/ MayReset
  /\ initialized' = TRUE
  /\ blocks' = {}
  /\ memory_reset' = (memory_reset \/ blocks # {})
  /\ init_backing_store
  /\ UNCHANGED <<table, ready, on, finished, removed, session, created, total, freed,
                 starts, races, fault, scheduler_running, processes_generating,
                 next_pid, cli, sched>>

(* init_ready_queue, init_cpu_cores, start_scheduler: the threads start on *)
(* an empty queue and finished list, empty cores and an empty memory.      *)
Start(generating) ==
  /\ scheduler_running' = TRUE
  /\ processes_generating' = generating
  /\ ready' = <<>> /\ finished' = {} /\ on' = {} /\ blocks' = {}
  /\ starts' = starts + 1

scheduler_start ==
  /\ Typing("prompt") /\ initialized
  /\ Start(TRUE)
  /\ UNCHANGED <<store, table, removed, session, created, total, freed, races,
                 memory_reset, fault, initialized, next_pid, cli, sched>>

stop_scheduler ==
  /\ Typing("prompt") /\ initialized
  /\ processes_generating' = FALSE
  /\ UNCHANGED <<store, table, places, history, initialized, scheduler_running,
                 next_pid, cli, sched>>

(* The entries that are compared with a new name. *)
Checked == {i \in DOMAIN process_table : i <= process_count}

Named(indices, name) == {i \in indices : process_table[i].name = name}

(* The search for a name comes to an entry whose struct has been freed. *)
ReadsFreed(indices, name) ==
  \E i \in indices :
    /\ process_table[i].id \in freed
    /\ \A j \in Named(indices, name) : i <= j

(* The struct of screen_start, before it has a pid. *)
Requested(name, memory_size) ==
  [NoProcess EXCEPT !.name = name, !.memory_allocation = memory_size]

(* screen_start: the name is new, and ++next_pid reads. *)
ScreenStart(name) ==
  /\ Typing("prompt") /\ initialized
  /\ total < MaxCreated
  /\ ~ReadsFreed(Checked, name) /\ Named(Checked, name) = {}
  /\ \E memory_size \in UserSizes :
       cli' = [at |-> "pid", read |-> next_pid,
               process |-> Requested(name, memory_size)]
  /\ total' = total + 1
  /\ UNCHANGED <<store, table, places, flags, session, created, freed, starts,
                 memory_reset, fault, next_pid, sched>>
  /\ NoteOverlap

(* Mutant of Taken: the counter keeps its value. *)
NotTaken(read) == next_pid' = read

(* ++next_pid writes. *)
Taken(read) == next_pid' = read + 1

(* It writes; the scheduler is started if it does not run yet; add_process *)
(* reads num_processes.                                                    *)
ScreenPid ==
  /\ Typing("pid")
  /\ Taken(cli.read)
  /\ created' = created + 1
  /\ cli' = [at |-> "add", read |-> num_processes,
             process |-> [cli.process EXCEPT !.id = <<session, created'>>, !.pid = cli.read + 1]]
  /\ \/ scheduler_running /\ UNCHANGED <<scheduler_running, processes_generating, ready,
                                         finished, on, blocks, starts>>
     \/ ~scheduler_running /\ Start(FALSE)
  /\ UNCHANGED <<store, table, removed, session, total, freed, memory_reset, fault,
                 initialized, sched>>
  /\ NoteOverlap

(* Mutant of Listed: the number is not incremented. *)
ListedOverLast(n, p) ==
  /\ process_table' = IF n < Len(process_table) THEN [process_table EXCEPT ![n + 1] = p]
                                                ELSE Append(process_table, p)
  /\ num_processes' = n

(* process_table[n] = p, num_processes = n + 1, for the n that was read. *)
Listed(n, p) ==
  /\ process_table' = IF n < Len(process_table) THEN [process_table EXCEPT ![n + 1] = p]
                                                ELSE Append(process_table, p)
  /\ num_processes' = n + 1

ScreenAdd ==
  /\ Typing("add")
  /\ Listed(cli.read, cli.process)
  /\ process_count' = process_count + 1
  /\ ready' = Append(ready, cli.process)
  /\ cli' = AtPrompt
  /\ UNCHANGED <<store, on, finished, blocks, removed, history, flags, next_pid, sched>>

(* screen -c: the name is new, and add_process reads num_processes.        *)
screen_create_with_code(name) ==
  /\ Typing("prompt") /\ initialized
  /\ total < MaxCreated
  /\ ~ReadsFreed(Checked, name) /\ Named(Checked, name) = {}
  /\ cli' = [at |-> "create", read |-> num_processes,
             process |-> [NoProcess EXCEPT !.name = name, !.pid = process_count + 1]]
  /\ total' = total + 1
  /\ UNCHANGED <<store, table, places, flags, session, created, freed, starts,
                 memory_reset, fault, next_pid, sched>>
  /\ NoteOverlap

(* It writes.  The process is neither counted nor enqueued. *)
ScreenCreateAdd ==
  /\ Typing("create")
  /\ Listed(cli.read, cli.process)
  /\ cli' = AtPrompt
  /\ UNCHANGED <<store, process_count, places, history, flags, next_pid, sched>>

InTable == {i \in DOMAIN process_table : i <= num_processes}

(* screen -s, -c or -r reads the name of a process whose struct is gone. *)
ReadFreedName ==
  /\ Typing("prompt") /\ initialized
  /\ \E name \in UserNames :
       \/ ReadsFreed(Checked, name)
       \/ ReadsFreed(InTable, name) /\ \A q \in finished : q.name # name
  /\ fault' = "freed name"
  /\ UNCHANGED <<store, table, places, flags, next_pid, cli, sched, session, created,
                 total, freed, starts, races, memory_reset>>

(* exit, and the next session: the threads end wherever they are. *)
exit ==
  /\ Typing("prompt")
  /\ session < MaxSessions
  /\ session' = session + 1
  /\ StoreEnds
  /\ initialized' = FALSE /\ scheduler_running' = FALSE /\ processes_generating' = FALSE
  /\ next_pid' = 1
  /\ process_table' = <<>> /\ num_processes' = 0 /\ process_count' = 0
  /\ ready' = <<>> /\ on' = {} /\ finished' = {} /\ blocks' = {} /\ removed' = {}
  /\ cli' = AtPrompt /\ sched' = InLoop
  /\ created' = 0 /\ freed' = {} /\ starts' = 0
  /\ overlapped' = FALSE /\ table_raced' = FALSE /\ memory_reset' = FALSE
  /\ UNCHANGED <<total, fault>>
-----------------------------------------------------------------------------
(* The scheduler thread.                                                   *)

(* The addresses from base on are not occupied. *)
Hole(base, size, taken) ==
  /\ base + size <= Memory
  /\ \A b \in taken : b.base + b.size <= base \/ base + size <= b.base

(* Mutant of Holes: the end of the memory is counted one too far. *)
HolesExceeding(size, taken) ==
  {base \in 0 .. Memory - 1 :
     /\ base + size <= Memory + 1
     /\ \A b \in taken : b.base + b.size <= base \/ base + size <= b.base}

Holes(size, taken) == {base \in 0 .. Memory - 1 : Hole(base, size, taken)}

(* try_allocate_memory: first fit. *)
Fits(size, taken) == Holes(size, taken) # {}

Allocated(p, taken) ==
  LET holes == Holes(p.memory_allocation, taken)
      base == CHOOSE base \in holes : \A other \in holes : base <= other
  IN  taken \cup {[pid |-> p.pid, id |-> p.id, base |-> base,
                   size |-> p.memory_allocation]}

(* Mutant of Released: the first block, whatever its pid. *)
ReleasedFirst(p) ==
  blocks \ {b \in blocks : \A other \in blocks : b.base <= other.base}

(* The blocks after free_process_memory: it frees the first with the pid.  *)
Released(p) ==
  LET same == {b \in blocks : b.pid = p.pid}
  IN  blocks \ {b \in same : \A other \in same : b.base <= other.base}

(* memory.free_memory, which update_free_memory has counted. *)
free_memory == Memory - MapThenSumSet(LAMBDA b : b.size, blocks)

(* generate_dummy_process: ++next_pid reads. *)
GenerateRead ==
  /\ AtWork("loop")
  /\ processes_generating /\ free_memory >= GeneratedSize
  /\ total < MaxCreated
  /\ total' = total + 1
  /\ sched' = [InLoop EXCEPT !.at = "pid", !.read = next_pid]
  /\ UNCHANGED <<store, table, places, flags, next_pid, cli, session, created, freed,
                 starts, memory_reset, fault>>
  /\ NoteOverlap

(* It writes; add_process reads num_processes. *)
GeneratePid ==
  /\ AtWork("pid")
  /\ Taken(sched.read)
  /\ created' = created + 1
  /\ sched' = [InLoop EXCEPT !.at = "add", !.read = num_processes,
                 !.process = [NoProcess EXCEPT !.id = <<session, created'>>,
                                !.name = sched.read + 1, !.pid = sched.read + 1]]
  /\ UNCHANGED <<store, table, places, flags, cli, session, total, freed, starts,
                 memory_reset, fault>>
  /\ NoteOverlap

GenerateAdd ==
  /\ AtWork("add")
  /\ Listed(sched.read, sched.process)
  /\ ready' = Append(ready, sched.process)
  /\ sched' = InLoop
  /\ UNCHANGED <<store, process_count, on, finished, blocks, removed, history, flags,
                 next_pid, cli>>

FreeCore == Cardinality(on) < NumCores

Dispatch ==
  /\ AtWork("loop")
  /\ ready # <<>> /\ FreeCore
  /\ LET p == Head(ready)
     IN  /\ \/ p.in_memory = 1 /\ blocks' = blocks
            \/ /\ p.in_memory = 0 /\ Fits(p.memory_allocation, blocks)
               /\ blocks' = Allocated(p, blocks)
         /\ on' = on \cup {[p EXCEPT !.in_memory = 1]}
  /\ ready' = Tail(ready)
  /\ UNCHANGED <<store, table, history, flags, finished, removed, next_pid, cli, sched>>

(* No memory: the process is written to the backing store. *)
DispatchToStore ==
  /\ AtWork("loop")
  /\ ready # <<>> /\ FreeCore
  /\ LET p == Head(ready)
     IN  /\ p.in_memory = 0 /\ ~Fits(p.memory_allocation, blocks)
         /\ BeginAppend(p)
         /\ sched' = [InLoop EXCEPT !.at = "storing", !.process = p]
  /\ ready' = Tail(ready)
  /\ UNCHANGED <<table, history, flags, on, finished, blocks, removed, next_pid, cli>>

FreeStored ==
  /\ AtWork("storing") /\ Quiet
  /\ freed' = freed \cup {sched.process.id}
  /\ sched' = InLoop
  /\ UNCHANGED <<store, table, places, flags, next_pid, cli, session, created, total,
                 starts, races, memory_reset, fault>>

(* schedule_rr: the quantum is over. *)
Preempt ==
  /\ AtWork("loop")
  /\ \E p \in on : on' = on \ {p} /\ ready' = Append(ready, p)
  /\ UNCHANGED <<store, table, history, flags, finished, blocks, removed, next_pid, cli,
                 sched>>

Image == [FirstProcess EXCEPT !.in_memory = 1]

(* Mutant of SwapIn: the entry stays. *)
SwapInKeepingEntry ==
  /\ AtWork("loop") /\ ReadsEntry
  /\ Fits(FirstProcess.memory_allocation, blocks)
  /\ blocks' = Allocated(FirstProcess, blocks)
  /\ sched' = [InLoop EXCEPT !.at = "removing", !.process = Image]
  /\ UNCHANGED <<store, table, history, flags, ready, on, finished, removed, next_pid,
                 cli>>

(* The first stored process gets memory, and its entry is to be removed. *)
SwapIn ==
  /\ AtWork("loop") /\ ReadsEntry
  /\ Fits(FirstProcess.memory_allocation, blocks)
  /\ blocks' = Allocated(FirstProcess, blocks)
  /\ BeginRemove
  /\ sched' = [InLoop EXCEPT !.at = "removing", !.process = Image]
  /\ UNCHANGED <<table, history, flags, ready, on, finished, removed, next_pid, cli>>

(* There is no room: a process on a core is written to the store first.    *)
(* It has variables if it has executed.                                    *)
SwapOut ==
  /\ AtWork("loop") /\ ReadsEntry
  /\ ~Fits(FirstProcess.memory_allocation, blocks)
  /\ \E p \in on : \E n \in {p.num_var, 1} :
       LET victim == [p EXCEPT !.num_var = n]
       IN  /\ BeginAppend(victim)
           /\ sched' = [InLoop EXCEPT !.at = "victim", !.process = Image, !.victim = victim]
  /\ UNCHANGED <<table, history, flags, places, next_pid, cli>>

(* Its memory is released and given to the other, and it is freed. *)
SwapOver ==
  /\ AtWork("victim") /\ Quiet
  /\ LET rest == Released(sched.victim)
     IN  \/ /\ Fits(sched.process.memory_allocation, rest)
            /\ blocks' = Allocated(sched.process, rest)
            /\ BeginRemove
            /\ sched' = [sched EXCEPT !.at = "removing", !.victim = NoProcess]
         \/ /\ ~Fits(sched.process.memory_allocation, rest)
            /\ blocks' = rest
            /\ sched' = InLoop
            /\ UNCHANGED store
  /\ on' = {p \in on : p.id # sched.victim.id}
  /\ freed' = freed \cup {sched.victim.id}
  /\ UNCHANGED <<table, flags, ready, finished, removed, next_pid, cli, session, created,
                 total, starts, races, memory_reset, fault>>

(* Mutant of EndRemove: the process is not enqueued. *)
EndRemoveDropping ==
  /\ AtWork("removing") /\ Quiet
  /\ sched' = InLoop
  /\ UNCHANGED <<store, table, history, flags, places, next_pid, cli>>

EndRemove ==
  /\ AtWork("removing") /\ Quiet
  /\ ready' = Append(ready, sched.process)
  /\ sched' = InLoop
  /\ UNCHANGED <<store, table, history, flags, on, finished, blocks, removed, next_pid,
                 cli>>

WriteStore ==
  /\ fault = "none" /\ starts = 1
  /\ AppendCell \/ Truncate \/ Rewrite
  /\ UNCHANGED <<table, places, history, flags, next_pid, cli, sched>>

(* What is made of other cells than were written for it is not followed. *)
ReadGarbage ==
  /\ AtWork("loop") /\ ReadsGarbage
  /\ fault' = "garbage"
  /\ UNCHANGED <<store, table, places, flags, next_pid, cli, sched, session, created,
                 total, freed, starts, races, memory_reset>>
-----------------------------------------------------------------------------
(* The core threads.  Their lock is taken while the scheduler swaps.       *)

LockFree == sched.at \notin {"storing", "victim", "removing"}

(* Mutant of Finish: the memory is kept. *)
FinishLeaking ==
  /\ fault = "none" /\ starts = 1 /\ LockFree
  /\ \E p \in on :
       /\ p.id[1] = session
       /\ on' = on \ {p}
       /\ finished' = finished \cup {p}
  /\ UNCHANGED <<store, table, history, flags, ready, blocks, removed, next_pid, cli,
                 sched>>

(* The completion block of core_loop. *)
Finish ==
  /\ fault = "none" /\ starts = 1 /\ LockFree
  /\ \E p \in on :
       /\ p.id[1] = session
       /\ on' = on \ {p}
       /\ finished' = finished \cup {p}
       /\ blocks' = Released(p)
  /\ UNCHANGED <<store, table, history, flags, ready, removed, next_pid, cli, sched>>

(* A core has found its process invalid: the slot is emptied, whatever is  *)
(* in it by now, and the process keeps its memory.                         *)
Remove ==
  /\ fault = "none" /\ starts = 1 /\ LockFree
  /\ \E p \in on : on' = on \ {p} /\ removed' = removed \cup {p}
  /\ UNCHANGED <<store, table, history, flags, ready, finished, blocks, next_pid, cli,
                 sched>>

(* cleanup_process frees page_table, which comes from the file unchanged:  *)
(* in a process of an earlier session it points into that session's heap.  *)
FinishForeign ==
  /\ fault = "none" /\ starts = 1 /\ LockFree
  /\ \E p \in on : p.id[1] # session
  /\ fault' = "foreign pointer"
  /\ UNCHANGED <<store, table, places, flags, next_pid, cli, sched, session, created,
                 total, freed, starts, races, memory_reset>>

Next ==
  \/ initialize \/ scheduler_start \/ stop_scheduler
  \/ ScreenPid \/ ScreenAdd \/ ScreenCreateAdd
  \/ \E name \in UserNames : ScreenStart(name) \/ screen_create_with_code(name)
  \/ ReadFreedName \/ exit
  \/ GenerateRead \/ GeneratePid \/ GenerateAdd
  \/ Dispatch \/ DispatchToStore \/ FreeStored \/ Preempt
  \/ SwapIn \/ SwapOut \/ SwapOver \/ EndRemove \/ WriteStore \/ ReadGarbage
  \/ Finish \/ FinishForeign \/ Remove

Spec == Init /\ [][Next]_vars
-----------------------------------------------------------------------------
ToSet(s) == {s[i] : i \in DOMAIN s}

InTransit == {sched.process, sched.victim} \ {NoProcess}

(* The processes that exist in this session, with those it has stored. *)
Live == ToSet(ready) \cup on \cup InTransit
Known == Live \cup finished \cup removed \cup ToSet(Stored)

OldAround == \E p \in Known : p.id[1] # session

(* The ranges of the counters, and the limits of memory and cores. *)
TypeOK ==
  /\ session \in 1 .. MaxSessions /\ total \in 0 .. MaxCreated
  /\ next_pid \in 1 .. MaxCreated + 1
  /\ num_processes \in 0 .. Len(process_table) /\ process_count \in 0 .. MaxCreated
  /\ created <= total
  /\ Cardinality(on) <= NumCores
  /\ \A b \in blocks : b.base \in Nat /\ Hole(b.base, b.size, blocks \ {b})
  /\ \A p \in Known : p.id[1] \in 1 .. session /\ p.num_var \in 0 .. 1
  /\ fault \in {"none", "freed name", "garbage", "foreign pointer"}

(* No two processes of the system have the same pid, unless screen -s came *)
(* while the generator was at work, or one of them is from an earlier      *)
(* session, whose pids started at the same number.                         *)
PidsDiffer ==
  \A p, q \in Known :
    p.pid = q.pid /\ p.id # q.id => overlapped \/ p.id[1] # session \/ q.id[1] # session

(* A process in memory has its own block, although blocks are released by  *)
(* pid, as long as pids differ and the user has not initialised the memory *)
(* again.                                                                  *)
OwnBlocks ==
  ~overlapped /\ ~memory_reset /\ ~OldAround =>
    \A p \in on \cup {q \in ToSet(ready) : q.in_memory = 1} :
      \E b \in blocks : <<b.pid, b.id, b.size>> = <<p.pid, p.id, p.memory_allocation>>

(* No process is in two places, one of which may be the file, at whatever  *)
(* point of a swap or a restart.                                           *)
OncePlaced ==
  LET stored == Stored
      times(id) ==
        Cardinality({i \in DOMAIN ready : ready[i].id = id})
          + Cardinality({p \in on \cup finished \cup removed : p.id = id})
          + Cardinality({i \in DOMAIN stored : stored[i].id = id})
  IN  \A p \in Known \ InTransit :
        p.id \notin {q.id : q \in InTransit} => times(p.id) = 1

(* Nothing that was created is lost while the session lasts, but for what  *)
(* a core removes as invalid, as long as the scheduler is started once;    *)
(* damage to the file takes only what earlier sessions have left.          *)
Accounted ==
  starts <= 1 =>
    LET ids == {p.id : p \in Known \cup {cli.process}}
    IN  \A n \in 1 .. created : <<session, n>> \in ids

(* scheduler-start generates processes and scheduler-stop stops that:      *)
(* neither loses one.                                                      *)
StartKeepsProcesses ==
  \A n \in 1 .. created :
    <<session, n>> \in {p.id : p \in Known \cup {cli.process}}

(* screen -r finds every process of the session, queued, executing,        *)
(* finished or removed, unless two threads were in add_process at the same *)
(* time.                                                                   *)
TableLists ==
  ~table_raced =>
    \A p \in ToSet(ready) \cup on \cup finished \cup removed :
      p.id[1] = session => \E i \in InTable : process_table[i].id = p.id

(* The blocks of the processes that have yet to execute, and of those      *)
(* removed as invalid, whose memory nobody gives back.                     *)
Occupied == {b \in blocks : b.id \in {p.id : p \in Live \cup removed}}

(* The struct of a process is freed only to make room for one that has no  *)
(* room beside those: no memory is lost to a process that has finished, is *)
(* stored or gone, as long as pids differ (blocks are released by pid) and *)
(* the user has not initialised the memory again.                          *)
FreedWhenShort ==
  [][~(freed' \subseteq freed) /\ ~overlapped /\ ~memory_reset /\ ~OldAround =>
       ~Fits(sched.process.memory_allocation, Occupied)]_vars

(* Only damage makes the store unreadable. *)
GarbageOnlyIfTorn == Quiet /\ ReadsGarbage => torn

(* The file is a queue that survives the program, but for damage. *)
Contents == INSTANCE DurableFifo WITH entries <- Stored, intact <- ~torn
RefinesDurableFifo == Contents!Spec
=============================================================================
