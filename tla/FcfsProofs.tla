----------------------------- MODULE FcfsProofs -----------------------------
(***************************************************************************)
(* The scheduler "fcfs": what holds because nothing but the core itself    *)
(* and a swap takes a process off its core.                                *)
(*                                                                         *)
(* The key is SlotHeld: a core thread between its lock blocks works on the *)
(* process of its slot, or on a struct that a swap has freed; and it stops *)
(* at the next access through the freed struct.  It makes the counter of   *)
(* the busy cores right and the program counters monotone, whatever the    *)
(* memory.  Where the memory suffices nothing is freed under a thread, and *)
(* the emulator implements the first-come-first-served service.            *)
(*                                                                         *)
(* The last section shows which part of this is left in round robin on one *)
(* core, where SlotHeld fails: the counter of the busy cores.              *)
(***************************************************************************)
EXTENDS SchedulerPlaces

Active(c) == core[c].pc \in {"validate", "execute", "for", "commit", "remove"}

SlotHeld ==
  \A c \in Cores : Active(c) => core[c].dangling \/ cpu_cores[c] = core[c].held

(* The pc that a core read before it increments it is still the pc. *)
AtIsCounter(c) ==
  core[c].pc \in {"for", "commit"} /\ ~core[c].dangling
    => core[c].at = proc[core[c].held].program_counter

CountersApart == ~Reports => \A c \in Cores : AtIsCounter(c)

NoPreemption == sched.pc # "preempt"

Slots == Places /\ NoPreemption /\ SlotHeld /\ CountersApart /\ UsedCountsCores

LEMMA SlotTypes ==
  ASSUME Places
  PROVE  /\ proc \in [Procs -> ProcessStruct] /\ core \in [Cores -> CoreThread]
         /\ ready_queue \in Seq(Procs) /\ store \in Seq(Procs)
         /\ cpu_cores \in [Cores -> Procs \cup {NoProc}]
         /\ sched \in [pc : SchedSteps, slot : Cores]
         /\ OnePlace /\ NewNowhere /\ CoresApart
         /\ NoProc \notin Procs
  BY Constants DEF Places, TypeOK, OnePlace, CoresApart

-----------------------------------------------------------------------------
(* The number of busy cores.                                               *)

Occupied == {c \in Cores : cpu_cores[c] # NoProc}

LEMMA FiniteCores ==
  /\ IsFiniteSet(Cores) /\ Cardinality(Cores) = NumCores
  /\ IsFiniteSet(Occupied) /\ Cardinality(Occupied) \in Nat
<1>1. IsFiniteSet(Cores) /\ Cardinality(Cores) = NumCores
  <2>1. NumCores \in Nat /\ NumCores # 0
    BY SchedulerAssumption DEF SchedulerAssumption
  <2> QED
    BY <2>1, FS_Interval DEF Cores
<1>2. IsFiniteSet(Occupied)
  BY <1>1, FS_Subset DEF Occupied
<1> QED
  BY <1>1, <1>2, FS_CardinalityType

LEMMA CountFilled ==
  ASSUME UsedCountsCores, cpu_cores \in [Cores -> Procs \cup {NoProc}],
         NEW c \in Cores, cpu_cores[c] = NoProc, NEW p \in Procs,
         cpu_cores' = [cpu_cores EXCEPT ![c] = p], used' = used + 1
  PROVE  UsedCountsCores'
<1>1. Occupied' = Occupied \cup {c} /\ c \notin Occupied
  BY Constants DEF Occupied
<1>2. Cardinality(Occupied') = Cardinality(Occupied) + 1
  BY <1>1, FiniteCores, FS_AddElement
<1> QED
  BY <1>2 DEF UsedCountsCores, Occupied

LEMMA CountCleared ==
  ASSUME UsedCountsCores, cpu_cores \in [Cores -> Procs \cup {NoProc}],
         NEW c \in Cores, cpu_cores[c] # NoProc,
         cpu_cores' = [cpu_cores EXCEPT ![c] = NoProc], used' = used - 1
  PROVE  UsedCountsCores'
<1>1. Occupied' = Occupied \ {c} /\ c \in Occupied
  BY DEF Occupied
<1>2. Cardinality(Occupied') = Cardinality(Occupied) - 1
  BY <1>1, FiniteCores, FS_RemoveElement
<1> QED
  BY <1>2 DEF UsedCountsCores, Occupied

LEMMA CountKept ==
  ASSUME UsedCountsCores, cpu_cores' = cpu_cores, used' = used
  PROVE  UsedCountsCores'
  BY DEF UsedCountsCores

-----------------------------------------------------------------------------
(* What the steps do to the program counters and to the core threads.      *)

SameCounters(p) == /\ proc'[p].program_counter = proc[p].program_counter
                   /\ proc'[p].for_depth = proc[p].for_depth

(* The scheduler thread moves no program counter, and ends the loops only  *)
(* of a process that it reads from the store.                              *)
SchedulerKeeps(p) ==
  /\ proc'[p].program_counter = proc[p].program_counter
  /\ \/ proc'[p].for_depth = proc[p].for_depth
     \/ proc'[p].for_depth = 0 /\ InStore(p)

LEMMA SchedulerCounters ==
  ASSUME Places, SchedulerStep
  PROVE  \A p \in Procs : SchedulerKeeps(p)
<1>1. /\ proc \in [Procs -> ProcessStruct] /\ ready_queue \in Seq(Procs)
      /\ store \in Seq(Procs) /\ cpu_cores \in [Cores -> Procs \cup {NoProc}]
      /\ sched.slot \in Cores
  BY SlotTypes
<1> SUFFICES ASSUME NEW p \in Procs
             PROVE  SchedulerKeeps(p)
  OBVIOUS
<1>2. CASE Tick
  BY <1>1, <1>2 DEF Tick, ProcessStruct, SchedulerKeeps
<1>3. CASE Generate
  BY <1>1, <1>3 DEF Generate, Submit, ProcessStruct, SchedulerKeeps
<1>4. CASE WakeSleepers
  BY <1>1, <1>4 DEF WakeSleepers, ProcessStruct, SchedulerKeeps
<1>5. CASE Preempt
  <2>1. PICK q : proc' = proc \/ proc' = [proc EXCEPT ![q].state = "READY"]
    BY <1>5 DEF Preempt
  <2>2. CASE proc' = [proc EXCEPT ![q].state = "READY"]
    BY <1>1, <2>2 DEF ProcessStruct, SchedulerKeeps
  <2> QED
    BY <2>1, <2>2 DEF SchedulerKeeps
<1>6. CASE Dispatch
  <2>1. proc' = [proc EXCEPT ![Head(ready_queue)].state = "RUNNING",
                             ![Head(ready_queue)].in_memory = TRUE,
                             ![Head(ready_queue)].ticks_ran_in_quantum =
                                IF RoundRobin THEN 0 ELSE @]
    BY <1>6 DEF Dispatch
  <2> QED
    BY <1>1, <2>1 DEF ProcessStruct, SchedulerKeeps
<1>0. store # <<>> => InStore(Head(store))
  BY <1>1 DEF InStore
<1>7. CASE SwapIn \/ IdleSwapIn
  <2>1. /\ proc' = [proc EXCEPT ![Head(store)] = Restored(@)]
        /\ InStore(Head(store))
    BY <1>0, <1>7 DEF SwapIn, IdleSwapIn, SwapInDue, IdleSwapInPossible
  <2>2. CASE p = Head(store)
    BY <1>1, <2>1, <2>2 DEF Restored, ProcessStruct, SchedulerKeeps
  <2>3. CASE p # Head(store)
    BY <1>1, <2>1, <2>3 DEF SchedulerKeeps
  <2> QED
    BY <2>2, <2>3
<1>8. CASE SwapOutAndIn
  <2>1. PICK c \in Cores :
          LET saved == [proc EXCEPT ![cpu_cores[c]].in_memory = FALSE]
          IN  proc' \in {saved, [saved EXCEPT ![Head(store)] = Restored(@)]}
    BY <1>8 DEF SwapOutAndIn
  <2> DEFINE saved == [proc EXCEPT ![cpu_cores[c]].in_memory = FALSE]
  <2>2. /\ saved[p].program_counter = proc[p].program_counter
        /\ saved[p].for_depth = proc[p].for_depth
    BY <1>1 DEF ProcessStruct
  <2>3. saved \in [Procs -> ProcessStruct]
    BY <1>1 DEF ProcessStruct
  <2>4. proc' = saved \/ proc' = [saved EXCEPT ![Head(store)] = Restored(@)]
    BY <2>1
  <2> HIDE DEF saved
  <2>5. CASE proc' = saved
    BY <2>2, <2>5 DEF SchedulerKeeps
  <2>6. CASE proc' = [saved EXCEPT ![Head(store)] = Restored(@)]
    <3>1. InStore(Head(store))
      BY <1>0, <1>8 DEF SwapOutAndIn, SwapInDue
    <3>2. CASE p = Head(store)
      <4>1. proc'[p] = Restored(saved[p])
        BY <2>3, <2>6, <3>2
      <4>2. ASSUME NEW r \in ProcessStruct
            PROVE  /\ Restored(r).program_counter = r.program_counter
                   /\ Restored(r).for_depth = 0
        BY DEF Restored, ProcessStruct
      <4> QED
        BY <2>2, <2>3, <3>1, <3>2, <4>1, <4>2 DEF SchedulerKeeps
    <3>3. CASE p # Head(store)
      BY <2>2, <2>3, <2>6, <3>3 DEF SchedulerKeeps
    <3> QED
      BY <3>2, <3>3
  <2> QED
    BY <2>4, <2>5, <2>6
<1>9. CASE UNCHANGED proc
  BY <1>9 DEF SchedulerKeeps
<1> QED
  BY <1>2, <1>3, <1>4, <1>5, <1>6, <1>7, <1>8, <1>9
  DEF SchedulerStep, GenerateNothing, AssignNothing, DispatchToStore,
      SwapNothing, IdleNothing

(* Nor does a command, but for those that show the counters.               *)
LEMMA SubmitCounters ==
  ASSUME Places, NEW q \in Procs, Submit(q)
  PROVE  \A p \in Procs : SameCounters(p)
<1>1. proc \in [Procs -> ProcessStruct]
  BY SlotTypes
<1> QED
  BY <1>1 DEF Submit, ProcessStruct, SameCounters

LEMMA CliCounters ==
  ASSUME Places, CliStep \/ UNCHANGED vars, ~Shows
  PROVE  \A p \in Procs : SameCounters(p)
<1>1. CASE \E p \in Procs : screen_start(p)
  BY <1>1, SubmitCounters DEF screen_start
<1>2. CASE UNCHANGED proc
  BY <1>2 DEF SameCounters
<1> QED
  BY <1>1, <1>2 DEF CliStep, stop_scheduler, vars, Shows

LEMMA ShowsReports ==
  ASSUME Shows
  PROVE  Reports
  BY DEF Shows, report_utilization, screen_list

(* A core moves the program counter of the process it holds, to the next   *)
(* instruction after the one it read or the one that is due now.           *)
LEMMA InstructCounters ==
  ASSUME Places, NEW c \in Cores, Instructs(c)
  PROVE  LET h == core[c].held
         IN  \/ proc'[h].program_counter
                  \in {proc[h].program_counter, proc[h].program_counter + 1}
             \/ /\ core[c].pc \in {"for", "commit"}
                /\ proc'[h].program_counter = core[c].at + 1
<1> DEFINE h == core[c].held
           counted == CountTick(h)
           Moved == \/ proc'[h].program_counter
                         \in {proc[h].program_counter, proc[h].program_counter + 1}
                    \/ /\ core[c].pc \in {"for", "commit"}
                       /\ proc'[h].program_counter = core[c].at + 1
<1>1. proc \in [Procs -> ProcessStruct] /\ h \in Procs
  BY SlotTypes, InstructionStructs
<1>2. counted \in [Procs -> ProcessStruct]
  BY <1>1, CountTickType DEF Places
<1>3. counted[h].program_counter = proc[h].program_counter
  BY <1>1 DEF CountTick, ProcessStruct
<1>4. CASE Execute(c)
  BY <1>1, <1>4 DEF Execute, ProcessStruct
<1>5. CASE EnterFor(c)
  BY <1>1, <1>5 DEF EnterFor, ProcessStruct
<1>6. CASE LeaveFor(c)
  <2>1. PICK from \in {core[c].at, proc[h].program_counter} :
          \E depth : proc' = [proc EXCEPT ![h].program_counter = from + 1,
                                         ![h].for_depth = depth - 1]
    BY <1>6 DEF LeaveFor
  <2>2. proc'[h].program_counter = from + 1
    BY <1>1, <2>1 DEF ProcessStruct
  <2>3. core[c].pc = "for"
    BY <1>6 DEF LeaveFor, At
  <2> QED
    BY <2>2, <2>3
<1>7. CASE ExecuteNothing(c)
  <2>1. proc' = counted
    BY <1>7 DEF ExecuteNothing
  <2> QED
    BY <1>3, <2>1
<1>8. CASE PopFor(c)
  <2>1. PICK depth : proc' = [counted EXCEPT ![h].program_counter = @ + 1,
                                             ![h].for_depth = depth]
    BY <1>8 DEF PopFor
  <2> HIDE DEF counted
  <2>2. proc'[h].program_counter = counted[h].program_counter + 1
    BY <1>1, <1>2, <2>1 DEF ProcessStruct
  <2> QED
    BY <1>3, <2>2
<1>9. CASE Commit(c)
  <2>1. PICK from \in {core[c].at, proc[h].program_counter} :
          \E left : proc' = [counted EXCEPT
                              ![h].program_counter =
                                 IF proc[h].for_depth > 0 THEN @ ELSE from + 1,
                              ![h].sleep_left = left]
    BY <1>9 DEF Commit
  <2> HIDE DEF counted
  <2>2. proc'[h].program_counter \in {counted[h].program_counter, from + 1}
    BY <1>1, <1>2, <2>1 DEF ProcessStruct
  <2>3. core[c].pc = "commit"
    BY <1>9 DEF Commit, At
  <2>4. \/ proc'[h].program_counter = proc[h].program_counter
        \/ proc'[h].program_counter \in {core[c].at + 1, proc[h].program_counter + 1}
    BY <1>3, <2>2
  <2> QED
    BY <2>3, <2>4
<1>10. Moved
  BY <1>4, <1>5, <1>6, <1>7, <1>8, <1>9 DEF Instructs
<1> QED
  BY <1>10

(* Where its thread goes, and what it knows of the pc.                     *)
LEMMA InstructThreads ==
  ASSUME Places, NEW c \in Cores, Instructs(c)
  PROVE  /\ Active(c) /\ ~core[c].dangling
         /\ core[c].pc \in {"execute", "for", "commit"}
         /\ \A d \in Cores : d # c => core'[d] = core[d]
         /\ core'[c].held = core[c].held
         /\ core'[c].dangling = core[c].dangling
         /\ core'[c].pc \in {"for", "commit", "complete"}
         /\ core'[c].pc \in {"for", "commit"}
              => core'[c].at = proc'[core[c].held].program_counter
         /\ UNCHANGED <<ready_queue, store, cpu_cores, used, finished, sched, fault>>
<1>1. core \in [Cores -> CoreThread] /\ proc \in [Procs -> ProcessStruct]
  BY SlotTypes
<1>2. core[c].held \in Procs
  BY InstructionStructs
<1>3. CASE Execute(c)
  <2>1. /\ proc'[core[c].held].program_counter = proc[core[c].held].program_counter
        /\ At(c, "execute") /\ ~core[c].dangling
    BY <1>1, <1>2, <1>3 DEF Execute, ProcessStruct
  <2> QED
    BY <1>1, <1>3, <2>1 DEF Execute, At, Active, CoreThread
<1>4. CASE EnterFor(c)
  <2>1. /\ proc'[core[c].held].program_counter = proc[core[c].held].program_counter
        /\ At(c, "execute") /\ ~core[c].dangling
    BY <1>1, <1>2, <1>4 DEF EnterFor, ProcessStruct
  <2> QED
    BY <1>1, <1>4, <2>1 DEF EnterFor, At, Active, CoreThread
<1>5. CASE LeaveFor(c)
  <2>1. PICK from, depth :
          /\ proc' = [proc EXCEPT ![core[c].held].program_counter = from + 1,
                                  ![core[c].held].for_depth = depth - 1]
          /\ core' = [core EXCEPT ![c].pc = "commit", ![c].at = from + 1]
    BY <1>5 DEF LeaveFor
  <2>2. proc'[core[c].held].program_counter = from + 1
    BY <1>1, <1>2, <2>1 DEF ProcessStruct
  <2> QED
    BY <1>1, <1>5, <2>1, <2>2 DEF LeaveFor, At, Active, CoreThread
<1>6. CASE PopFor(c) \/ ExecuteNothing(c) \/ Commit(c)
  <2>1. core' = [core EXCEPT ![c].pc = "complete"]
    BY <1>6 DEF PopFor, ExecuteNothing, Commit
  <2>2. /\ At(c, "execute") \/ At(c, "commit")
        /\ ~core[c].dangling
        /\ UNCHANGED <<ready_queue, store, cpu_cores, used, finished, sched, fault>>
    BY <1>6 DEF PopFor, ExecuteNothing, Commit
  <2> QED
    BY <1>1, <2>1, <2>2 DEF At, Active, CoreThread
<1> QED
  BY <1>3, <1>4, <1>5, <1>6 DEF Instructs

LEMMA OtherCounters ==
  ASSUME Places, NEW c \in Cores, CoreLockStep(c) \/ Looks(c)
  PROVE  \A p \in Procs : SameCounters(p)
<1>1. proc \in [Procs -> ProcessStruct]
  BY SlotTypes
<1>2. CASE Complete(c)
  BY <1>1, <1>2 DEF Complete, ProcessStruct, SameCounters
<1>3. CASE UNCHANGED proc
  BY <1>3 DEF SameCounters
<1> QED
  BY <1>2, <1>3
  DEF CoreLockStep, Remove, Looks, Read, Validate, NotComplete, UseAfterFree,
      PrintToNull, PushBelowStack

LEMMA KindsOfCoreSteps ==
  ASSUME NEW c \in Cores, CoreLockStep(c) \/ CoreRunStep(c)
  PROVE  Instructs(c) \/ Looks(c) \/ Remove(c) \/ Complete(c)
  BY DEF CoreLockStep, CoreRunStep, Instructs, Looks

-----------------------------------------------------------------------------
(* Slots is inductive.                                                     *)

HoldsSlot(c) == Active(c) => core[c].dangling \/ cpu_cores[c] = core[c].held

(* A thread that goes on where it was keeps its slot and its counter.      *)
LEMMA ThreadKept ==
  ASSUME Places, SlotHeld, CountersApart, NEW d \in Cores,
         core'[d].pc = core[d].pc, core'[d].held = core[d].held,
         core'[d].at = core[d].at, core[d].dangling => core'[d].dangling,
         Active(d) /\ ~core[d].dangling
           => /\ cpu_cores'[d] = cpu_cores[d] \/ core'[d].dangling
              /\ proc'[core[d].held].program_counter
                   = proc[core[d].held].program_counter
  PROVE  HoldsSlot(d)' /\ (~Reports => AtIsCounter(d)')
<1>1. HoldsSlot(d)'
  BY DEF SlotHeld, HoldsSlot, Active
<1>2. ASSUME ~Reports PROVE AtIsCounter(d)'
  <2>1. AtIsCounter(d)
    BY <1>2 DEF CountersApart
  <2>2. core'[d].pc \in {"for", "commit"} => Active(d)
    BY DEF Active
  <2> QED
    BY <2>1, <2>2 DEF AtIsCounter
<1> QED
  BY <1>1, <1>2

LEMMA ThreadIdle ==
  ASSUME NEW d \in Cores, core'[d].pc \in {"read", "complete"}
  PROVE  HoldsSlot(d)' /\ (~Reports => AtIsCounter(d)')
  BY DEF HoldsSlot, Active, AtIsCounter

LEMMA ThreadsTogether ==
  ASSUME \A d \in Cores : HoldsSlot(d)' /\ (~Reports => AtIsCounter(d)')
  PROVE  SlotHeld' /\ CountersApart'
  BY DEF SlotHeld, HoldsSlot, CountersApart

(* The scheduler thread frees structs, and leaves the threads alone.       *)
LEMMA SchedulerThreads ==
  ASSUME Places, SchedulerStep, NEW d \in Cores
  PROVE  /\ core'[d].pc = core[d].pc /\ core'[d].held = core[d].held
         /\ core'[d].at = core[d].at
         /\ core[d].dangling => core'[d].dangling
<1>1. core \in [Cores -> CoreThread]
  BY SlotTypes
<1>2. CASE Tick
  BY <1>1, <1>2 DEF Tick, CoreThread
<1>3. CASE DispatchToStore \/ SwapOutAndIn
  <2>1. PICK p : core' = StructFreed(p)
    BY <1>3 DEF DispatchToStore, SwapOutAndIn
  <2> QED
    BY <1>1, <2>1 DEF StructFreed, CoreThread
<1>4. CASE core' = core
  BY <1>4
<1> QED
  BY <1>2, <1>3, <1>4
  DEF SchedulerStep, Generate, GenerateNothing, WakeSleepers, Preempt,
      AssignNothing, Dispatch, SwapIn, SwapNothing, IdleSwapIn, IdleNothing

LEMMA SchedulerSlots ==
  ASSUME ~RoundRobin, Slots, SchedulerStep
  PROVE  NoPreemption' /\ SlotHeld' /\ CountersApart' /\ UsedCountsCores'
<1>1. /\ Places /\ NoPreemption /\ SlotHeld /\ CountersApart /\ UsedCountsCores
      /\ cpu_cores \in [Cores -> Procs \cup {NoProc}]
      /\ core \in [Cores -> CoreThread]
      /\ sched \in [pc : SchedSteps, slot : Cores] /\ ready_queue \in Seq(Procs)
  BY SlotTypes DEF Slots
<1>2. ~Preempt
  BY <1>1 DEF NoPreemption, Preempt
<1>3. NoPreemption'
  <2>1. ASSUME NEW step, step # "preempt", Goto(step) PROVE NoPreemption'
    BY <2>1 DEF Goto, NoPreemption
  <2>2. ASSUME NEW step, step # "preempt", NextSlot(step) PROVE NoPreemption'
    BY <1>1, <2>1, <2>2 DEF NextSlot, NoPreemption
  <2> QED
    BY <1>2, <2>1, <2>2
    DEF SchedulerStep, Tick, Generate, GenerateNothing, WakeSleepers, AfterWake,
        AssignNothing, Dispatch, DispatchToStore, SwapIn, SwapOutAndIn,
        SwapNothing, IdleSwapIn, IdleNothing
<1>4. ASSUME NEW d \in Cores, Active(d), ~core[d].dangling
      PROVE  /\ core[d].held \in Procs /\ cpu_cores[d] = core[d].held
             /\ proc'[core[d].held].program_counter
                  = proc[core[d].held].program_counter
  <2>1. core[d].held \in Procs
    BY <1>1, <1>4, HeldIsProcess DEF Places, Active
  <2> QED
    BY <1>1, <1>4, <2>1, SchedulerCounters DEF SlotHeld, SchedulerKeeps
<1>5. ASSUME \A d \in Cores : Active(d) /\ ~core[d].dangling
                => cpu_cores'[d] = cpu_cores[d] \/ core'[d].dangling
      PROVE  SlotHeld' /\ CountersApart'
  <2>1. ASSUME NEW d \in Cores
        PROVE  HoldsSlot(d)' /\ (~Reports => AtIsCounter(d)')
    <3>1. /\ core'[d].pc = core[d].pc /\ core'[d].held = core[d].held
          /\ core'[d].at = core[d].at
          /\ core[d].dangling => core'[d].dangling
      BY <1>1, SchedulerThreads
    <3>2. Active(d) /\ ~core[d].dangling
            => /\ cpu_cores'[d] = cpu_cores[d] \/ core'[d].dangling
               /\ proc'[core[d].held].program_counter
                    = proc[core[d].held].program_counter
      BY <1>4, <1>5
    <3> QED
      BY <1>1, <3>1, <3>2, ThreadKept
  <2> QED
    BY <2>1, ThreadsTogether
<1>6. CASE Dispatch
  <2>1. /\ cpu_cores[sched.slot] = NoProc /\ used' = used + 1
        /\ cpu_cores' = [cpu_cores EXCEPT ![sched.slot] = Head(ready_queue)]
        /\ ready_queue # <<>>
    BY <1>6 DEF Dispatch
  <2>2. Head(ready_queue) \in Procs /\ sched.slot \in Cores
    BY <1>1, <2>1, Queues
  <2>3. UsedCountsCores'
    BY <1>1, <2>1, <2>2, CountFilled
  <2>4. ASSUME NEW d \in Cores, Active(d), ~core[d].dangling
        PROVE  cpu_cores'[d] = cpu_cores[d]
    BY <1>1, <1>4, <2>1, <2>4, Constants
  <2>5. SlotHeld' /\ CountersApart'
    BY <1>5, <2>4
  <2> QED
    BY <1>3, <2>3, <2>5
<1>7. CASE SwapOutAndIn
  <2>1. PICK c \in Cores :
          /\ OnCoreRunning(c) /\ used' = used - 1
          /\ cpu_cores' = [cpu_cores EXCEPT ![c] = NoProc]
          /\ core' = StructFreed(cpu_cores[c])
    BY <1>7 DEF SwapOutAndIn
  <2>2. UsedCountsCores'
    BY <1>1, <2>1, CountCleared DEF OnCoreRunning
  <2>3. ASSUME NEW d \in Cores, Active(d), ~core[d].dangling
        PROVE  cpu_cores'[d] = cpu_cores[d] \/ core'[d].dangling
    <3>1. CASE d = c
      BY <1>1, <1>4, <2>1, <2>3, <3>1 DEF StructFreed, CoreThread
    <3>2. CASE d # c
      BY <1>1, <2>1, <3>2
    <3> QED
      BY <3>1, <3>2
  <2>4. SlotHeld' /\ CountersApart'
    BY <1>5, <2>3
  <2> QED
    BY <1>3, <2>2, <2>4
<1>8. CASE UNCHANGED <<cpu_cores, used>>
  <2>1. SlotHeld' /\ CountersApart'
    BY <1>5, <1>8
  <2> QED
    BY <1>1, <1>3, <1>8, <2>1, CountKept
<1> QED
  BY <1>2, <1>6, <1>7, <1>8
  DEF SchedulerStep, Tick, Generate, GenerateNothing, WakeSleepers,
      AssignNothing, DispatchToStore, SwapIn, SwapNothing, IdleSwapIn, IdleNothing

(* A core disturbs no other: they work on different processes.             *)
LEMMA OtherThreads ==
  ASSUME NEW c \in Cores, CoreLockStep(c) \/ CoreRunStep(c), Places,
         NEW d \in Cores, d # c
  PROVE  core'[d] = core[d] /\ cpu_cores'[d] = cpu_cores[d] /\ sched' = sched
<1>1. cpu_cores \in [Cores -> Procs \cup {NoProc}] /\ core \in [Cores -> CoreThread]
  BY SlotTypes
<1>2. CASE Instructs(c)
  BY <1>2, InstructThreads
<1>3. CASE Looks(c)
  BY <1>1, <1>3 DEF Looks, Read, Validate, NotComplete, UseAfterFree, PrintToNull,
                    PushBelowStack
<1>4. CASE Remove(c) \/ Complete(c)
  BY <1>1, <1>4 DEF Remove, Complete
<1> QED
  BY <1>2, <1>3, <1>4, KindsOfCoreSteps

LEMMA OtherCores ==
  ASSUME Slots, NEW c \in Cores, CoreLockStep(c) \/ CoreRunStep(c),
         NEW d \in Cores, d # c
  PROVE  HoldsSlot(d)' /\ (~Reports => AtIsCounter(d)')
<1>1. /\ Places /\ SlotHeld /\ CountersApart /\ CoresApart /\ NoProc \notin Procs
  BY SlotTypes DEF Slots
<1>2. core'[d] = core[d] /\ cpu_cores'[d] = cpu_cores[d]
  BY <1>1, OtherThreads
<1>3. ASSUME Active(d), ~core[d].dangling
      PROVE  proc'[core[d].held].program_counter
               = proc[core[d].held].program_counter
  <2>1. core[d].held \in Procs /\ cpu_cores[d] = core[d].held
    BY <1>1, <1>3, HeldIsProcess DEF Places, Active, SlotHeld
  <2>2. CASE Instructs(c)
    <3>1. Active(c) /\ ~core[c].dangling
      BY <1>1, <2>2, InstructThreads
    <3>2. core[d].held # core[c].held
      BY <1>1, <2>1, <3>1 DEF SlotHeld, CoresApart
    <3> QED
      BY <1>1, <2>1, <2>2, <3>2, InstructionStructs
  <2>3. CASE CoreLockStep(c) \/ Looks(c)
    BY <1>1, <2>1, <2>3, OtherCounters DEF SameCounters
  <2> QED
    BY <2>2, <2>3 DEF CoreRunStep, Instructs, Looks
<1> QED
  BY <1>1, <1>2, <1>3, ThreadKept

LEMMA ThisCore ==
  ASSUME Slots, NEW c \in Cores, CoreLockStep(c) \/ CoreRunStep(c)
  PROVE  HoldsSlot(c)' /\ (~Reports => AtIsCounter(c)')
<1>1. /\ Places /\ SlotHeld /\ CountersApart
      /\ cpu_cores \in [Cores -> Procs \cup {NoProc}]
      /\ core \in [Cores -> CoreThread]
  BY SlotTypes DEF Slots
<1>2. CASE Read(c)
  <2>1. /\ core'[c].held = cpu_cores[c] /\ cpu_cores' = cpu_cores
        /\ core'[c].pc \in {"validate", "complete"}
    BY <1>1, <1>2 DEF Read, CoreThread
  <2> QED
    BY <2>1 DEF HoldsSlot, AtIsCounter
<1>3. CASE Validate(c)
  <2>1. /\ core'[c].held = core[c].held /\ cpu_cores' = cpu_cores
        /\ core'[c].pc \in {"execute", "remove"}
        /\ Active(c) /\ ~core[c].dangling
    BY <1>1, <1>3 DEF Validate, CoreThread, At, Active
  <2> QED
    BY <1>1, <2>1 DEF HoldsSlot, AtIsCounter, SlotHeld
<1>4. CASE Instructs(c)
  <2>1. /\ core'[c].held = core[c].held /\ cpu_cores' = cpu_cores
        /\ core'[c].pc \in {"for", "commit"}
             => core'[c].at = proc'[core[c].held].program_counter
        /\ Active(c) /\ ~core[c].dangling
    BY <1>1, <1>4, InstructThreads
  <2> QED
    BY <1>1, <2>1 DEF HoldsSlot, AtIsCounter, SlotHeld
<1>5. CASE Remove(c) \/ Complete(c) \/ NotComplete(c)
  <2>1. core'[c].pc \in {"read", "complete"}
    BY <1>1, <1>5 DEF Remove, Complete, NotComplete, IdleThread, CoreThread
  <2> QED
    BY <2>1, ThreadIdle
<1>6. CASE UseAfterFree(c) \/ PrintToNull(c) \/ PushBelowStack(c)
  <2>1. UNCHANGED <<core, cpu_cores, proc>>
    BY <1>6 DEF UseAfterFree, PrintToNull, PushBelowStack
  <2> QED
    BY <1>1, <2>1, ThreadKept
<1> QED
  BY <1>2, <1>3, <1>4, <1>5, <1>6, KindsOfCoreSteps DEF Looks

LEMMA CoreSlots ==
  ASSUME Slots, NEW c \in Cores, CoreLockStep(c) \/ CoreRunStep(c)
  PROVE  NoPreemption' /\ SlotHeld' /\ CountersApart' /\ UsedCountsCores'
<1>1. /\ Places /\ NoPreemption /\ SlotHeld /\ UsedCountsCores
      /\ cpu_cores \in [Cores -> Procs \cup {NoProc}]
  BY SlotTypes DEF Slots
<1>2. SlotHeld' /\ CountersApart'
  BY OtherCores, ThisCore, ThreadsTogether
<1>3. CASE Remove(c) \/ Complete(c)
  <2>1. cpu_cores[c] # NoProc
    <3>1. CASE Remove(c)
      <4>1. Active(c) /\ ~core[c].dangling
        BY <3>1 DEF Remove, AtLock, At, Active
      <4> QED
        BY <1>1, <4>1, HeldIsProcess, Constants DEF Places, Active, SlotHeld
    <3>2. CASE Complete(c)
      BY <3>2 DEF Complete, Done
    <3> QED
      BY <1>3, <3>1, <3>2
  <2>2. /\ used' = used - 1 /\ cpu_cores' = [cpu_cores EXCEPT ![c] = NoProc]
        /\ sched' = sched
    BY <1>3 DEF Remove, Complete
  <2> QED
    BY <1>1, <1>2, <2>1, <2>2, CountCleared DEF NoPreemption
<1>4. CASE Instructs(c) \/ Looks(c)
  <2>1. UNCHANGED <<cpu_cores, used, sched>>
    <3>1. CASE Instructs(c)
      BY <1>1, <3>1, InstructThreads
    <3>2. CASE Looks(c)
      BY <3>2 DEF Looks, Read, Validate, NotComplete, UseAfterFree, PrintToNull,
                  PushBelowStack
    <3> QED
      BY <1>4, <3>1, <3>2
  <2> QED
    BY <1>1, <1>2, <2>1, CountKept DEF NoPreemption
<1> QED
  BY <1>3, <1>4, KindsOfCoreSteps

LEMMA CliSlots ==
  ASSUME Slots, CliStep \/ UNCHANGED vars
  PROVE  NoPreemption' /\ SlotHeld' /\ CountersApart' /\ UsedCountsCores'
<1>1. /\ Places /\ NoPreemption /\ SlotHeld /\ CountersApart /\ UsedCountsCores
      /\ core \in [Cores -> CoreThread]
  BY SlotTypes DEF Slots
<1>2. UNCHANGED <<sched, core, cpu_cores, used>>
  BY DEF CliStep, screen_start, screen_list, stop_scheduler, report_utilization, vars
<1>3. ASSUME ~Reports
      PROVE  \A p \in Procs : proc'[p].program_counter = proc[p].program_counter
  BY <1>1, <1>3, CliCounters, ShowsReports DEF SameCounters
<1>4. SlotHeld'
  BY <1>1, <1>2 DEF SlotHeld, Active
<1>5. CountersApart'
  <2>1. ASSUME ~Reports, NEW c \in Cores PROVE AtIsCounter(c)'
    <3>1. AtIsCounter(c)
      BY <1>1, <2>1 DEF CountersApart
    <3>2. core[c].pc \in {"for", "commit"} => core[c].held \in Procs
      BY <1>1, HeldIsProcess DEF Places
    <3> QED
      BY <1>2, <1>3, <2>1, <3>1, <3>2 DEF AtIsCounter
  <2> QED
    BY <2>1 DEF CountersApart
<1>6. NoPreemption' /\ UsedCountsCores'
  BY <1>1, <1>2, CountKept DEF NoPreemption
<1> QED
  BY <1>4, <1>5, <1>6

LEMMA InitSlots == Init => Slots
<1> SUFFICES ASSUME Init
             PROVE  NoPreemption /\ SlotHeld /\ CountersApart /\ UsedCountsCores
  BY InitPlaces DEF Slots
<1>1. /\ sched.pc = "tick" /\ used = 0
      /\ \A c \in Cores : core[c].pc = "read" /\ cpu_cores[c] = NoProc
  BY DEF Init, IdleThread
<1>2. Occupied = {}
  BY <1>1 DEF Occupied
<1>3. UsedCountsCores
  BY <1>1, <1>2, FS_EmptySet DEF UsedCountsCores, Occupied
<1> QED
  BY <1>1, <1>3 DEF NoPreemption, SlotHeld, Active, CountersApart, AtIsCounter

LEMMA NextSlots ==
  ASSUME ~RoundRobin, Slots, [Next]_vars
  PROVE  Slots'
<1>1. Places'
  BY NextPlaces DEF Slots
<1> QED
  BY <1>1, SchedulerSlots, CoreSlots, CliSlots DEF Slots, Next

(* Under fcfs the counter behind the utilization is the number of cores    *)
(* that have a process, with and without swapping: a core that removes a   *)
(* process has one in its slot, so update_cpu_util(-1) is called once for  *)
(* each process that leaves.                                               *)
THEOREM UsedIsTheBusyCores ==
  ASSUME ~RoundRobin PROVE Spec => []UsedCountsCores
<1>1. Slots /\ [Next]_vars => Slots'
  BY NextSlots
<1>2. Slots => UsedCountsCores
  BY DEF Slots
<1> QED
  BY InitSlots, <1>1, <1>2, PTL DEF Spec

(* What core c holds advances by one instruction at most.                  *)
LEMMA InstructAdvances ==
  ASSUME ~Reports, Slots, NEW c \in Cores, Instructs(c)
  PROVE  proc'[core[c].held].program_counter
           \in {proc[core[c].held].program_counter,
                proc[core[c].held].program_counter + 1}
<1>1. ~core[c].dangling /\ Places /\ AtIsCounter(c)
  BY InstructThreads DEF Slots, CountersApart
<1> QED
  BY <1>1, InstructCounters DEF AtIsCounter

LEMMA StepCounters ==
  ASSUME ~Reports, Slots, [Next]_vars
  PROVE  \A p \in Procs : proc'[p].program_counter >= proc[p].program_counter
<1>1. Places
  BY DEF Slots
<1>2. \A p \in Procs : proc[p].program_counter \in Nat
  BY <1>1, SlotTypes DEF ProcessStruct
<1>3. CASE \A p \in Procs : proc'[p].program_counter = proc[p].program_counter
  BY <1>2, <1>3
<1>4. ASSUME NEW c \in Cores, Instructs(c)
      PROVE  \A p \in Procs : proc'[p].program_counter >= proc[p].program_counter
  <2>1. /\ core[c].held \in Procs
        /\ \A p \in Procs : p # core[c].held => proc'[p] = proc[p]
    BY <1>1, <1>4, InstructionStructs
  <2>2. proc'[core[c].held].program_counter >= proc[core[c].held].program_counter
    BY <1>2, <1>4, <2>1, InstructAdvances
  <2> QED
    BY <1>2, <2>1, <2>2
<1>5. CASE SchedulerStep
  BY <1>1, <1>3, <1>5, SchedulerCounters DEF SchedulerKeeps
<1>6. ASSUME NEW c \in Cores, CoreLockStep(c) \/ CoreRunStep(c)
      PROVE  \A p \in Procs : proc'[p].program_counter >= proc[p].program_counter
  <2>1. CASE CoreLockStep(c) \/ Looks(c)
    BY <1>1, <1>3, <2>1, OtherCounters DEF SameCounters
  <2> QED
    BY <1>4, <1>6, <2>1 DEF CoreRunStep, Instructs, Looks
<1>7. CASE CliStep \/ UNCHANGED vars
  BY <1>1, <1>3, <1>7, CliCounters, ShowsReports DEF SameCounters
<1> QED
  BY <1>5, <1>6, <1>7 DEF Next

(* Under fcfs, and unless the user asks for a report, no instruction is    *)
(* gone back to, with and without swapping: a pc incremented without a     *)
(* lock is incremented by one core, and a process that was swapped out     *)
(* goes on where it was.                                                   *)
THEOREM CountersOnlyGrow ==
  ASSUME ~RoundRobin, ~Reports PROVE Spec => PcNeverGoesBack
<1>1. Slots /\ [Next]_vars => Slots'
  BY NextSlots
<1>2. Slots /\ [Next]_vars
        => [\A p \in Procs :
              proc'[p].program_counter >= proc[p].program_counter]_vars
  BY StepCounters
<1> QED
  BY InitSlots, <1>1, <1>2, PTL DEF Spec, PcNeverGoesBack

-----------------------------------------------------------------------------
(* A process is in a FOR while a core executes the FOR, as long as no two  *)
(* threads do.                                                             *)

Loops ==
  /\ \A c \in Cores : At(c, "for") /\ ~core[c].dangling
                       => proc[core[c].held].for_depth = 1
  /\ \A p \in Procs : proc[p].for_depth # 0
                       => \E c \in Cores : At(c, "for") /\ core[c].held = p

StoredDangling ==
  \A c \in Cores : Active(c) /\ InStore(core[c].held) => core[c].dangling

LEMMA SchedulerLoops ==
  ASSUME Places, Loops, StoredDangling, SchedulerStep
  PROVE  Loops'
<1>1. \A d \in Cores : /\ core'[d].pc = core[d].pc /\ core'[d].held = core[d].held
                       /\ core[d].dangling => core'[d].dangling
  BY SchedulerThreads
<1>2. \A p \in Procs : \/ proc'[p].for_depth = proc[p].for_depth
                       \/ proc'[p].for_depth = 0 /\ InStore(p)
  BY SchedulerCounters DEF SchedulerKeeps
<1>3. ASSUME NEW d \in Cores, At(d, "for")', ~core'[d].dangling
      PROVE  proc'[core'[d].held].for_depth = 1
  <2>1. /\ At(d, "for") /\ ~core[d].dangling /\ Active(d)
        /\ core[d].held \in Procs
    BY <1>1, <1>3, HeldIsProcess DEF At, Active, Places
  <2>2. ~InStore(core[d].held) /\ proc[core[d].held].for_depth = 1
    BY <2>1 DEF StoredDangling, Loops
  <2> QED
    BY <1>1, <1>2, <2>1, <2>2
<1>4. ASSUME NEW p \in Procs, proc'[p].for_depth # 0
      PROVE  \E d \in Cores : At(d, "for")' /\ core'[d].held = p
  <2>1. proc[p].for_depth # 0
    BY <1>2, <1>4
  <2>2. PICK d \in Cores : At(d, "for") /\ core[d].held = p
    BY <2>1 DEF Loops
  <2> QED
    BY <1>1, <2>2 DEF At
<1> QED
  BY <1>3, <1>4 DEF Loops, At

(* No other core executes a FOR of the process that core c works on.       *)
Alone(c) ==
  Active(c) /\ ~core[c].dangling
    => \A d \in Cores : At(d, "for") /\ core[d].held = core[c].held => d = c

(* Nobody can then pop its loop.                                           *)
LEMMA LoopIsOwn ==
  ASSUME Places, Loops, NEW c \in Cores, Alone(c), At(c, "execute"),
         ~core[c].dangling
  PROVE  core[c].held \in Procs /\ proc[core[c].held].for_depth = 0
<1>1. core[c].held \in Procs
  BY HeldIsProcess DEF At, Places
<1>2. \A d \in Cores : ~(At(d, "for") /\ core[d].held = core[c].held)
  BY DEF Alone, Active, At
<1> QED
  BY <1>1, <1>2 DEF Loops

LEMMA CoreLoops ==
  ASSUME Places, Loops, NEW c \in Cores, Alone(c), CoreLockStep(c) \/ CoreRunStep(c)
  PROVE  Loops'
<1>1. proc \in [Procs -> ProcessStruct] /\ core \in [Cores -> CoreThread]
  BY SlotTypes
<1>2. \A d \in Cores : d # c => core'[d] = core[d]
  BY OtherThreads
<1>3. ASSUME ~At(c, "for"), ~At(c, "for")',
             \A p \in Procs : proc'[p].for_depth = proc[p].for_depth
      PROVE  Loops'
  <2>1. ASSUME NEW d \in Cores, At(d, "for")'
        PROVE  At(d, "for") /\ core'[d] = core[d] /\ core[d].held \in Procs
    BY <1>2, <1>3, <2>1, HeldIsProcess DEF At, Places
  <2>2. ASSUME NEW d \in Cores, At(d, "for") PROVE At(d, "for")' /\ core'[d] = core[d]
    BY <1>2, <1>3, <2>2 DEF At
  <2> QED
    BY <1>3, <2>1, <2>2 DEF Loops
<1>4. CASE EnterFor(c) \/ LeaveFor(c)
  <2> DEFINE h == core[c].held
  <2>1. /\ h \in Procs /\ Active(c) /\ ~core[c].dangling
        /\ core'[c].held = h
        /\ \A p \in Procs : p # h => proc'[p] = proc[p]
    BY <1>4, InstructionStructs, InstructThreads DEF Instructs
  <2>2. \A d \in Cores : d # c /\ At(d, "for") => core[d].held # h
    BY <2>1 DEF Alone
  <2>3. \A d \in Cores : At(d, "for") => core[d].held \in Procs
    BY HeldIsProcess DEF At, Places
  <2>4. \A d \in Cores : d # c => (At(d, "for")' <=> At(d, "for"))
    BY <1>2 DEF At
  <2>5. CASE EnterFor(c)
    <3>1. proc[h].for_depth = 0 /\ proc' = [proc EXCEPT ![h].for_depth = @ + 1]
      BY <2>5 DEF EnterFor
    <3>2. proc'[h].for_depth = 1
      BY <1>1, <2>1, <3>1 DEF ProcessStruct
    <3>3. At(c, "for")'
      BY <1>1, <2>5 DEF EnterFor, At, CoreThread
    <3>4. ASSUME NEW d \in Cores, At(d, "for")', ~core'[d].dangling
          PROVE  proc'[core'[d].held].for_depth = 1
      <4>1. CASE d = c
        BY <2>1, <3>2, <4>1
      <4>2. CASE d # c
        BY <1>2, <2>1, <2>2, <2>3, <2>4, <3>4, <4>2 DEF Loops
      <4> QED
        BY <4>1, <4>2
    <3>5. ASSUME NEW p \in Procs, proc'[p].for_depth # 0
          PROVE  \E d \in Cores : At(d, "for")' /\ core'[d].held = p
      <4>1. CASE p = h
        BY <2>1, <3>3, <4>1
      <4>2. CASE p # h
        <5>1. PICK d \in Cores : At(d, "for") /\ core[d].held = p
          BY <2>1, <3>5, <4>2 DEF Loops
        <5>2. d # c
          BY <4>2, <5>1
        <5> QED
          BY <1>2, <2>4, <5>1, <5>2
      <4> QED
        BY <4>1, <4>2
    <3> QED
      BY <3>4, <3>5 DEF Loops, At
  <2>6. CASE LeaveFor(c)
    <3>1. proc[h].for_depth = 1 /\ At(c, "for")
      BY <2>1, <2>6 DEF LeaveFor, Loops
    <3>2. PICK from \in {core[c].at, proc[h].program_counter},
               depth \in {1, proc[h].for_depth} :
            proc' = [proc EXCEPT ![h].program_counter = from + 1,
                                 ![h].for_depth = depth - 1]
      BY <2>6 DEF LeaveFor
    <3>3. proc'[h].for_depth = 0
      <4>1. proc'[h].for_depth = depth - 1 /\ depth = 1
        BY <1>1, <2>1, <3>1, <3>2 DEF ProcessStruct
      <4> QED
        BY <4>1
    <3>4. ~At(c, "for")'
      BY <1>1, <2>6 DEF LeaveFor, At, CoreThread
    <3>5. ASSUME NEW d \in Cores, At(d, "for")', ~core'[d].dangling
          PROVE  proc'[core'[d].held].for_depth = 1
      BY <1>2, <2>1, <2>2, <2>3, <2>4, <3>4, <3>5 DEF Loops
    <3>6. ASSUME NEW p \in Procs, proc'[p].for_depth # 0
          PROVE  \E d \in Cores : At(d, "for")' /\ core'[d].held = p
      <4>1. p # h
        BY <3>3, <3>6
      <4>2. PICK d \in Cores : At(d, "for") /\ core[d].held = p
        BY <2>1, <3>6, <4>1 DEF Loops
      <4>3. d # c
        BY <4>1, <4>2
      <4> QED
        BY <1>2, <2>4, <4>2, <4>3
    <3> QED
      BY <3>5, <3>6 DEF Loops, At
  <2> QED
    BY <1>4, <2>5, <2>6
<1>5. CASE Execute(c) \/ ExecuteNothing(c) \/ Commit(c)
  <2> DEFINE h == core[c].held
             counted == CountTick(h)
  <2>1. h \in Procs /\ \A p \in Procs : p # h => proc'[p] = proc[p]
    BY <1>5, InstructionStructs DEF Instructs
  <2>2. /\ counted \in [Procs -> ProcessStruct]
        /\ counted[h].for_depth = proc[h].for_depth
    <3>1. counted \in [Procs -> ProcessStruct]
      BY <2>1, CountTickType DEF Places
    <3> QED
      BY <1>1, <2>1, <3>1 DEF CountTick, ProcessStruct
  <2>3. proc'[h].for_depth = proc[h].for_depth
    <3>1. CASE Execute(c)
      BY <1>1, <2>1, <3>1 DEF Execute, ProcessStruct
    <3>2. CASE ExecuteNothing(c)
      <4>1. proc' = counted
        BY <3>2 DEF ExecuteNothing
      <4> QED
        BY <2>2, <4>1
    <3>3. CASE Commit(c)
      <4>1. PICK from, left :
              proc' = [counted EXCEPT
                         ![h].program_counter =
                            IF proc[h].for_depth > 0 THEN @ ELSE from + 1,
                         ![h].sleep_left = left]
        BY <3>3 DEF Commit
      <4> HIDE DEF counted
      <4>2. PICK n : proc' = [counted EXCEPT ![h].program_counter = n,
                                             ![h].sleep_left = left]
        BY <4>1
      <4>3. proc'[h].for_depth = counted[h].for_depth
        BY <2>1, <2>2, <4>2 DEF ProcessStruct
      <4> QED
        BY <2>2, <4>3
    <3> QED
      BY <1>5, <3>1, <3>2, <3>3
  <2>4. ~At(c, "for") /\ ~At(c, "for")'
    BY <1>1, <1>5 DEF Execute, ExecuteNothing, Commit, At, CoreThread
  <2>5. \A p \in Procs : proc'[p].for_depth = proc[p].for_depth
    BY <2>1, <2>3
  <2> QED
    BY <1>3, <2>4, <2>5
<1>6. ~PopFor(c)
  <2>1. ASSUME PopFor(c) PROVE FALSE
    <3>1. /\ At(c, "execute") /\ ~core[c].dangling
          /\ proc[core[c].held].for_depth > 0
      BY <2>1 DEF PopFor
    <3>2. proc[core[c].held].for_depth = 0
      BY <3>1, LoopIsOwn
    <3> QED
      BY <3>1, <3>2
  <2> QED
    BY <2>1
<1>7. CASE UseAfterFree(c) \/ PrintToNull(c) \/ PushBelowStack(c)
  <2>1. UNCHANGED <<core, proc>>
    BY <1>7 DEF UseAfterFree, PrintToNull, PushBelowStack
  <2> QED
    BY <2>1 DEF Loops, At
<1>8. CASE CoreLockStep(c) \/ Validate(c)
  <2>1. \A p \in Procs : proc'[p].for_depth = proc[p].for_depth
    BY <1>8, OtherCounters DEF SameCounters, Looks
  <2>2. ~At(c, "for") /\ ~At(c, "for")'
    BY <1>1, <1>8 DEF CoreLockStep, Read, Remove, Complete, NotComplete, Validate,
                      AtLock, At, IdleThread, CoreThread
  <2> QED
    BY <1>3, <2>1, <2>2
<1> QED
  BY <1>4, <1>5, <1>6, <1>7, <1>8 DEF CoreRunStep

LEMMA CliLoops ==
  ASSUME Places, Loops, CliStep \/ UNCHANGED vars
  PROVE  Loops'
<1>1. \A p \in Procs : proc'[p].for_depth = proc[p].for_depth
  BY CliCounters, ReportStructs DEF SameCounters, Shows
<1>2. core' = core
  BY DEF CliStep, screen_start, screen_list, stop_scheduler, report_utilization, vars
<1>3. \A d \in Cores : At(d, "for") => core[d].held \in Procs
  BY HeldIsProcess DEF At, Places
<1> QED
  BY <1>1, <1>2, <1>3 DEF Loops, At

LEMMA InitLoops == Init => Loops
  BY DEF Init, NewProcess, IdleThread, Loops, At

-----------------------------------------------------------------------------
(* Where the memory suffices: the store stays empty, so no struct is freed *)
(* under a thread and no process loses its logs.  A core that validates a  *)
(* process then always finds it executable: nothing is removed.            *)

StepsLeftOf(p) == proc[p].program_counter < NumInst(p)

ThreadsSafe == \A c \in Cores : ~core[c].dangling /\ core[c].pc # "remove"

StructsWhole == \A p \in Procs : proc[p].logs /\ (proc[p].in_memory => OnCore(p))

StepsLeft ==
  /\ \A c \in Cores :
       core[c].pc \in {"read", "validate", "execute"} /\ cpu_cores[c] # NoProc
         => StepsLeftOf(cpu_cores[c])
  /\ \A p \in Procs : InQueue(p) \/ proc[p].state = "NEW" => StepsLeftOf(p)

Undisturbed ==
  /\ store = <<>> /\ fault = "none"
  /\ ThreadsSafe /\ StructsWhole /\ StepsLeft /\ NoneLost

Serves == Slots /\ Undisturbed /\ Loops

LEMMA ServesTypes ==
  ASSUME Serves
  PROVE  /\ Places /\ SlotHeld /\ CountersApart /\ NoPreemption
         /\ proc \in [Procs -> ProcessStruct] /\ core \in [Cores -> CoreThread]
         /\ ready_queue \in Seq(Procs)
         /\ cpu_cores \in [Cores -> Procs \cup {NoProc}]
         /\ OnePlace /\ NewNowhere /\ CoresApart /\ NoProc \notin Procs
         /\ store = <<>> /\ fault = "none"
         /\ ThreadsSafe /\ StructsWhole /\ StepsLeft /\ NoneLost /\ Loops
  BY SlotTypes DEF Serves, Undisturbed, Slots

(* A thread that executes works on the process of its slot.                *)
LEMMA ActiveHolds ==
  ASSUME Serves, NEW c \in Cores,
         core[c].pc \in {"validate", "execute", "for", "commit"}
  PROVE  /\ core[c].held \in Procs /\ cpu_cores[c] = core[c].held
         /\ core[c].held \notin finished
         /\ core[c].pc \in {"validate", "execute"} => Executable(core[c].held)
<1>1. core[c].held \in Procs /\ cpu_cores[c] = core[c].held
  BY ServesTypes, HeldIsProcess DEF Places, SlotHeld, Active, ThreadsSafe
<1>2. core[c].held \notin finished
  BY <1>1, ServesTypes DEF OnePlace, OnCore
<1>3. core[c].pc \in {"validate", "execute"} => StepsLeftOf(core[c].held)
  BY <1>1, ServesTypes DEF StepsLeft
<1> QED
  BY <1>1, <1>2, <1>3 DEF Executable, StepsLeftOf

(* So it is the only one that executes it.                                 *)
LEMMA ServesAlone ==
  ASSUME Serves, NEW c \in Cores
  PROVE  Alone(c) /\ StoredDangling
<1>1. ASSUME Active(c), NEW d \in Cores, At(d, "for"), core[d].held = core[c].held
      PROVE  d = c
  <2>1. core[c].pc \in {"validate", "execute", "for", "commit"}
    BY <1>1, ServesTypes DEF Active, ThreadsSafe
  <2>2. /\ cpu_cores[c] = core[c].held /\ cpu_cores[d] = core[d].held
        /\ core[c].held \in Procs
    BY <1>1, <2>1, ActiveHolds DEF At
  <2> QED
    BY <1>1, <2>2, ServesTypes DEF CoresApart
<1>2. StoredDangling
  BY ServesTypes DEF StoredDangling, InStore
<1> QED
  BY <1>1, <1>2 DEF Alone

LEMMA NextLoops ==
  ASSUME Serves, [Next]_vars
  PROVE  Loops'
<1>1. Places /\ Loops /\ StoredDangling /\ \A c \in Cores : Alone(c)
  BY ServesTypes, ServesAlone, Constants
<1> QED
  BY <1>1, SchedulerLoops, CoreLoops, CliLoops DEF Next

(* The steps that remain.                                                  *)
ServingCore(c) ==
  Read(c) \/ Validate(c) \/ Instructs(c) \/ NotComplete(c)

LEMMA ServingSteps ==
  ASSUME ~RoundRobin, Serves, [Next]_vars
  PROVE  \/ Tick \/ Generate \/ GenerateNothing \/ WakeSleepers
         \/ AssignNothing \/ Dispatch \/ DispatchToStore
         \/ SwapNothing \/ IdleNothing
         \/ \E c \in Cores : ServingCore(c) \/ Complete(c)
         \/ CliStep \/ UNCHANGED vars
<1>1. ~Preempt
  BY ServesTypes DEF NoPreemption, Preempt
<1>2. ~SwapIn /\ ~SwapOutAndIn /\ ~IdleSwapIn
  BY ServesTypes
  DEF SwapIn, SwapOutAndIn, SwapInDue, IdleSwapIn, IdleSwapInPossible
<1>3. ASSUME NEW c \in Cores
      PROVE  /\ ~Remove(c) /\ ~UseAfterFree(c)
             /\ ~PrintToNull(c) /\ ~PushBelowStack(c)
  <2>1. ~core[c].dangling /\ core[c].pc # "remove"
    BY ServesTypes DEF ThreadsSafe
  <2>2. ~Remove(c)
    BY <2>1 DEF Remove, AtLock, At
  <2>3. ~PushBelowStack(c)
    <3>1. ASSUME PushBelowStack(c) PROVE FALSE
      <4>1. At(c, "execute") /\ proc[core[c].held].for_depth < 0
        BY <3>1 DEF PushBelowStack
      <4>2. proc[core[c].held].for_depth = 0
        BY <2>1, <4>1, LoopIsOwn, ServesTypes, ServesAlone
      <4> QED
        BY <4>1, <4>2
    <3> QED
      BY <3>1
  <2>4. ~UseAfterFree(c)
    BY <2>1, ActiveHolds DEF UseAfterFree, At
  <2>5. ~PrintToNull(c)
    BY ActiveHolds, ServesTypes DEF PrintToNull, At, StructsWhole
  <2> QED
    BY <2>2, <2>3, <2>4, <2>5
<1> QED
  BY <1>1, <1>2, <1>3
  DEF Next, SchedulerStep, CoreLockStep, CoreRunStep, ServingCore, Instructs

(* Steps that move no process and no program counter.                      *)
LEMMA QuietServing ==
  ASSUME Serves, UNCHANGED <<ready_queue, store, cpu_cores, finished, fault>>,
         \A p \in Procs : /\ proc'[p].program_counter = proc[p].program_counter
                          /\ proc'[p].logs = proc[p].logs
                          /\ proc'[p].in_memory = proc[p].in_memory
                          /\ proc'[p].state = "NEW" <=> proc[p].state = "NEW",
         \A c \in Cores : /\ core'[c].pc = core[c].pc
                          /\ core'[c].dangling = core[c].dangling
  PROVE  Undisturbed'
<1>1. \A p : /\ InQueue(p)' <=> InQueue(p)
             /\ InStore(p)' <=> InStore(p)
             /\ OnCore(p)' <=> OnCore(p)
  BY DEF InQueue, InStore, OnCore
<1>2. store' = <<>> /\ fault' = "none" /\ ThreadsSafe'
  BY ServesTypes DEF ThreadsSafe
<1>3. StructsWhole'
  BY <1>1, ServesTypes DEF StructsWhole
<1>4. \A p \in Procs : StepsLeftOf(p)' <=> StepsLeftOf(p)
  BY DEF StepsLeftOf
<1>5. StepsLeft'
  <2>1. \A c \in Cores :
          core'[c].pc \in {"read", "validate", "execute"} /\ cpu_cores'[c] # NoProc
            => StepsLeftOf(cpu_cores[c])' 
    BY <1>4, ServesTypes DEF StepsLeft
  <2>2. \A p \in Procs : InQueue(p)' \/ proc'[p].state = "NEW" => StepsLeftOf(p)'
    BY <1>1, <1>4, ServesTypes DEF StepsLeft
  <2> QED
    BY <2>1, <2>2 DEF StepsLeft
<1>6. NoneLost'
  BY <1>1, ServesTypes DEF NoneLost
<1> QED
  BY <1>2, <1>3, <1>5, <1>6 DEF Undisturbed

LEMMA QuietServingSteps ==
  ASSUME Serves,
         \/ Tick \/ GenerateNothing \/ WakeSleepers \/ AssignNothing
         \/ SwapNothing \/ IdleNothing \/ stop_scheduler \/ UNCHANGED vars
  PROVE  Undisturbed'
<1>1. proc \in [Procs -> ProcessStruct] /\ core \in [Cores -> CoreThread]
  BY ServesTypes
<1>2. UNCHANGED <<ready_queue, store, cpu_cores, finished, fault>>
  BY DEF Tick, GenerateNothing, WakeSleepers, AssignNothing, SwapNothing,
         IdleNothing, stop_scheduler, vars
<1>3. ASSUME NEW p \in Procs
      PROVE  /\ proc'[p].program_counter = proc[p].program_counter
             /\ proc'[p].logs = proc[p].logs
             /\ proc'[p].in_memory = proc[p].in_memory
             /\ proc'[p].state = "NEW" <=> proc[p].state = "NEW"
  <2>1. CASE Tick
    BY <1>1, <2>1 DEF Tick, ProcessStruct
  <2>2. CASE WakeSleepers
    BY <1>1, <2>2 DEF WakeSleepers, ProcessStruct
  <2>3. CASE UNCHANGED proc
    BY <2>3
  <2> QED
    BY <2>1, <2>2, <2>3 DEF GenerateNothing, AssignNothing, SwapNothing,
       IdleNothing, stop_scheduler, vars
<1>4. \A c \in Cores : core'[c].pc = core[c].pc /\ core'[c].dangling = core[c].dangling
  <2>1. CASE Tick
    BY <1>1, <2>1 DEF Tick, CoreThread
  <2>2. CASE UNCHANGED core
    BY <2>2
  <2> QED
    BY <2>1, <2>2 DEF GenerateNothing, WakeSleepers, AssignNothing, SwapNothing,
       IdleNothing, stop_scheduler, vars
<1> QED
  BY <1>2, <1>3, <1>4, QuietServing

(* A process that arrives has its program before it.                       *)
LEMMA SubmitServing ==
  ASSUME Serves, NEW p \in Procs, proc[p].state = "NEW", Submit(p),
         UNCHANGED <<store, cpu_cores, finished, core, fault>>
  PROVE  Undisturbed'
<1>1. /\ proc \in [Procs -> ProcessStruct] /\ ready_queue \in Seq(Procs)
      /\ NoRepeat(ready_queue) /\ ~InQueue(p) /\ StepsLeftOf(p)
  BY ServesTypes DEF OnePlace, NewNowhere, StepsLeft
<1>2. \A q : InQueue(q)' <=> InQueue(q) \/ q = p
  BY <1>1, Enqueued DEF Submit
<1>3. \A q : (InStore(q)' <=> InStore(q)) /\ (OnCore(q)' <=> OnCore(q))
  BY DEF InStore, OnCore
<1>4. \A q \in Procs : /\ proc'[q].program_counter = proc[q].program_counter
                       /\ proc'[q].logs = proc[q].logs
                       /\ proc'[q].in_memory = proc[q].in_memory
  BY <1>1 DEF Submit, ProcessStruct
<1>5. proc'[p].state = "READY" /\ \A q \in Procs : q # p => proc'[q] = proc[q]
  BY <1>1 DEF Submit, ProcessStruct
<1>6. store' = <<>> /\ fault' = "none" /\ ThreadsSafe'
  BY ServesTypes DEF ThreadsSafe
<1>7. StructsWhole'
  BY <1>3, <1>4, ServesTypes DEF StructsWhole
<1>8. \A q \in Procs : StepsLeftOf(q)' <=> StepsLeftOf(q)
  BY <1>4 DEF StepsLeftOf
<1>9. StepsLeft'
  <2>1. \A c \in Cores :
          core'[c].pc \in {"read", "validate", "execute"} /\ cpu_cores'[c] # NoProc
            => StepsLeftOf(cpu_cores[c])'
    BY <1>8, ServesTypes DEF StepsLeft
  <2>2. \A q \in Procs : InQueue(q)' \/ proc'[q].state = "NEW" => StepsLeftOf(q)'
    BY <1>1, <1>2, <1>5, <1>8, ServesTypes DEF StepsLeft
  <2> QED
    BY <2>1, <2>2 DEF StepsLeft
<1>10. NoneLost'
  BY <1>2, <1>3, <1>5, ServesTypes DEF NoneLost
<1> QED
  BY <1>6, <1>7, <1>9, <1>10 DEF Undisturbed

(* Where a process goes when it is dispatched.                             *)
LEMMA DispatchMoves ==
  ASSUME Serves, Dispatch
  PROVE  LET p == Head(ready_queue)
         IN  /\ ready_queue # <<>> /\ p \in Procs /\ sched.slot \in Cores
             /\ ready_queue' = Tail(ready_queue)
             /\ cpu_cores[sched.slot] = NoProc
             /\ cpu_cores' = [cpu_cores EXCEPT ![sched.slot] = p]
             /\ InQueue(p) /\ ~OnCore(p)
             /\ \A q : InQueue(q)' <=> InQueue(q) /\ q # p
             /\ \A q \in Procs : OnCore(q)' <=> OnCore(q) \/ q = p
             /\ \A q \in Procs :
                  /\ proc'[q].program_counter = proc[q].program_counter
                  /\ proc'[q].logs = proc[q].logs
                  /\ q # p => proc'[q] = proc[q]
             /\ proc'[p].state = "RUNNING"
             /\ UNCHANGED <<store, finished, core, fault>>
<1> DEFINE p == Head(ready_queue)
<1>1. /\ proc \in [Procs -> ProcessStruct] /\ ready_queue \in Seq(Procs)
      /\ NoRepeat(ready_queue) /\ sched.slot \in Cores
      /\ cpu_cores \in [Cores -> Procs \cup {NoProc}] /\ CoresApart /\ OnePlace
  BY ServesTypes, SlotTypes DEF OnePlace
<1>2. /\ cpu_cores[sched.slot] = NoProc /\ ready_queue # <<>>
      /\ ready_queue' = Tail(ready_queue)
      /\ cpu_cores' = [cpu_cores EXCEPT ![sched.slot] = p]
      /\ proc' = [proc EXCEPT ![p].state = "RUNNING",
                              ![p].in_memory = TRUE,
                              ![p].ticks_ran_in_quantum =
                                 IF RoundRobin THEN 0 ELSE @]
      /\ UNCHANGED <<store, finished, core, fault>>
  BY DEF Dispatch
<1>3. /\ p \in Procs /\ InQueue(p)
      /\ \A q : InQueue(q)' <=> InQueue(q) /\ q # p
  BY <1>1, <1>2, Dequeued
<1>4. ~OnCore(p)
  BY <1>1, <1>3 DEF OnePlace
<1>5. \A q \in Procs : OnCore(q)' <=> OnCore(q) \/ q = p
  BY <1>1, <1>2, <1>3, <1>4, Filled
<1>6. \A q \in Procs : /\ proc'[q].program_counter = proc[q].program_counter
                       /\ proc'[q].logs = proc[q].logs
                       /\ q # p => proc'[q] = proc[q]
  BY <1>1, <1>2, <1>3 DEF ProcessStruct
<1>7. proc'[p].state = "RUNNING"
  BY <1>1, <1>2, <1>3 DEF ProcessStruct
<1> QED
  BY <1>1, <1>2, <1>3, <1>4, <1>5, <1>6, <1>7

LEMMA DispatchServing ==
  ASSUME Serves, Dispatch
  PROVE  Undisturbed'
<1> DEFINE p == Head(ready_queue)
<1>1. /\ ready_queue # <<>> /\ p \in Procs /\ sched.slot \in Cores
      /\ ready_queue' = Tail(ready_queue)
      /\ cpu_cores[sched.slot] = NoProc
      /\ cpu_cores' = [cpu_cores EXCEPT ![sched.slot] = p]
      /\ InQueue(p) /\ ~OnCore(p)
      /\ \A q : InQueue(q)' <=> InQueue(q) /\ q # p
      /\ \A q \in Procs : OnCore(q)' <=> OnCore(q) \/ q = p
      /\ \A q \in Procs :
           /\ proc'[q].program_counter = proc[q].program_counter
           /\ proc'[q].logs = proc[q].logs
           /\ q # p => proc'[q] = proc[q]
      /\ proc'[p].state = "RUNNING"
      /\ UNCHANGED <<store, finished, core, fault>>
  BY DispatchMoves
<1> HIDE DEF p
<1>2. cpu_cores \in [Cores -> Procs \cup {NoProc}]
  BY ServesTypes
<1>3. store' = <<>> /\ fault' = "none" /\ ThreadsSafe'
  BY <1>1, ServesTypes DEF ThreadsSafe
<1>4. StructsWhole'
  BY <1>1, ServesTypes DEF StructsWhole
<1>5. \A q \in Procs : StepsLeftOf(q)' <=> StepsLeftOf(q)
  BY <1>1 DEF StepsLeftOf
<1>6. StepsLeft'
  <2>1. ASSUME NEW c \in Cores, core'[c].pc \in {"read", "validate", "execute"},
               cpu_cores'[c] # NoProc
        PROVE  proc'[cpu_cores'[c]].program_counter < NumInst(cpu_cores'[c])
    <3>1. CASE c = sched.slot
      <4>1. StepsLeftOf(p) /\ cpu_cores'[c] = p
        BY <1>1, <1>2, <3>1, ServesTypes DEF StepsLeft
      <4> QED
        BY <1>1, <4>1 DEF StepsLeftOf
    <3>2. CASE c # sched.slot
      <4>1. cpu_cores'[c] = cpu_cores[c] /\ cpu_cores[c] \in Procs
        BY <1>1, <1>2, <2>1, <3>2
      <4>2. StepsLeftOf(cpu_cores[c])
        BY <1>1, <2>1, <4>1, ServesTypes DEF StepsLeft
      <4> QED
        BY <1>1, <4>1, <4>2 DEF StepsLeftOf
    <3> QED
      BY <3>1, <3>2
  <2>2. \A q \in Procs : InQueue(q)' \/ proc'[q].state = "NEW" => StepsLeftOf(q)'
    BY <1>1, <1>5, ServesTypes DEF StepsLeft
  <2> QED
    BY <2>1, <2>2 DEF StepsLeft, StepsLeftOf
<1>7. NoneLost'
  <2>1. \A q : InStore(q)' <=> InStore(q)
    BY <1>1 DEF InStore
  <2> QED
    BY <1>1, <2>1, ServesTypes DEF NoneLost
<1> QED
  BY <1>3, <1>4, <1>6, <1>7 DEF Undisturbed

(* Where the thread of a core goes.                                        *)
LEMMA CoreThreads ==
  ASSUME Serves, NEW c \in Cores, ServingCore(c)
  PROVE  /\ \A d \in Cores : d # c => core'[d] = core[d]
         /\ core'[c].dangling = FALSE /\ core'[c].pc # "remove"
         /\ core'[c].pc \in {"read", "validate", "execute"} /\ cpu_cores[c] # NoProc
              => StepsLeftOf(cpu_cores[c]) /\ ~Instructs(c)
<1>1. /\ core \in [Cores -> CoreThread] /\ core[c].dangling = FALSE
      /\ cpu_cores \in [Cores -> Procs \cup {NoProc}]
      /\ proc \in [Procs -> ProcessStruct] /\ StepsLeft /\ Places
  BY ServesTypes DEF ThreadsSafe, CoreThread
<1>0. Instructs(c) => core[c].pc \in {"execute", "for", "commit"}
  BY <1>1, InstructThreads
<1>2. CASE Read(c)
  <2>1. /\ core' = [core EXCEPT ![c].held = cpu_cores[c],
                                ![c].pc = IF OnCoreRunning(c) THEN "validate"
                                                              ELSE "complete"]
        /\ core[c].pc = "read"
    BY <1>2 DEF Read, AtLock, At
  <2>2. core'[c].pc \in {"validate", "complete"} /\ core'[c].dangling = FALSE
    BY <1>1, <2>1 DEF CoreThread
  <2>3. cpu_cores[c] # NoProc => StepsLeftOf(cpu_cores[c])
    BY <1>1, <2>1 DEF StepsLeft
  <2> QED
    BY <1>0, <1>1, <2>1, <2>2, <2>3
<1>3. CASE Validate(c)
  <2>1. core[c].pc = "validate"
    BY <1>3 DEF Validate, At
  <2>2. core' = [core EXCEPT ![c].pc = "execute", ![c].wait_left = Delay]
    BY <1>3, <2>1, ActiveHolds DEF Validate
  <2>3. core'[c].pc = "execute" /\ core'[c].dangling = FALSE
    BY <1>1, <2>2 DEF CoreThread
  <2>4. cpu_cores[c] # NoProc => StepsLeftOf(cpu_cores[c])
    BY <1>1, <2>1 DEF StepsLeft
  <2> QED
    BY <1>0, <1>1, <2>1, <2>2, <2>3, <2>4
<1>4. CASE Instructs(c)
  BY <1>1, <1>4, InstructThreads
<1>5. CASE NotComplete(c)
  <2>1. core' = [core EXCEPT ![c] = IdleThread] /\ core[c].pc = "complete"
    BY <1>5 DEF NotComplete, AtLock, At
  <2>2. core'[c].pc = "read" /\ core'[c].dangling = FALSE
    BY <1>1, <2>1 DEF IdleThread
  <2>3. ASSUME cpu_cores[c] # NoProc PROVE StepsLeftOf(cpu_cores[c])
    <3>1. cpu_cores[c] \in Procs /\ ~Done(cpu_cores[c])
      BY <1>1, <1>5, <2>3 DEF NotComplete
    <3>2. Program[cpu_cores[c]] \in Seq(Kinds)
      BY <3>1, SchedulerAssumption DEF SchedulerAssumption
    <3>3. /\ NumInst(cpu_cores[c]) \in Nat
          /\ proc[cpu_cores[c]].program_counter \in Nat
      BY <1>1, <3>1, <3>2 DEF NumInst, ProcessStruct
    <3>4. proc[cpu_cores[c]].for_depth = 0
      <4>1. ASSUME NEW d \in Cores, At(d, "for"), core[d].held = cpu_cores[c]
            PROVE  FALSE
        <5>1. cpu_cores[d] = cpu_cores[c]
          BY <4>1, ActiveHolds DEF At
        <5>2. d = c
          BY <2>3, <5>1, ServesTypes DEF CoresApart
        <5> QED
          BY <2>1, <4>1, <5>2 DEF At
      <4> QED
        BY <3>1, <4>1, ServesTypes DEF Loops
    <3> QED
      BY <2>3, <3>1, <3>3, <3>4 DEF Done, StepsLeftOf
  <2> QED
    BY <1>0, <1>1, <2>1, <2>2, <2>3
<1> QED
  BY <1>2, <1>3, <1>4, <1>5 DEF ServingCore

LEMMA CoreServing ==
  ASSUME Serves, NEW c \in Cores, ServingCore(c)
  PROVE  Undisturbed'
<1> DEFINE h == core[c].held
<1>1. /\ cpu_cores \in [Cores -> Procs \cup {NoProc}] /\ NoProc \notin Procs
      /\ Places /\ OnePlace /\ NewNowhere /\ CoresApart
      /\ store = <<>> /\ fault = "none"
      /\ ThreadsSafe /\ StructsWhole /\ StepsLeft /\ NoneLost
  BY ServesTypes
<1>2. UNCHANGED <<ready_queue, store, cpu_cores, finished, fault>>
  <2>1. CASE Instructs(c)
    BY <1>1, <2>1, InstructThreads
  <2> QED
    BY <2>1 DEF ServingCore, Read, Validate, NotComplete
<1>3. \A p : /\ InQueue(p)' <=> InQueue(p)
             /\ InStore(p)' <=> InStore(p)
             /\ OnCore(p)' <=> OnCore(p)
  BY <1>2 DEF InQueue, InStore, OnCore
<1>4. Instructs(c) => h \in Procs /\ cpu_cores[c] = h
  BY <1>1, ActiveHolds, InstructThreads
<1>5. ASSUME NEW p \in Procs, ~Instructs(c) \/ p # h
      PROVE  proc'[p] = proc[p]
  <2>1. CASE Instructs(c)
    BY <1>1, <1>5, <2>1, InstructionStructs
  <2> QED
    BY <2>1 DEF ServingCore, Read, Validate, NotComplete
<1>6. \A p \in Procs : /\ proc'[p].logs = proc[p].logs
                       /\ proc'[p].in_memory = proc[p].in_memory
  BY <1>1, <1>5, InstructionStructs
<1>7. ThreadsSafe'
  BY <1>1, CoreThreads DEF ThreadsSafe
<1>8. StructsWhole'
  BY <1>1, <1>3, <1>6 DEF StructsWhole
<1>9. Instructs(c) => OnCore(h) /\ ~InQueue(h) /\ proc[h].state # "NEW"
  <2>1. Instructs(c) => OnCore(h)
    BY <1>4 DEF OnCore
  <2> QED
    BY <1>1, <1>4, <2>1 DEF OnePlace, NewNowhere
<1>10. \A p \in Procs : proc'[p].state = "NEW" => proc'[p] = proc[p]
  <2>1. CASE Instructs(c)
    <3>1. proc'[h].state # "NEW"
      BY <1>1, <1>9, <2>1, InstructionStructs
    <3> QED
      BY <1>5, <3>1
  <2>2. CASE ~Instructs(c)
    BY <1>5, <2>2
  <2> QED
    BY <2>1, <2>2
<1>11. StepsLeft'
  <2>1. ASSUME NEW d \in Cores, core'[d].pc \in {"read", "validate", "execute"},
               cpu_cores[d] # NoProc
        PROVE  proc'[cpu_cores[d]].program_counter < NumInst(cpu_cores[d])
    <3>1. cpu_cores[d] \in Procs
      BY <1>1, <2>1
    <3>2. CASE d = c
      BY <1>5, <2>1, <3>1, <3>2, CoreThreads DEF StepsLeftOf
    <3>3. CASE d # c
      <4>1. StepsLeftOf(cpu_cores[d])
        BY <1>1, <2>1, <3>3, CoreThreads DEF StepsLeft
      <4>2. proc'[cpu_cores[d]] = proc[cpu_cores[d]]
        BY <1>1, <1>4, <1>5, <3>1, <3>3 DEF CoresApart
      <4> QED
        BY <4>1, <4>2 DEF StepsLeftOf
    <3> QED
      BY <3>2, <3>3
  <2>2. ASSUME NEW p \in Procs, InQueue(p) \/ proc'[p].state = "NEW"
        PROVE  proc'[p].program_counter < NumInst(p)
    <3>1. proc'[p] = proc[p]
      BY <1>5, <1>9, <1>10, <2>2
    <3> QED
      BY <1>1, <2>2, <3>1 DEF StepsLeft, StepsLeftOf
  <2> QED
    BY <1>2, <1>3, <2>1, <2>2 DEF StepsLeft, StepsLeftOf
<1>12. NoneLost'
  <2>1. ASSUME NEW p \in Procs, proc'[p].state # "NEW"
        PROVE  InQueue(p) \/ InStore(p) \/ OnCore(p) \/ p \in finished
    BY <1>1, <1>5, <1>9, <2>1 DEF NoneLost
  <2> QED
    BY <1>2, <1>3, <2>1 DEF NoneLost
<1> QED
  BY <1>1, <1>2, <1>7, <1>8, <1>11, <1>12 DEF Undisturbed

(* A process that is finished gives its core and its memory back.          *)
LEMMA CompleteMoves ==
  ASSUME Places, NEW c \in Cores, Complete(c)
  PROVE  LET p == cpu_cores[c]
         IN  /\ p \in Procs /\ OnCore(p) /\ Done(p)
             /\ finished' = finished \cup {p}
             /\ \A q \in Procs : OnCore(q)' <=> OnCore(q) /\ q # p
             /\ \A d \in Cores : d # c => cpu_cores'[d] = cpu_cores[d]
             /\ cpu_cores'[c] = NoProc
             /\ \A q \in Procs : /\ proc'[q].program_counter = proc[q].program_counter
                                 /\ proc'[q].logs = proc[q].logs
                                 /\ q # p => proc'[q] = proc[q]
             /\ proc'[p].state = "FINISHED" /\ proc'[p].in_memory = FALSE
             /\ core' = [core EXCEPT ![c] = IdleThread]
             /\ UNCHANGED <<ready_queue, store, fault>>
<1> DEFINE p == cpu_cores[c]
<1>1. /\ proc \in [Procs -> ProcessStruct] /\ CoresApart
      /\ cpu_cores \in [Cores -> Procs \cup {NoProc}]
  BY SlotTypes
<1>2. /\ p # NoProc /\ Done(p) /\ finished' = finished \cup {p}
      /\ cpu_cores' = [cpu_cores EXCEPT ![c] = NoProc]
      /\ proc' = [proc EXCEPT ![p].state = "FINISHED", ![p].in_memory = FALSE]
      /\ core' = [core EXCEPT ![c] = IdleThread]
      /\ UNCHANGED <<ready_queue, store, fault>>
  BY DEF Complete, Done
<1>3. /\ p \in Procs /\ OnCore(p)
      /\ \A q \in Procs : OnCore(q)' <=> OnCore(q) /\ q # p
  BY <1>1, <1>2, Cleared
<1>4. \A q \in Procs : /\ proc'[q].program_counter = proc[q].program_counter
                       /\ proc'[q].logs = proc[q].logs
                       /\ q # p => proc'[q] = proc[q]
  BY <1>1, <1>2, <1>3 DEF ProcessStruct
<1>5. proc'[p].state = "FINISHED" /\ proc'[p].in_memory = FALSE
  BY <1>1, <1>2, <1>3 DEF ProcessStruct
<1>6. /\ cpu_cores'[c] = NoProc
      /\ \A d \in Cores : d # c => cpu_cores'[d] = cpu_cores[d]
  BY <1>1, <1>2
<1> QED
  BY <1>2, <1>3, <1>4, <1>5, <1>6

LEMMA CompleteServing ==
  ASSUME Serves, NEW c \in Cores, Complete(c)
  PROVE  Undisturbed'
<1> DEFINE p == cpu_cores[c]
<1>1. /\ p \in Procs /\ OnCore(p)
      /\ finished' = finished \cup {p}
      /\ \A q \in Procs : OnCore(q)' <=> OnCore(q) /\ q # p
      /\ \A d \in Cores : d # c => cpu_cores'[d] = cpu_cores[d]
      /\ cpu_cores'[c] = NoProc
      /\ \A q \in Procs : /\ proc'[q].program_counter = proc[q].program_counter
                          /\ proc'[q].logs = proc[q].logs
                          /\ q # p => proc'[q] = proc[q]
      /\ proc'[p].state = "FINISHED" /\ proc'[p].in_memory = FALSE
      /\ core' = [core EXCEPT ![c] = IdleThread]
      /\ UNCHANGED <<ready_queue, store, fault>>
  BY ServesTypes, CompleteMoves
<1>2. /\ core \in [Cores -> CoreThread]
      /\ cpu_cores \in [Cores -> Procs \cup {NoProc}]
  BY ServesTypes
<1> HIDE DEF p
<1>3. store' = <<>> /\ fault' = "none" /\ ThreadsSafe'
  BY <1>1, <1>2, ServesTypes DEF ThreadsSafe, IdleThread
<1>4. StructsWhole'
  BY <1>1, ServesTypes DEF StructsWhole
<1>5. \A q : (InQueue(q)' <=> InQueue(q)) /\ (InStore(q)' <=> InStore(q))
  BY <1>1 DEF InQueue, InStore
<1>6. StepsLeft'
  <2>1. ASSUME NEW d \in Cores, core'[d].pc \in {"read", "validate", "execute"},
               cpu_cores'[d] # NoProc
        PROVE  proc'[cpu_cores'[d]].program_counter < NumInst(cpu_cores'[d])
    <3>1. d # c /\ core'[d] = core[d] /\ cpu_cores'[d] = cpu_cores[d]
      BY <1>1, <1>2, <2>1
    <3>2. StepsLeftOf(cpu_cores[d]) /\ cpu_cores[d] \in Procs
      BY <1>2, <2>1, <3>1, ServesTypes DEF StepsLeft
    <3> QED
      BY <1>1, <3>1, <3>2 DEF StepsLeftOf
  <2>2. ASSUME NEW q \in Procs, InQueue(q)' \/ proc'[q].state = "NEW"
        PROVE  proc'[q].program_counter < NumInst(q)
    <3>1. InQueue(q) \/ proc[q].state = "NEW"
      BY <1>1, <1>5, <2>2
    <3> QED
      BY <1>1, <3>1, ServesTypes DEF StepsLeft, StepsLeftOf
  <2> QED
    BY <2>1, <2>2 DEF StepsLeft, StepsLeftOf
<1>7. NoneLost'
  BY <1>1, <1>5, ServesTypes DEF NoneLost
<1> QED
  BY <1>3, <1>4, <1>6, <1>7 DEF Undisturbed

LEMMA ProgramLength == \A p \in Procs : NumInst(p) \in Nat \ {0}
<1> SUFFICES ASSUME NEW p \in Procs PROVE NumInst(p) \in Nat \ {0}
  OBVIOUS
<1>1. Program[p] \in Seq(Kinds) /\ Program[p] # <<>>
  BY SchedulerAssumption DEF SchedulerAssumption
<1> QED
  BY <1>1 DEF NumInst

(* A report moves no pc out of its program.                                *)
LEMMA ReportCounters ==
  ASSUME Places, Shows
  PROVE  \A p \in Procs :
           StepsLeftOf(p) => proc'[p].program_counter < NumInst(p)
<1>1. proc \in [Procs -> ProcessStruct]
      /\ \A p \in Procs : NumInst(p) \in Nat \ {0} /\ proc[p].program_counter \in Nat
  BY SlotTypes, ProgramLength DEF ProcessStruct
<1> SUFFICES ASSUME NEW p \in Procs, StepsLeftOf(p)
             PROVE  proc'[p].program_counter < NumInst(p)
  OBVIOUS
<1>2. CASE \E c \in Cores : report_utilization(c)
  <2>1. PICK q : proc' = [proc EXCEPT ![q].program_counter = NumInst(q) - 1]
    BY <1>2 DEF report_utilization
  <2>2. CASE q = p
    <3>1. proc'[p].program_counter = NumInst(p) - 1
      BY <1>1, <2>1, <2>2 DEF ProcessStruct
    <3> QED
      BY <1>1, <3>1
  <2>3. CASE q # p
    BY <1>1, <2>1, <2>3 DEF StepsLeftOf
  <2> QED
    BY <2>2, <2>3
<1>3. CASE \E q \in Procs : screen_list(q)
  <2>1. PICK q \in Procs :
          /\ proc[q].program_counter > NumInst(q)
          /\ proc' = [proc EXCEPT ![q].program_counter = NumInst(q)]
    BY <1>3 DEF screen_list
  <2>2. q # p
    BY <1>1, <2>1 DEF StepsLeftOf
  <2> QED
    BY <1>1, <2>1, <2>2 DEF StepsLeftOf
<1> QED
  BY <1>2, <1>3 DEF Shows

LEMMA ReportServing ==
  ASSUME Serves, Shows
  PROVE  Undisturbed'
<1>1. /\ Places /\ cpu_cores \in [Cores -> Procs \cup {NoProc}]
  BY ServesTypes
<1>2. UNCHANGED <<store, ready_queue, cpu_cores, finished, core, fault>>
  BY DEF Shows, report_utilization, screen_list
<1>3. \A q \in Procs : /\ proc'[q].logs = proc[q].logs
                       /\ proc'[q].in_memory = proc[q].in_memory
                       /\ proc'[q].state = proc[q].state
  BY <1>1, ReportStructs DEF Shows
<1>4. \A q : /\ InQueue(q)' <=> InQueue(q)
             /\ InStore(q)' <=> InStore(q)
             /\ OnCore(q)' <=> OnCore(q)
  BY <1>2 DEF InQueue, InStore, OnCore
<1>5. \A q \in Procs : StepsLeftOf(q) => StepsLeftOf(q)'
  BY <1>1, ReportCounters DEF StepsLeftOf
<1>6. store' = <<>> /\ fault' = "none" /\ ThreadsSafe'
  BY <1>2, ServesTypes DEF ThreadsSafe
<1>7. StructsWhole'
  BY <1>3, <1>4, ServesTypes DEF StructsWhole
<1>8. StepsLeft'
  <2>1. ASSUME NEW d \in Cores, core'[d].pc \in {"read", "validate", "execute"},
               cpu_cores'[d] # NoProc
        PROVE  StepsLeftOf(cpu_cores[d])'
    <3>1. StepsLeftOf(cpu_cores[d]) /\ cpu_cores[d] \in Procs
      BY <1>1, <1>2, <2>1, ServesTypes DEF StepsLeft
    <3> QED
      BY <1>2, <1>5, <3>1
  <2>2. \A q \in Procs : InQueue(q)' \/ proc'[q].state = "NEW" => StepsLeftOf(q)'
    BY <1>3, <1>4, <1>5, ServesTypes DEF StepsLeft
  <2> QED
    BY <1>2, <2>1, <2>2 DEF StepsLeft
<1>9. NoneLost'
  BY <1>2, <1>3, <1>4, ServesTypes DEF NoneLost
<1> QED
  BY <1>6, <1>7, <1>8, <1>9 DEF Undisturbed

LEMMA InitServes == Init => Serves
<1> SUFFICES ASSUME Init PROVE Undisturbed
  BY InitSlots, InitLoops DEF Serves
<1>1. /\ \A p \in Procs : /\ proc[p].program_counter = 0 /\ proc[p].logs = TRUE
                          /\ proc[p].in_memory = FALSE /\ proc[p].state = "NEW"
      /\ \A c \in Cores : /\ core[c].dangling = FALSE /\ core[c].pc = "read"
                          /\ cpu_cores[c] = NoProc
      /\ store = <<>> /\ fault = "none"
  BY DEF Init, NewProcess, IdleThread
<1>2. StepsLeft
  BY <1>1, ProgramLength DEF StepsLeft, StepsLeftOf
<1> QED
  BY <1>1, <1>2 DEF Undisturbed, ThreadsSafe, StructsWhole, NoneLost

(* While nothing is stored, nothing is disturbed.                          *)
LEMMA NextServes ==
  ASSUME ~RoundRobin, Serves, [Next]_vars, store' = <<>>
  PROVE  Serves'
<1> SUFFICES Undisturbed'
  BY NextSlots, NextLoops DEF Serves
<1>1. ~DispatchToStore
  <2>1. ASSUME DispatchToStore PROVE FALSE
    <3>1. store = <<>> /\ store' = Append(store, Head(ready_queue))
      BY <2>1, ServesTypes DEF DispatchToStore
    <3> QED
      BY <3>1
  <2> QED
    BY <2>1
<1>2. CASE CliStep
  <2>1. ASSUME NEW p \in Procs, screen_start(p) PROVE Undisturbed'
    BY <2>1, SubmitServing DEF screen_start
  <2>2. CASE stop_scheduler
    BY <2>2, QuietServingSteps
  <2> QED
    BY <1>2, <2>1, <2>2, ReportServing DEF CliStep, Shows
<1>3. CASE Generate
  <2>1. PICK p \in Procs : proc[p].state = "NEW" /\ Submit(p)
    BY <1>3 DEF Generate, Generable
  <2> QED
    BY <1>3, <2>1, SubmitServing DEF Generate
<1> QED
  BY <1>1, <1>2, <1>3, ServingSteps, QuietServingSteps, DispatchServing,
     CoreServing, CompleteServing

NothingStored == store = <<>>

LEMMA ServesAlways ==
  ASSUME ~RoundRobin PROVE Spec /\ []NothingStored => []Serves
<1>1. Serves /\ [Next]_vars /\ NothingStored' => Serves'
  BY NextServes DEF NothingStored
<1> QED
  BY InitServes, <1>1, PTL DEF Spec

(* Under fcfs, as long as nothing had to be stored, a process that was     *)
(* created is queued, on a core or finished: no thread drops it, and the   *)
(* removal of "invalid" processes never happens.                           *)
THEOREM NobodyIsLost ==
  ASSUME ~RoundRobin PROVE Spec /\ []NothingStored => []NoneLost
<1>1. Serves => NoneLost
  BY ServesTypes
<1> QED
  BY ServesAlways, <1>1, PTL

(* And a core thread works on the process of its slot whenever it is       *)
(* between its lock blocks, so no process is executed by two threads.      *)
THEOREM EachCoreExecutesItsSlot ==
  ASSUME ~RoundRobin PROVE Spec /\ []NothingStored => []ExecutesItsSlot
<1>1. Serves => ExecutesItsSlot
  BY ServesTypes DEF SlotHeld, Active, ThreadsSafe, ExecutesItsSlot
<1> QED
  BY ServesAlways, <1>1, PTL

(* And no thread accesses a freed struct or the missing logs of one.       *)
THEOREM NoFault ==
  ASSUME ~RoundRobin PROVE Spec /\ []NothingStored => [](fault = "none")
<1>1. Serves => fault = "none"
  BY ServesTypes
<1> QED
  BY ServesAlways, <1>1, PTL

-----------------------------------------------------------------------------
(* The service is implemented.                                             *)

Running == {p \in Procs : OnCore(p)}

Progress ==
  [p \in Procs |-> IF proc[p].program_counter < NumInst(p)
                   THEN proc[p].program_counter ELSE NumInst(p)]

ServiceStep == [Service!Next]_(Service!serviceVars)

(* There are at most as many processes on the cores as cores, and fewer    *)
(* while one is free.                                                      *)
LEMMA FreeCore ==
  ASSUME cpu_cores \in [Cores -> Procs \cup {NoProc}],
         NEW c \in Cores, cpu_cores[c] = NoProc
  PROVE  Cardinality(Running) < NumCores
<1> DEFINE coreOf == [p \in Running |-> CHOOSE d \in Cores : cpu_cores[d] = p]
           others == Cores \ {c}
<1>1. IsFiniteSet(others) /\ Cardinality(others) = NumCores - 1
  BY FiniteCores, FS_RemoveElement
<1>2. ASSUME NEW p \in Running
      PROVE  /\ coreOf[p] \in Cores /\ cpu_cores[coreOf[p]] = p
             /\ p \in Procs
  BY DEF Running, OnCore
<1>3. ASSUME NEW p \in Running
      PROVE  coreOf[p] \in others
  <2>1. p # NoProc
    BY <1>2, Constants
  <2> QED
    BY <1>2, <2>1
<1>4. coreOf \in Injection(Running, others)
  <2>1. coreOf \in [Running -> others]
    BY <1>3
  <2>2. \A p, q \in Running : coreOf[p] = coreOf[q] => p = q
    BY <1>2
  <2> HIDE DEF coreOf, others
  <2> QED
    BY <2>1, <2>2 DEF Injection, IsInjective
<1>5. Cardinality(Running) <= Cardinality(others) /\ IsFiniteSet(Running)
  <2> HIDE DEF coreOf, others
  <2> QED
    BY <1>1, <1>4, FS_Injection
<1>6. Cardinality(Running) \in Nat
  BY <1>5, FS_CardinalityType
<1> QED
  BY <1>1, <1>5, <1>6, Constants

LEMMA ServiceCounts == \A S : Service!Cardinality(S) = Cardinality(S)
  BY DEF Service!Cardinality, Cardinality

LEMMA SamePlaces ==
  ASSUME UNCHANGED <<ready_queue, cpu_cores, finished>>,
         \A p \in Procs : proc'[p].program_counter = proc[p].program_counter
  PROVE  ServiceStep
<1>1. Running' = Running
  BY DEF Running, OnCore
<1>2. Progress' = Progress
  BY DEF Progress
<1> QED
  BY <1>1, <1>2 DEF ServiceStep, Service!serviceVars, Running, Progress

LEMMA SubmitIsArrive ==
  ASSUME Serves, NEW p \in Procs, proc[p].state = "NEW", Submit(p),
         UNCHANGED <<cpu_cores, finished>>
  PROVE  ServiceStep
<1>1. ~InQueue(p) /\ ~OnCore(p) /\ p \notin finished
  BY ServesTypes DEF NewNowhere
<1>2. p \notin Service!Arrived
  BY <1>1 DEF Service!Arrived, InQueue
<1>3. Running' = Running
  BY DEF Running, OnCore
<1>4. Progress' = Progress
  BY ServesTypes, SubmitCounters DEF Progress, SameCounters
<1>5. Service!Arrive(p)
  BY <1>2, <1>3, <1>4 DEF Service!Arrive, Submit, Running, Progress
<1> QED
  BY <1>5 DEF ServiceStep, Service!Next

LEMMA DispatchIsStart ==
  ASSUME Serves, Dispatch
  PROVE  ServiceStep
<1> DEFINE p == Head(ready_queue)
<1>1. /\ ready_queue # <<>> /\ p \in Procs /\ sched.slot \in Cores
      /\ ready_queue' = Tail(ready_queue)
      /\ cpu_cores[sched.slot] = NoProc
      /\ \A q \in Procs : OnCore(q)' <=> OnCore(q) \/ q = p
      /\ \A q \in Procs : proc'[q].program_counter = proc[q].program_counter
      /\ finished' = finished
  BY DispatchMoves
<1>2. Cardinality(Running) < NumCores
  BY <1>1, ServesTypes, FreeCore
<1>3. Running' = Running \cup {p}
  <2> HIDE DEF p
  <2> QED
    BY <1>1 DEF Running
<1>4. Progress' = Progress
  BY <1>1 DEF Progress
<1>5. Service!Start
  BY <1>1, <1>2, <1>3, <1>4, ServiceCounts DEF Service!Start, Running, Progress
<1> QED
  BY <1>5 DEF ServiceStep, Service!Next

LEMMA CompleteIsFinish ==
  ASSUME Serves, NEW c \in Cores, Complete(c)
  PROVE  ServiceStep
<1> DEFINE p == cpu_cores[c]
<1>1. /\ p \in Procs /\ OnCore(p) /\ Done(p)
      /\ finished' = finished \cup {p}
      /\ \A q \in Procs : OnCore(q)' <=> OnCore(q) /\ q # p
      /\ \A q \in Procs : proc'[q].program_counter = proc[q].program_counter
      /\ ready_queue' = ready_queue
  BY ServesTypes, CompleteMoves
<1>2. proc[p].program_counter \in Nat /\ NumInst(p) \in Nat
  BY <1>1, ServesTypes, ProgramLength DEF ProcessStruct
<1> HIDE DEF p
<1>3. p \in Running /\ Running' = Running \ {p}
  BY <1>1 DEF Running
<1>4. Progress[p] = NumInst(p) /\ Progress' = Progress
  BY <1>1, <1>2 DEF Progress, Done
<1>5. Service!Finish(p)
  BY <1>1, <1>3, <1>4 DEF Service!Finish, Running, Progress
<1> QED
  BY <1>1, <1>5 DEF ServiceStep, Service!Next

(* One instruction, or the second half of a FOR at the end of a program.   *)
LEMMA InstructionIsAdvance ==
  ASSUME ~Reports, Serves, NEW c \in Cores, Instructs(c)
  PROVE  ServiceStep
<1>1. Places /\ proc \in [Procs -> ProcessStruct]
  BY ServesTypes
<1>0. PICK h \in Procs : h = core[c].held /\ cpu_cores[c] = h
  BY <1>1, ActiveHolds, InstructThreads
<1>2. /\ \A p \in Procs : p # h => proc'[p].program_counter = proc[p].program_counter
      /\ proc'[h].program_counter
           \in {proc[h].program_counter, proc[h].program_counter + 1}
  BY <1>0, <1>1, InstructionStructs, InstructAdvances DEF Serves
<1>3. UNCHANGED <<ready_queue, cpu_cores, finished>>
  BY <1>1, InstructThreads
<1>4. proc[h].program_counter \in Nat /\ NumInst(h) \in Nat
  BY <1>1, ProgramLength DEF ProcessStruct
<1>5. Running' = Running /\ h \in Running
  BY <1>0, <1>3 DEF Running, OnCore
<1>6. CASE StepsLeftOf(h) /\ proc'[h].program_counter = proc[h].program_counter + 1
  <2>1. Progress[h] = proc[h].program_counter /\ Progress[h] < NumInst(h)
    BY <1>1, <1>6 DEF Progress, StepsLeftOf
  <2>2. Progress' = [Progress EXCEPT ![h] = @ + 1]
    <3>1. Progress'[h] = Progress[h] + 1
      BY <1>1, <1>4, <1>6, <2>1 DEF Progress, StepsLeftOf
    <3>2. \A p \in Procs : p # h => Progress'[p] = Progress[p]
      BY <1>2 DEF Progress
    <3>3. DOMAIN Progress = Procs /\ DOMAIN Progress' = Procs
      BY DEF Progress
    <3>4. Progress' = [p \in Procs |-> Progress'[p]]
      BY DEF Progress
    <3>5. [Progress EXCEPT ![h] = @ + 1]
            = [p \in Procs |-> IF p = h THEN Progress[h] + 1 ELSE Progress[p]]
      BY <3>3
    <3> QED
      BY <3>1, <3>2, <3>4, <3>5
  <2>3. Progress[h] < [p \in Procs |-> NumInst(p)][h]
    BY <1>1, <2>1
  <2>4. UNCHANGED <<ready_queue, Running, finished>>
    BY <1>3, <1>5
  <2>5. Service!Advance(h)
    BY <1>5, <2>2, <2>3, <2>4 DEF Service!Advance, Running, Progress
  <2> QED
    BY <2>5 DEF ServiceStep, Service!Next
<1>7. CASE proc'[h].program_counter = proc[h].program_counter
  <2>1. \A p \in Procs : proc'[p].program_counter = proc[p].program_counter
    BY <1>2, <1>7
  <2> QED
    BY <1>3, <2>1, SamePlaces
<1>8. CASE ~StepsLeftOf(h)
  <2>1. \A p \in Procs : Progress'[p] = Progress[p]
    BY <1>1, <1>2, <1>4, <1>8 DEF Progress, StepsLeftOf
  <2>2. Progress' = Progress
    BY <2>1 DEF Progress
  <2> QED
    BY <1>3, <1>5, <2>2 DEF ServiceStep, Service!serviceVars, Running, Progress
<1> QED
  BY <1>2, <1>6, <1>7, <1>8

LEMMA ServingIsService ==
  ASSUME ~RoundRobin, ~Reports, Serves, [Next]_vars, store' = <<>>
  PROVE  ServiceStep
<1>1. Places
  BY ServesTypes
<1>2. ~DispatchToStore
  <2>1. ASSUME DispatchToStore PROVE FALSE
    <3>1. store = <<>> /\ store' = Append(store, Head(ready_queue))
      BY <2>1, ServesTypes DEF DispatchToStore
    <3> QED
      BY <3>1
  <2> QED
    BY <2>1
<1>3. CASE Tick \/ GenerateNothing \/ WakeSleepers \/ AssignNothing
             \/ SwapNothing \/ IdleNothing
  <2>1. UNCHANGED <<ready_queue, cpu_cores, finished>>
    BY <1>3 DEF Tick, GenerateNothing, WakeSleepers, AssignNothing,
                SwapNothing, IdleNothing
  <2>2. SchedulerStep
    BY <1>3 DEF SchedulerStep
  <2> QED
    BY <1>1, <2>1, <2>2, SchedulerCounters, SamePlaces DEF SchedulerKeeps
<1>4. CASE Generate
  <2>1. PICK p \in Procs : proc[p].state = "NEW" /\ Submit(p)
    BY <1>4 DEF Generate, Generable
  <2> QED
    BY <1>4, <2>1, SubmitIsArrive DEF Generate
<1>5. ASSUME NEW c \in Cores, Read(c) \/ Validate(c) \/ NotComplete(c)
      PROVE  ServiceStep
  <2>1. UNCHANGED <<ready_queue, cpu_cores, finished>>
    BY <1>5 DEF Read, Validate, NotComplete
  <2>2. Looks(c)
    BY <1>5 DEF Looks
  <2> QED
    BY <1>1, <2>1, <2>2, OtherCounters, SamePlaces DEF SameCounters
<1>6. CASE CliStep
  <2>1. ASSUME NEW p \in Procs, screen_start(p) PROVE ServiceStep
    BY <2>1, SubmitIsArrive DEF screen_start
  <2>2. CASE stop_scheduler
    BY <2>2, SamePlaces DEF stop_scheduler
  <2> QED
    BY <1>6, <2>1, <2>2 DEF CliStep, report_utilization, screen_list
<1>7. CASE UNCHANGED vars
  BY <1>7, SamePlaces DEF vars
<1> QED
  BY <1>2, <1>3, <1>4, <1>5, <1>6, <1>7, ServingSteps, DispatchIsStart,
     InstructionIsAdvance, CompleteIsFinish DEF ServingCore

LEMMA InitService == Init => Service!Init
<1> SUFFICES ASSUME Init PROVE Service!Init
  OBVIOUS
<1>1. /\ ready_queue = <<>> /\ finished = {}
      /\ \A c \in Cores : cpu_cores[c] = NoProc
      /\ \A p \in Procs : proc[p].program_counter = 0
  BY DEF Init, NewProcess
<1>2. {p \in Procs : OnCore(p)} = {}
  BY <1>1, Constants DEF OnCore
<1>3. [p \in Procs |-> IF proc[p].program_counter < NumInst(p)
                       THEN proc[p].program_counter ELSE NumInst(p)]
        = [p \in Procs |-> 0]
  BY <1>1, ProgramLength
<1> QED
  BY <1>1, <1>2, <1>3 DEF Service!Init

(* Under fcfs, as long as nothing had to be stored and no report is asked  *)
(* for, the scheduler thread, the core threads and the commands together   *)
(* implement the service: processes start in the order they arrive, one    *)
(* per core, advance one instruction at a time, and leave right after the  *)
(* last one.                                                               *)
THEOREM ServesInOrder ==
  ASSUME ~RoundRobin, ~Reports
  PROVE  Spec /\ []NothingStored => ImplementsFcfs
<1>1. Serves /\ [Next]_vars /\ NothingStored' => [Service!Next]_(Service!serviceVars)
  BY ServingIsService DEF NothingStored, ServiceStep
<1> QED
  BY ServesAlways, InitService, <1>1, PTL DEF Spec, ImplementsFcfs, Service!Spec
-----------------------------------------------------------------------------
(* When the memory suffices.  Divide it into 2 * num-cpu - 1 cells of the  *)
(* largest size a process has.  A process in memory lies in two cells at   *)
(* most, and while a core is free num-cpu - 1 of them are in memory: one   *)
(* cell is free, however the others are scattered.                         *)

RoomForAll ==
  \E m \in Nat : /\ \A p \in Procs : MemoryAllocation[p] <= m
                 /\ (2 * NumCores - 1) * m <= Total

LEMMA CellsInOrder ==
  ASSUME NEW k \in Nat, NEW l \in Nat, NEW m \in Nat, k < l
  PROVE  k * m \in Nat /\ l * m \in Nat /\ k * m + m <= l * m
<1>1. PICK j \in Nat : l = k + 1 + j
  <2>1. l - k - 1 \in Nat /\ l = k + 1 + (l - k - 1)
    OBVIOUS
  <2> QED
    BY <2>1
<1>2. k * m \in Nat /\ j * m \in Nat
  OBVIOUS
<1>3. (k + 1 + j) * m = k * m + m + j * m
  OBVIOUS
<1> QED
  BY <1>1, <1>2, <1>3

Cell(k, m) == k * m .. k * m + m - 1

(* An owner's block starts on one side of the cell's first address or on  *)
(* the other.                                                              *)
LEMMA TwoSides == IsFiniteSet(0 .. 1) /\ Cardinality(0 .. 1) = 2
<1>1. \A b \in Nat : IsFiniteSet(0 .. b) /\ Cardinality(0 .. b) = b + 1
  BY FS_Interval
<1>2. PICK b \in Nat : b = 1
  OBVIOUS
<1>3. IsFiniteSet(0 .. b) /\ Cardinality(0 .. b) = b + 1
  BY <1>1
<1> QED
  BY <1>2, <1>3

(* Who is in memory is on a core, in one piece.                            *)
LEMMA OwnersRun ==
  ASSUME Serves, MemoryAgrees, NEW a \in Addresses, owner[a] # Free
  PROVE  /\ owner[a] \in Procs /\ OnCore(owner[a])
         /\ \E base \in Addresses :
              \A b \in Addresses :
                owner[b] = owner[a]
                  <=> b \in Run(base, MemoryAllocation[owner[a]])
<1>1. owner \in MapsOfMemory /\ Agrees(owner, Flags) /\ StructsWhole
  BY ServesTypes, PlacesTypes, MemoryParts
<1>2. owner[a] \in Procs
  BY <1>1 DEF MapsOfMemory
<1>3. Flags[owner[a]] /\ HasRun(owner, owner[a])
  BY <1>1, <1>2 DEF Agrees, Resident
<1>4. OnCore(owner[a])
  BY <1>1, <1>2, <1>3 DEF Flags, StructsWhole
<1> QED
  BY <1>2, <1>3, <1>4 DEF HasRun

LEMMA FreeCell ==
  ASSUME Serves, MemoryAgrees, NEW c \in Cores, cpu_cores[c] = NoProc,
         NEW m \in Nat, \A p \in Procs : MemoryAllocation[p] <= m,
         (2 * NumCores - 1) * m <= Total
  PROVE  \E k \in 0 .. 2 * NumCores - 2 :
           \A a \in Cell(k, m) \cap Addresses : owner[a] = Free
<1> SUFFICES ASSUME \A k \in 0 .. 2 * NumCores - 2 :
                      \E a \in Cell(k, m) \cap Addresses : owner[a] # Free
             PROVE  FALSE
  OBVIOUS
<1> DEFINE cells == 0 .. 2 * NumCores - 2
           others == Cores \ {c}
           spot == [k \in cells |->
                      CHOOSE a \in Cell(k, m) \cap Addresses : owner[a] # Free]
           who(k) == owner[spot[k]]
           coreOf(k) == CHOOSE d \in Cores : cpu_cores[d] = who(k)
           start(k) == CHOOSE base \in Addresses :
                         \A b \in Addresses :
                           owner[b] = who(k)
                             <=> b \in Run(base, MemoryAllocation[who(k)])
           place == [k \in cells |->
                       <<coreOf(k), IF start(k) >= k * m THEN 0 ELSE 1>>]
<1>1. NumCores \in Nat \ {0} /\ Total \in Nat
  BY SchedulerAssumption, SpaceAssumption DEF SchedulerAssumption, SpaceAssumption
<1>2. ASSUME NEW k \in cells
      PROVE  spot[k] \in Cell(k, m) /\ spot[k] \in Addresses /\ who(k) # Free
  OBVIOUS
<1>3. ASSUME NEW k \in cells
      PROVE  /\ who(k) \in Procs /\ OnCore(who(k))
             /\ \E base \in Addresses :
                  \A b \in Addresses :
                    owner[b] = who(k)
                      <=> b \in Run(base, MemoryAllocation[who(k)])
  <2> HIDE DEF spot
  <2> QED
    BY <1>2, OwnersRun
<1>4. ASSUME NEW k \in cells
      PROVE  coreOf(k) \in others /\ cpu_cores[coreOf(k)] = who(k)
  <2>1. coreOf(k) \in Cores /\ cpu_cores[coreOf(k)] = who(k)
    <3> HIDE DEF who
    <3> QED
      BY <1>3 DEF OnCore
  <2>2. who(k) # NoProc
    BY <1>3, Constants
  <2> QED
    BY <2>1, <2>2
<1>5. ASSUME NEW k \in cells
      PROVE  /\ start(k) \in Addresses
             /\ \A b \in Addresses :
                  owner[b] = who(k)
                    => b >= start(k) /\ b < start(k) + m
  <2>1. /\ start(k) \in Addresses
        /\ \A b \in Addresses :
             owner[b] = who(k) <=> b \in Run(start(k), MemoryAllocation[who(k)])
    <3> HIDE DEF who
    <3> QED
      BY <1>3
  <2>2. MemoryAllocation[who(k)] \in Nat /\ MemoryAllocation[who(k)] <= m
    BY <1>3, SpaceAssumption DEF SpaceAssumption
  <2> HIDE DEF start, who
  <2> QED
    BY <1>1, <2>1, <2>2 DEF Run, Addresses
<1>6. ASSUME NEW k \in cells
      PROVE  /\ k \in Nat /\ k * m \in Nat /\ spot[k] \in Nat /\ start(k) \in Nat
             /\ spot[k] >= k * m /\ spot[k] < k * m + m
             /\ spot[k] >= start(k) /\ spot[k] < start(k) + m
  <2>1. k \in Nat
    BY <1>1
  <2>2. k * m \in Nat
    BY <2>1
  <2>3. spot[k] \in Cell(k, m) /\ spot[k] \in Addresses
    BY <1>2
  <2>4. start(k) \in Addresses /\ spot[k] >= start(k) /\ spot[k] < start(k) + m
    <3> HIDE DEF start, spot
    <3> QED
      BY <1>5, <2>3
  <2> HIDE DEF start, spot
  <2> QED
    BY <1>1, <2>1, <2>2, <2>3, <2>4 DEF Cell, Addresses
<1>7. ASSUME NEW k \in cells, NEW l \in cells, k < l, coreOf(k) = coreOf(l)
      PROVE  ~(start(k) >= k * m <=> start(l) >= l * m)
  <2>1. who(k) = who(l)
    BY <1>4, <1>7
  <2>2. start(k) = start(l)
    BY <2>1
  <2>3. k * m + m <= l * m
    BY <1>6, <1>7, CellsInOrder
  <2> HIDE DEF start, spot, who, coreOf
  <2> QED
    BY <1>6, <2>2, <2>3
<1>8. place \in Injection(cells, others \X {0, 1})
  <2>1. place \in [cells -> others \X {0, 1}]
    <3> HIDE DEF start, coreOf, others, cells
    <3> QED
      BY <1>4
  <2>2. ASSUME NEW k \in cells, NEW l \in cells, place[k] = place[l]
        PROVE  k = l
    <3> HIDE DEF start, coreOf, others
    <3>1. /\ coreOf(k) = coreOf(l)
          /\ start(k) >= k * m <=> start(l) >= l * m
      BY <2>2
    <3>2. k \in Int /\ l \in Int
      BY <1>1
    <3> QED
      BY <1>7, <3>1, <3>2
  <2> HIDE DEF place, cells, others
  <2> QED
    BY <2>1, <2>2 DEF Injection, IsInjective
<1>9. IsFiniteSet(others) /\ Cardinality(others) = NumCores - 1
  BY FiniteCores, FS_RemoveElement
<1>10. /\ IsFiniteSet(others \X {0, 1})
       /\ Cardinality(others \X {0, 1}) = (NumCores - 1) * 2
  <2>1. {0, 1} = 0 .. 1
    OBVIOUS
  <2>2. IsFiniteSet(0 .. 1) /\ Cardinality(0 .. 1) = 2
    BY TwoSides
  <2> HIDE DEF others
  <2> QED
    BY <1>9, <2>1, <2>2, FS_Product
<1>11. Cardinality(cells) = 2 * NumCores - 1
  BY <1>1, FS_Interval
<1>12. Cardinality(cells) <= Cardinality(others \X {0, 1})
  <2> HIDE DEF cells, others, place
  <2> QED
    BY <1>8, <1>10, FS_Injection
<1>13. 2 * NumCores - 1 <= (NumCores - 1) * 2
  <2> HIDE DEF cells, others
  <2> QED
    BY <1>10, <1>11, <1>12
<1> HIDE DEF cells, others, place, start, coreOf, who, spot
<1> QED
  BY <1>1, <1>13

LEMMA RoomFits ==
  ASSUME Serves, MemoryAgrees, RoomForAll,
         NEW c \in Cores, cpu_cores[c] = NoProc, NEW p \in Procs
  PROVE  Fits(owner, p)
<1>1. PICK m \in Nat : /\ \A q \in Procs : MemoryAllocation[q] <= m
                       /\ (2 * NumCores - 1) * m <= Total
  BY DEF RoomForAll
<1>2. PICK k \in 0 .. 2 * NumCores - 2 :
        \A a \in Cell(k, m) \cap Addresses : owner[a] = Free
  BY <1>1, FreeCell
<1>3. /\ NumCores \in Nat \ {0} /\ Total \in Nat
      /\ MemoryAllocation[p] \in Nat \ {0} /\ MemoryAllocation[p] <= m
  BY <1>1, SchedulerAssumption, SpaceAssumption
  DEF SchedulerAssumption, SpaceAssumption
<1>4. k * m \in Nat /\ k * m + m <= Total
  <2>1. k \in Nat /\ 2 * NumCores - 1 \in Nat /\ k < 2 * NumCores - 1
    BY <1>3
  <2>2. k * m \in Nat /\ (2 * NumCores - 1) * m \in Nat
        /\ k * m + m <= (2 * NumCores - 1) * m
    BY <2>1, CellsInOrder
  <2> QED
    BY <1>1, <1>3, <2>2
<1> DEFINE base == k * m
<1>5. /\ base \in Addresses
      /\ Run(base, MemoryAllocation[p]) \subseteq Addresses
      /\ Run(base, MemoryAllocation[p]) \subseteq Cell(k, m)
  <2>1. base \in Nat /\ base + m <= Total
    BY <1>4
  <2>2. Cell(k, m) = base .. base + m - 1
    BY DEF Cell
  <2> HIDE DEF base
  <2> QED
    BY <1>3, <2>1, <2>2 DEF Addresses, Run
<1>6. base \in Holes(owner, MemoryAllocation[p])
  <2> HIDE DEF base
  <2> QED
    BY <1>2, <1>5 DEF Holes
<1> QED
  BY <1>6 DEF Fits

LEMMA NextStoresNothing ==
  ASSUME ~RoundRobin, RoomForAll, Serves, MemoryAgrees, [Next]_vars
  PROVE  store' = <<>>
<1>1. store = <<>>
  BY ServesTypes
<1>2. ~DispatchToStore
  <2>1. ASSUME DispatchToStore PROVE FALSE
    <3>1. /\ cpu_cores[sched.slot] = NoProc /\ ready_queue # <<>>
          /\ ~Fits(owner, Head(ready_queue))
      BY <2>1 DEF DispatchToStore
    <3>2. sched.slot \in Cores /\ Head(ready_queue) \in Procs
      BY <3>1, ServesTypes, SlotTypes, Queues
    <3> QED
      BY <3>1, <3>2, RoomFits
  <2> QED
    BY <2>1
<1>3. ASSUME NEW c \in Cores, Instructs(c) PROVE store' = store
  BY <1>3, ServesTypes, InstructThreads
<1> QED
  BY <1>1, <1>2, <1>3, ServingSteps
  DEF Tick, Generate, GenerateNothing, WakeSleepers, AssignNothing, Dispatch,
      SwapNothing, IdleNothing, ServingCore, Read, Validate, Complete, NotComplete,
      CliStep, screen_start, screen_list, stop_scheduler, report_utilization, vars

(* Under fcfs no process is ever stored when the memory holds 2 * num-cpu  *)
(* - 1 processes of the largest size: first fit finds a place for the head *)
(* of the queue whenever a core is free, whatever the order of arrivals    *)
(* and departures.  The theorems above then hold without their hypothesis. *)
THEOREM NeverStored ==
  ASSUME ~RoundRobin, RoomForAll PROVE Spec => []NothingStored
<1> DEFINE IInv == Serves /\ MemoryAgrees
<1>1. Init => IInv
  BY InitServes, InitMemory
<1>2. IInv /\ [Next]_vars => IInv'
  <2> SUFFICES ASSUME Serves, MemoryAgrees, [Next]_vars
               PROVE  Serves' /\ MemoryAgrees'
    OBVIOUS
  <2>1. Places
    BY ServesTypes
  <2> QED
    BY <2>1, NextStoresNothing, NextServes, NextMemory
<1>3. IInv => NothingStored
  BY ServesTypes DEF NothingStored
<1> QED
  BY <1>1, <1>2, <1>3, PTL DEF Spec

-----------------------------------------------------------------------------
(* Round robin on one core.  The scheduler empties the slot behind the     *)
(* thread's back, so the slot need not hold what the thread works on.  The *)
(* counter is still right, because a process that is removed as invalid    *)
(* had nothing left when it was dispatched: its quantum has not begun to   *)
(* be used up, and it is still in the slot when the thread clears it.      *)

OneCoreInTurns == RoundRobin /\ NumCores = 1 /\ Quantum >= 1

Unused(p) == proc[p].ticks_ran_in_quantum = 0

FreshSlot(c) == cpu_cores[c] = core[c].held /\ Unused(core[c].held)

Validating(c) ==
  At(c, "validate") /\ ~core[c].dangling
    => Executable(core[c].held) \/ FreshSlot(c)

Removing(c) == At(c, "remove") /\ ~core[c].dangling => FreshSlot(c)

(* Where the pc of the slot's process may be past the end. *)
SlotGoesOn(c) ==
  cpu_cores[c] # NoProc =>
    \/ proc[cpu_cores[c]].program_counter < NumInst(cpu_cores[c])
    \/ Unused(cpu_cores[c])
    \/ At(c, "complete")
    \/ core[c].pc \in {"for", "commit"} /\ core[c].held = cpu_cores[c]

InTurns(c) == Validating(c) /\ Removing(c) /\ SlotGoesOn(c)

Turns ==
  /\ Places /\ UsedCountsCores /\ Loops /\ StoredDangling
  /\ \A c \in Cores : InTurns(c)

(* How a step of the scheduler thread changes one slot: not at all, or it  *)
(* is emptied at the end of a quantum or by freeing its process, or filled *)
(* with a process whose quantum begins.                                    *)
SlotMove(c) ==
  \/ cpu_cores'[c] = cpu_cores[c]
  \/ /\ cpu_cores[c] # NoProc /\ cpu_cores'[c] = NoProc
     /\ \/ proc[cpu_cores[c]].ticks_ran_in_quantum >= Quantum
        \/ core[c].held = cpu_cores[c] => core'[c].dangling
  \/ /\ cpu_cores[c] = NoProc
     /\ cpu_cores'[c] \in Procs
     /\ proc'[cpu_cores'[c]].ticks_ran_in_quantum = 0

LEMMA SlotMoves ==
  ASSUME RoundRobin, Places, SchedulerStep, NEW c \in Cores
  PROVE  SlotMove(c)
<1>1. /\ proc \in [Procs -> ProcessStruct] /\ core \in [Cores -> CoreThread]
      /\ ready_queue \in Seq(Procs) /\ sched.slot \in Cores
      /\ cpu_cores \in [Cores -> Procs \cup {NoProc}]
  BY SlotTypes
<1>2. CASE Preempt
  <2>1. CASE Expired(cpu_cores[sched.slot])
    <3>1. cpu_cores' = [cpu_cores EXCEPT ![sched.slot] = NoProc]
      BY <1>2, <2>1 DEF Preempt
    <3> QED
      BY <1>1, <2>1, <3>1 DEF SlotMove, Expired
  <2>2. CASE cpu_cores' = cpu_cores
    BY <2>2 DEF SlotMove
  <2> QED
    BY <1>2, <2>1, <2>2 DEF Preempt
<1>3. CASE Dispatch
  <2> DEFINE p == Head(ready_queue)
  <2>1. /\ cpu_cores[sched.slot] = NoProc /\ ready_queue # <<>>
        /\ cpu_cores' = [cpu_cores EXCEPT ![sched.slot] = p]
        /\ proc' = [proc EXCEPT ![p].state = "RUNNING", ![p].in_memory = TRUE,
                                ![p].ticks_ran_in_quantum = 0]
    BY <1>3 DEF Dispatch
  <2>2. p \in Procs
    BY <1>1, <2>1, Queues
  <2> HIDE DEF p
  <2>3. proc'[p].ticks_ran_in_quantum = 0
    BY <1>1, <2>1, <2>2 DEF ProcessStruct
  <2> QED
    BY <1>1, <2>1, <2>2, <2>3 DEF SlotMove
<1>4. CASE SwapOutAndIn
  <2>1. PICK d \in Cores : /\ OnCoreRunning(d)
                           /\ cpu_cores' = [cpu_cores EXCEPT ![d] = NoProc]
                           /\ core' = StructFreed(cpu_cores[d])
    BY <1>4 DEF SwapOutAndIn
  <2>2. core[c].held = cpu_cores[d] => core'[c].dangling
    BY <1>1, <2>1 DEF StructFreed, CoreThread
  <2> QED
    BY <1>1, <2>1, <2>2 DEF SlotMove, OnCoreRunning
<1>5. CASE cpu_cores' = cpu_cores
  BY <1>5 DEF SlotMove
<1> QED
  BY <1>2, <1>3, <1>4, <1>5
  DEF SchedulerStep, Tick, Generate, GenerateNothing, WakeSleepers, AssignNothing,
      DispatchToStore, SwapIn, SwapNothing, IdleSwapIn, IdleNothing

(* The scheduler thread only sets counters of ticks back to 0.             *)
LEMMA SchedulerUnused ==
  ASSUME Places, SchedulerStep, NEW p \in Procs, Unused(p)
  PROVE  proc'[p].ticks_ran_in_quantum = 0
<1>1. proc \in [Procs -> ProcessStruct]
  BY SlotTypes
<1>2. CASE Tick
  BY <1>1, <1>2 DEF Tick, ProcessStruct, Unused
<1>3. CASE Generate
  BY <1>1, <1>3 DEF Generate, Submit, ProcessStruct, Unused
<1>4. CASE WakeSleepers
  BY <1>1, <1>4 DEF WakeSleepers, ProcessStruct, Unused
<1>5. CASE Preempt
  <2>1. PICK q : proc' = proc \/ proc' = [proc EXCEPT ![q].state = "READY"]
    BY <1>5 DEF Preempt
  <2>2. CASE proc' = [proc EXCEPT ![q].state = "READY"]
    BY <1>1, <2>2 DEF ProcessStruct, Unused
  <2> QED
    BY <2>1, <2>2 DEF Unused
<1>6. CASE Dispatch
  <2>1. proc' = [proc EXCEPT ![Head(ready_queue)].state = "RUNNING",
                             ![Head(ready_queue)].in_memory = TRUE,
                             ![Head(ready_queue)].ticks_ran_in_quantum =
                                IF RoundRobin THEN 0 ELSE @]
    BY <1>6 DEF Dispatch
  <2> QED
    BY <1>1, <2>1 DEF ProcessStruct, Unused
<1>7. CASE SwapIn \/ IdleSwapIn
  <2>1. proc' = [proc EXCEPT ![Head(store)] = Restored(@)]
    BY <1>7 DEF SwapIn, IdleSwapIn
  <2> QED
    BY <1>1, <2>1 DEF Restored, ProcessStruct, Unused
<1>8. CASE SwapOutAndIn
  <2>1. PICK c \in Cores :
          LET saved == [proc EXCEPT ![cpu_cores[c]].in_memory = FALSE]
          IN  proc' \in {saved, [saved EXCEPT ![Head(store)] = Restored(@)]}
    BY <1>8 DEF SwapOutAndIn
  <2> DEFINE saved == [proc EXCEPT ![cpu_cores[c]].in_memory = FALSE]
  <2>2. saved[p].ticks_ran_in_quantum = 0
    BY <1>1 DEF ProcessStruct, Unused
  <2>3. saved \in [Procs -> ProcessStruct]
    BY <1>1 DEF ProcessStruct
  <2>4. proc' = saved \/ proc' = [saved EXCEPT ![Head(store)] = Restored(@)]
    BY <2>1
  <2> HIDE DEF saved
  <2>5. ASSUME NEW q
        PROVE  [saved EXCEPT ![q] = Restored(@)][p].ticks_ran_in_quantum = 0
    BY <2>2, <2>3 DEF Restored, ProcessStruct
  <2> QED
    BY <2>2, <2>4, <2>5
<1>9. CASE UNCHANGED proc
  BY <1>9 DEF Unused
<1> QED
  BY <1>2, <1>3, <1>4, <1>5, <1>6, <1>7, <1>8, <1>9
  DEF SchedulerStep, GenerateNothing, AssignNothing, DispatchToStore,
      SwapNothing, IdleNothing

(* It keeps the count of the busy cores.                                   *)
LEMMA SchedulerCount ==
  ASSUME Places, UsedCountsCores, SchedulerStep
  PROVE  UsedCountsCores'
<1>1. /\ cpu_cores \in [Cores -> Procs \cup {NoProc}]
      /\ sched.slot \in Cores /\ ready_queue \in Seq(Procs)
  BY SlotTypes
<1>2. CASE Preempt /\ Expired(cpu_cores[sched.slot])
  <2>1. /\ cpu_cores[sched.slot] # NoProc /\ used' = used - 1
        /\ cpu_cores' = [cpu_cores EXCEPT ![sched.slot] = NoProc]
    BY <1>2 DEF Preempt, Expired
  <2> QED
    BY <1>1, <2>1, CountCleared
<1>3. CASE Dispatch
  <2>1. /\ cpu_cores[sched.slot] = NoProc /\ used' = used + 1
        /\ cpu_cores' = [cpu_cores EXCEPT ![sched.slot] = Head(ready_queue)]
        /\ ready_queue # <<>>
    BY <1>3 DEF Dispatch
  <2>2. Head(ready_queue) \in Procs
    BY <1>1, <2>1, Queues
  <2> QED
    BY <1>1, <2>1, <2>2, CountFilled
<1>4. CASE SwapOutAndIn
  <2>1. PICK c \in Cores :
          /\ OnCoreRunning(c) /\ used' = used - 1
          /\ cpu_cores' = [cpu_cores EXCEPT ![c] = NoProc]
    BY <1>4 DEF SwapOutAndIn
  <2> QED
    BY <1>1, <2>1, CountCleared DEF OnCoreRunning
<1>5. CASE UNCHANGED <<cpu_cores, used>>
  BY <1>5, CountKept
<1> QED
  BY <1>2, <1>3, <1>4, <1>5
  DEF SchedulerStep, Tick, Generate, GenerateNothing, WakeSleepers, Preempt,
      AssignNothing, DispatchToStore, SwapIn, SwapNothing, IdleSwapIn, IdleNothing

(* A process that is stored is not executed on: its struct was freed.      *)
LEMMA StoreGrows ==
  ASSUME store \in Seq(Procs), NEW p \in Procs,
         store' \in {store, Append(store, p), Tail(store), Append(Tail(store), p)},
         store = <<>> => store' \in {store, Append(store, p)}
  PROVE  \A q : InStore(q)' => InStore(q) \/ q = p
<1>1. ASSUME NEW s \in Seq(Procs), NEW q, Has(Append(s, p), q) PROVE Has(s, q) \/ q = p
  <2>1. PICK i \in 1 .. Len(s) + 1 : Append(s, p)[i] = q
    BY <1>1 DEF Has
  <2>2. CASE i = Len(s) + 1
    BY <2>1, <2>2
  <2>3. CASE i # Len(s) + 1
    <3>1. i \in DOMAIN s /\ s[i] = q
      BY <2>1, <2>3
    <3> QED
      BY <3>1 DEF Has
  <2> QED
    BY <2>2, <2>3
<1>2. ASSUME store # <<>>, NEW q, Has(Tail(store), q) PROVE Has(store, q)
  <2>1. PICK i \in 1 .. Len(store) - 1 : Tail(store)[i] = q
    BY <1>2 DEF Has
  <2>2. i + 1 \in DOMAIN store /\ store[i + 1] = q
    BY <1>2, <2>1
  <2> QED
    BY <2>2 DEF Has
<1>3. store # <<>> => Tail(store) \in Seq(Procs)
  BY Queues
<1>4. \A q : Has(store', q) => Has(store, q) \/ q = p
  BY <1>1, <1>2, <1>3
<1> QED
  BY <1>4 DEF InStore, Has

LEMMA SchedulerStored ==
  ASSUME Places, StoredDangling, SchedulerStep
  PROVE  StoredDangling'
<1>1. /\ store \in Seq(Procs) /\ ready_queue \in Seq(Procs)
      /\ core \in [Cores -> CoreThread]
      /\ cpu_cores \in [Cores -> Procs \cup {NoProc}]
  BY SlotTypes
<1> SUFFICES ASSUME NEW d \in Cores, Active(d)', InStore(core[d].held)'
             PROVE  core'[d].dangling
  BY DEF StoredDangling
<1>2. /\ Active(d) /\ core'[d].held = core[d].held
      /\ core[d].dangling => core'[d].dangling
  BY SchedulerThreads DEF Active
<1>3. ASSUME NEW p \in Procs, core[d].held = p => core'[d].dangling,
             \A q : InStore(q)' => InStore(q) \/ q = p
      PROVE  core'[d].dangling
  BY <1>2, <1>3 DEF StoredDangling
<1>4. CASE DispatchToStore
  <2> DEFINE p == Head(ready_queue)
  <2>1. /\ ready_queue # <<>> /\ store' = Append(store, p) /\ core' = StructFreed(p)
    BY <1>4 DEF DispatchToStore
  <2>2. p \in Procs
    BY <1>1, <2>1, Queues
  <2> HIDE DEF p
  <2>3. \A q : InStore(q)' => InStore(q) \/ q = p
    BY <1>1, <2>1, <2>2, StoreGrows
  <2>4. core[d].held = p => core'[d].dangling
    BY <1>1, <2>1 DEF StructFreed, CoreThread
  <2> QED
    BY <1>3, <2>2, <2>3, <2>4
<1>5. CASE SwapOutAndIn
  <2>1. PICK c \in Cores :
          /\ OnCoreRunning(c) /\ core' = StructFreed(cpu_cores[c])
          /\ store' \in {Append(store, cpu_cores[c]), Append(Tail(store), cpu_cores[c])}
    BY <1>5 DEF SwapOutAndIn
  <2>2. store # <<>> /\ cpu_cores[c] \in Procs
    BY <1>1, <1>5, <2>1 DEF SwapOutAndIn, SwapInDue, OnCoreRunning
  <2>3. \A q : InStore(q)' => InStore(q) \/ q = cpu_cores[c]
    BY <1>1, <2>1, <2>2, StoreGrows
  <2>4. core[d].held = cpu_cores[c] => core'[d].dangling
    BY <1>1, <2>1 DEF StructFreed, CoreThread
  <2> QED
    BY <1>3, <2>2, <2>3, <2>4
<1>6. CASE store' = store \/ (store # <<>> /\ store' = Tail(store) /\ core' = core)
  <2>1. ASSUME NEW q, InStore(q)' PROVE InStore(q)
    <3>1. CASE store' = store
      BY <2>1, <3>1 DEF InStore
    <3>2. CASE store # <<>> /\ store' = Tail(store)
      BY <1>1, <2>1, <3>2, Unstored, SlotTypes DEF OnePlace
    <3> QED
      BY <1>6, <3>1, <3>2
  <2> QED
    BY <1>2, <2>1 DEF StoredDangling
<1> QED
  BY <1>4, <1>5, <1>6
  DEF SchedulerStep, Tick, Generate, GenerateNothing, WakeSleepers, Preempt,
      AssignNothing, Dispatch, SwapIn, SwapInDue, SwapNothing, IdleSwapIn,
      IdleSwapInPossible, IdleNothing

LEMMA CoreStored ==
  ASSUME Places, StoredDangling, NEW c \in Cores, CoreLockStep(c) \/ CoreRunStep(c)
  PROVE  StoredDangling'
<1>1. /\ core \in [Cores -> CoreThread] /\ OnePlace
      /\ cpu_cores \in [Cores -> Procs \cup {NoProc}]
  BY SlotTypes
<1>2. store' = store
  <2>1. CASE Instructs(c)
    BY <2>1, InstructThreads
  <2>2. CASE ~Instructs(c)
    BY <2>2, KindsOfCoreSteps
    DEF Looks, Read, Validate, NotComplete, UseAfterFree, PrintToNull,
        PushBelowStack, Remove, Complete
  <2> QED
    BY <2>1, <2>2
<1>3. \A d \in Cores : d # c => core'[d] = core[d]
  BY OtherThreads
<1> SUFFICES ASSUME Active(c)', InStore(core'[c].held)
             PROVE  core'[c].dangling
  BY <1>2, <1>3 DEF StoredDangling, Active, InStore
<1>4. CASE Read(c)
  <2>1. /\ core'[c].held = cpu_cores[c]
        /\ core'[c].pc = "complete" \/ OnCoreRunning(c)
    BY <1>1, <1>4 DEF Read, CoreThread
  <2>2. cpu_cores[c] \in Procs
    BY <1>1, <2>1 DEF Active, OnCoreRunning
  <2> QED
    BY <1>1, <2>1, <2>2 DEF OnePlace, OnCore
<1>5. CASE Validate(c)
  <2>1. Active(c) /\ ~core[c].dangling /\ core'[c].held = core[c].held
    BY <1>1, <1>5 DEF Validate, At, Active, CoreThread
  <2> QED
    BY <2>1 DEF StoredDangling
<1>6. CASE Instructs(c)
  BY <1>6, InstructThreads DEF StoredDangling
<1>7. CASE Remove(c) \/ Complete(c) \/ NotComplete(c)
  <2>1. core'[c].pc \in {"read", "complete"}
    BY <1>1, <1>7 DEF Remove, Complete, NotComplete, IdleThread, CoreThread
  <2> QED
    BY <2>1 DEF Active
<1>8. CASE UseAfterFree(c) \/ PrintToNull(c) \/ PushBelowStack(c)
  <2>1. core' = core
    BY <1>8 DEF UseAfterFree, PrintToNull, PushBelowStack
  <2> QED
    BY <2>1 DEF StoredDangling, Active
<1> QED
  BY <1>4, <1>5, <1>6, <1>7, <1>8, KindsOfCoreSteps DEF Looks

LEMMA CliStored ==
  ASSUME StoredDangling, CliStep \/ UNCHANGED vars
  PROVE  StoredDangling'
<1>1. UNCHANGED <<core, store>>
  BY DEF CliStep, screen_start, screen_list, stop_scheduler, report_utilization, vars
<1> QED
  BY <1>1 DEF StoredDangling, Active, InStore

LEMMA TurnsTypes ==
  ASSUME Turns
  PROVE  /\ Places /\ UsedCountsCores /\ Loops /\ StoredDangling
         /\ proc \in [Procs -> ProcessStruct] /\ core \in [Cores -> CoreThread]
         /\ cpu_cores \in [Cores -> Procs \cup {NoProc}] /\ NoProc \notin Procs
         /\ \A p \in Procs : /\ proc[p].program_counter \in Nat
                             /\ NumInst(p) \in Nat /\ NumInst(p) >= 1
         /\ \A c \in Cores : /\ InTurns(c)
                             /\ Active(c) => core[c].held \in Procs
<1>1. /\ Places /\ UsedCountsCores /\ Loops /\ StoredDangling
      /\ \A c \in Cores : InTurns(c)
  BY DEF Turns
<1>2. \A c \in Cores : Active(c) => core[c].held \in Procs
  BY <1>1, HeldIsProcess DEF Places, Active
<1>3. \A p \in Procs : proc[p].program_counter \in Nat
  BY <1>1, SlotTypes DEF ProcessStruct
<1>4. \A p \in Procs : NumInst(p) \in Nat /\ NumInst(p) >= 1
  <2> SUFFICES ASSUME NEW p \in Procs PROVE NumInst(p) \in Nat /\ NumInst(p) >= 1
    OBVIOUS
  <2>1. NumInst(p) \in Nat \ {0}
    BY ProgramLength
  <2> QED
    BY <2>1
<1> QED
  BY <1>1, <1>2, <1>3, <1>4, SlotTypes

LEMMA SchedulerTurns ==
  ASSUME OneCoreInTurns, Turns, SchedulerStep, NEW c \in Cores
  PROVE  InTurns(c)'
<1>1. /\ Places /\ InTurns(c)
      /\ proc \in [Procs -> ProcessStruct]
      /\ cpu_cores \in [Cores -> Procs \cup {NoProc}] /\ NoProc \notin Procs
      /\ Active(c) => core[c].held \in Procs
      /\ Quantum \in Nat /\ Quantum >= 1
  BY TurnsTypes, Constants DEF OneCoreInTurns
<1>2. /\ core'[c].pc = core[c].pc /\ core'[c].held = core[c].held
      /\ core[c].dangling => core'[c].dangling
  BY <1>1, SchedulerThreads
<1>3. \A p \in Procs : proc'[p].program_counter = proc[p].program_counter
  BY <1>1, SchedulerCounters DEF SchedulerKeeps
<1>4. \A p \in Procs : Unused(p) => Unused(p)'
  BY <1>1, SchedulerUnused DEF Unused
<1>5. finished' = finished
  BY DEF SchedulerStep, Tick, Generate, GenerateNothing, WakeSleepers, Preempt,
         AssignNothing, Dispatch, DispatchToStore, SwapIn, SwapOutAndIn,
         SwapNothing, IdleSwapIn, IdleNothing
<1>6. SlotMove(c)
  BY <1>1, SlotMoves DEF OneCoreInTurns
<1>7. \A p \in Procs : Executable(p) => Executable(p)'
  BY <1>3, <1>5 DEF Executable
<1>8. ASSUME FreshSlot(c), core[c].held \in Procs, ~core'[c].dangling
      PROVE  FreshSlot(c)'
  <2>1. Unused(core[c].held) /\ cpu_cores[c] = core[c].held
    BY <1>8 DEF FreshSlot
  <2>2. ~(proc[cpu_cores[c]].ticks_ran_in_quantum >= Quantum)
    BY <1>1, <2>1 DEF Unused
  <2>3. cpu_cores'[c] = cpu_cores[c]
    BY <1>1, <1>6, <1>8, <2>1, <2>2 DEF SlotMove
  <2> QED
    BY <1>2, <1>4, <1>8, <2>1, <2>3 DEF FreshSlot, Unused
<1>9. Validating(c)'
  <2> SUFFICES ASSUME At(c, "validate")', ~core'[c].dangling
               PROVE  Executable(core[c].held)' \/ FreshSlot(c)'
    BY <1>2 DEF Validating, Executable
  <2>1. /\ core[c].held \in Procs
        /\ Executable(core[c].held) \/ FreshSlot(c)
    BY <1>1, <1>2 DEF InTurns, Validating, At, Active
  <2> QED
    BY <1>2, <1>7, <1>8, <2>1 DEF Executable
<1>10. Removing(c)'
  <2> SUFFICES ASSUME At(c, "remove")', ~core'[c].dangling
               PROVE  FreshSlot(c)'
    BY DEF Removing
  <2> QED
    BY <1>1, <1>2, <1>8 DEF InTurns, Removing, At, Active
<1>11. SlotGoesOn(c)'
  <2> SUFFICES ASSUME cpu_cores'[c] # NoProc
               PROVE  SlotGoesOn(c)'
    BY DEF SlotGoesOn
  <2>1. CASE cpu_cores'[c] = cpu_cores[c]
    <3> DEFINE s == cpu_cores[c]
    <3>1. /\ s \in Procs
          /\ \/ proc[s].program_counter < NumInst(s)
             \/ Unused(s)
             \/ At(c, "complete")
             \/ core[c].pc \in {"for", "commit"} /\ core[c].held = s
      BY <1>1, <2>1 DEF InTurns, SlotGoesOn
    <3>2. proc'[s].program_counter = proc[s].program_counter
      BY <1>3, <3>1
    <3>3. Unused(s) => proc'[s].ticks_ran_in_quantum = 0
      BY <1>1, <3>1, SchedulerUnused
    <3> QED
      BY <1>2, <2>1, <3>1, <3>2, <3>3 DEF SlotGoesOn, At, NumInst, Unused
  <2>2. CASE cpu_cores'[c] \in Procs /\ proc'[cpu_cores'[c]].ticks_ran_in_quantum = 0
    BY <2>2 DEF SlotGoesOn, Unused
  <2> QED
    BY <1>6, <2>1, <2>2 DEF SlotMove
<1> QED
  BY <1>9, <1>10, <1>11 DEF InTurns

(* A step of the core thread.                                              *)
LEMMA CoreTurns ==
  ASSUME OneCoreInTurns, Turns, NEW c \in Cores, CoreLockStep(c) \/ CoreRunStep(c)
  PROVE  InTurns(c)'
<1>1. /\ Places /\ InTurns(c) /\ OnePlace
      /\ core \in [Cores -> CoreThread]
      /\ cpu_cores \in [Cores -> Procs \cup {NoProc}]
      /\ Active(c) => core[c].held \in Procs
  BY TurnsTypes, SlotTypes
<1>2. CASE Read(c)
  <2>1. /\ core'[c].held = cpu_cores[c] /\ At(c, "read")
        /\ core'[c].pc = "complete" \/ (core'[c].pc = "validate" /\ OnCoreRunning(c))
        /\ UNCHANGED <<proc, cpu_cores, finished>>
    BY <1>1, <1>2 DEF Read, AtLock, At, CoreThread
  <2>2. CASE core'[c].pc = "complete"
    BY <2>2 DEF InTurns, Validating, Removing, SlotGoesOn, At
  <2>3. CASE core'[c].pc = "validate" /\ OnCoreRunning(c)
    <3> DEFINE s == cpu_cores[c]
    <3>1. s \in Procs /\ s \notin finished
      BY <1>1, <2>3, Constants DEF OnCoreRunning, OnePlace, OnCore
    <3>2. proc[s].program_counter < NumInst(s) \/ Unused(s)
      BY <1>1, <2>1, <2>3 DEF InTurns, SlotGoesOn, At, OnCoreRunning
    <3>3. Executable(s) \/ Unused(s)
      BY <3>1, <3>2 DEF Executable
    <3>4. Validating(c)'
      BY <2>1, <3>3 DEF Validating, FreshSlot, Executable, Unused, NumInst
    <3>5. SlotGoesOn(c)'
      BY <2>1, <3>2 DEF SlotGoesOn, Unused, NumInst
    <3> QED
      BY <2>3, <3>4, <3>5 DEF InTurns, Removing, At
  <2> QED
    BY <2>1, <2>2, <2>3
<1>3. CASE Validate(c)
  <2>1. /\ At(c, "validate") /\ ~core[c].dangling
        /\ core'[c].held = core[c].held
        /\ \/ core'[c].pc = "execute"
           \/ core'[c].pc = "remove" /\ ~Executable(core[c].held)
        /\ UNCHANGED <<proc, cpu_cores, finished>>
    BY <1>1, <1>3 DEF Validate, CoreThread
  <2>2. Removing(c)' /\ Validating(c)'
    BY <1>1, <2>1 DEF InTurns, Validating, Removing, FreshSlot, Unused, At
  <2>3. SlotGoesOn(c)'
    BY <1>1, <2>1 DEF InTurns, SlotGoesOn, Unused, At, NumInst
  <2> QED
    BY <2>2, <2>3 DEF InTurns
<1>4. CASE Instructs(c)
  <2> DEFINE h == core[c].held
             s == cpu_cores[c]
  <2>1. /\ core[c].pc \in {"execute", "for", "commit"}
        /\ core'[c].pc \in {"for", "commit", "complete"} /\ core'[c].held = h
        /\ cpu_cores' = cpu_cores
    BY <1>1, <1>4, InstructThreads
  <2>2. \A p \in Procs : p # h => proc'[p] = proc[p]
    BY <1>1, <1>4, InstructionStructs
  <2>3. SlotGoesOn(c)'
    <3> SUFFICES ASSUME s # NoProc, s # h
                 PROVE  proc'[s].program_counter < NumInst(s) \/ Unused(s)'
      BY <2>1 DEF SlotGoesOn, At
    <3>1. proc[s].program_counter < NumInst(s) \/ Unused(s)
      BY <1>1, <2>1 DEF InTurns, SlotGoesOn, At
    <3>2. proc'[s] = proc[s]
      BY <1>1, <2>2
    <3> QED
      BY <2>1, <3>1, <3>2 DEF Unused
  <2> QED
    BY <2>1, <2>3 DEF InTurns, Validating, Removing, At
<1>5. CASE Remove(c)
  <2>1. core'[c].pc = "complete"
    BY <1>1, <1>5 DEF Remove, CoreThread
  <2> QED
    BY <2>1 DEF InTurns, Validating, Removing, SlotGoesOn, At
<1>6. CASE Complete(c) \/ NotComplete(c)
  <2>1. core'[c].pc = "read"
    BY <1>1, <1>6 DEF Complete, NotComplete, IdleThread
  <2>2. SlotGoesOn(c)'
    <3>1. CASE Complete(c)
      BY <1>1, <3>1 DEF Complete, SlotGoesOn
    <3>2. CASE NotComplete(c)
      <4>1. cpu_cores' = cpu_cores /\ proc' = proc
        BY <3>2 DEF NotComplete
      <4>2. ASSUME cpu_cores[c] # NoProc
            PROVE  proc[cpu_cores[c]].program_counter < NumInst(cpu_cores[c])
        <5>0. proc[cpu_cores[c]].for_depth = 0
          <6>1. ~At(c, "for") /\ \A d \in Cores : d = c
            BY <3>2 DEF NotComplete, AtLock, At, OneCoreInTurns, Cores
          <6> QED
            BY <1>1, <4>2, <6>1, TurnsTypes DEF Loops
        <5>1. /\ cpu_cores[c] \in Procs
              /\ ~(proc[cpu_cores[c]].program_counter >= NumInst(cpu_cores[c]))
          BY <1>1, <3>2, <4>2, <5>0 DEF NotComplete, Done
        <5> QED
          BY <5>1, TurnsTypes
      <4> QED
        BY <4>1, <4>2 DEF SlotGoesOn, NumInst
    <3> QED
      BY <1>6, <3>1, <3>2
  <2> QED
    BY <2>1, <2>2 DEF InTurns, Validating, Removing, At
<1>7. CASE UseAfterFree(c) \/ PrintToNull(c) \/ PushBelowStack(c)
  <2>1. UNCHANGED <<core, cpu_cores, proc, finished>>
    BY <1>7 DEF UseAfterFree, PrintToNull, PushBelowStack
  <2> QED
    BY <1>1, <2>1
    DEF InTurns, Validating, Removing, SlotGoesOn, FreshSlot, Unused, Executable,
        At, NumInst
<1> QED
  BY <1>2, <1>3, <1>4, <1>5, <1>6, <1>7, KindsOfCoreSteps DEF Looks

LEMMA OtherTurns ==
  ASSUME Turns, CliStep \/ UNCHANGED vars, NEW c \in Cores
  PROVE  InTurns(c)' /\ UsedCountsCores'
<1>1. /\ InTurns(c) /\ UsedCountsCores
      /\ proc \in [Procs -> ProcessStruct] /\ Places
      /\ cpu_cores \in [Cores -> Procs \cup {NoProc}] /\ NoProc \notin Procs
      /\ Active(c) => core[c].held \in Procs
  BY TurnsTypes
<1>2. UNCHANGED <<core, cpu_cores, used, finished>>
  BY DEF CliStep, screen_start, screen_list, stop_scheduler, report_utilization, vars
<1>3. UsedCountsCores'
  BY <1>1, <1>2, CountKept
<1>4. ASSUME NEW p \in Procs
      PROVE  /\ proc'[p].ticks_ran_in_quantum = proc[p].ticks_ran_in_quantum
             /\ proc[p].program_counter < NumInst(p)
                  => proc'[p].program_counter < NumInst(p)
  <2>1. CASE \E q \in Procs : Submit(q)
    <3>1. PICK q \in Procs : proc' = [proc EXCEPT ![q].state = "READY"]
      BY <2>1 DEF Submit
    <3> QED
      BY <1>1, <3>1 DEF ProcessStruct
  <2>2. CASE Shows
    <3>1. PICK q, n : proc' = [proc EXCEPT ![q].program_counter = n]
      BY <2>2 DEF Shows, report_utilization, screen_list
    <3>2. proc'[p].ticks_ran_in_quantum = proc[p].ticks_ran_in_quantum
      BY <1>1, <3>1 DEF ProcessStruct
    <3> QED
      BY <1>1, <2>2, <3>2, ReportCounters DEF StepsLeftOf
  <2>3. CASE UNCHANGED proc
    BY <2>3
  <2> QED
    BY <2>1, <2>2, <2>3 DEF CliStep, screen_start, stop_scheduler, Shows, vars
<1>5. \A p \in Procs : /\ Executable(p) => Executable(p)'
                       /\ Unused(p) => Unused(p)'
  BY <1>2, <1>4 DEF Executable, Unused, NumInst
<1>6. Validating(c)' /\ Removing(c)'
  <2>1. At(c, "validate") \/ At(c, "remove") => core[c].held \in Procs
    BY <1>1 DEF At, Active
  <2>2. Validating(c) /\ Removing(c)
    BY <1>1 DEF InTurns
  <2>3. FreshSlot(c) /\ core[c].held \in Procs => FreshSlot(c)'
    BY <1>2, <1>5 DEF FreshSlot, Unused
  <2> QED
    BY <1>2, <1>5, <2>1, <2>2, <2>3 DEF Validating, Removing, At, Executable
<1>7. SlotGoesOn(c)'
  <2> SUFFICES ASSUME cpu_cores[c] # NoProc PROVE SlotGoesOn(c)'
    BY <1>2 DEF SlotGoesOn
  <2> DEFINE s == cpu_cores[c]
  <2>1. s \in Procs /\ SlotGoesOn(c)
    BY <1>1 DEF InTurns
  <2>2. Unused(s) => proc'[s].ticks_ran_in_quantum = 0
    BY <1>4, <2>1 DEF Unused
  <2>3. proc[s].program_counter < NumInst(s) => proc'[s].program_counter < NumInst(s)
    BY <1>4, <2>1
  <2> QED
    BY <1>2, <2>1, <2>2, <2>3 DEF SlotGoesOn, At, Unused, NumInst
<1> QED
  BY <1>3, <1>6, <1>7 DEF InTurns

LEMMA CoreCount ==
  ASSUME Turns, NEW c \in Cores, CoreLockStep(c) \/ CoreRunStep(c)
  PROVE  UsedCountsCores'
<1>1. /\ UsedCountsCores /\ Removing(c)
      /\ cpu_cores \in [Cores -> Procs \cup {NoProc}] /\ NoProc \notin Procs
  BY TurnsTypes DEF InTurns
<1>2. CASE Remove(c) \/ Complete(c)
  <2>1. cpu_cores[c] # NoProc
    <3>1. CASE Remove(c)
      <4>1. At(c, "remove") /\ ~core[c].dangling
        BY <3>1 DEF Remove, AtLock
      <4>2. cpu_cores[c] = core[c].held
        BY <1>1, <4>1 DEF Removing, FreshSlot
      <4>3. core[c].held \in Procs
        BY <4>1, TurnsTypes DEF At, Active
      <4> QED
        BY <1>1, <4>2, <4>3
    <3>2. CASE Complete(c)
      BY <3>2 DEF Complete, Done
    <3> QED
      BY <1>2, <3>1, <3>2
  <2>2. used' = used - 1 /\ cpu_cores' = [cpu_cores EXCEPT ![c] = NoProc]
    BY <1>2 DEF Remove, Complete
  <2> QED
    BY <1>1, <2>1, <2>2, CountCleared
<1>3. CASE Instructs(c) \/ Looks(c)
  <2>1. UNCHANGED <<cpu_cores, used>>
    <3>1. CASE Instructs(c)
      BY <3>1, InstructThreads, TurnsTypes
    <3>2. CASE Looks(c)
      BY <3>2 DEF Looks, Read, Validate, NotComplete, UseAfterFree, PrintToNull,
                  PushBelowStack
    <3> QED
      BY <1>3, <3>1, <3>2
  <2> QED
    BY <1>1, <2>1, CountKept
<1> QED
  BY <1>2, <1>3, KindsOfCoreSteps

LEMMA InitTurns == Init => Turns
<1> SUFFICES ASSUME Init PROVE Turns
  OBVIOUS
<1>1. Places /\ UsedCountsCores /\ Loops
  BY InitSlots, InitLoops DEF Slots
<1>2. \A c \in Cores : core[c].pc = "read" /\ cpu_cores[c] = NoProc
  BY DEF Init, IdleThread
<1> QED
  BY <1>1, <1>2
  DEF Turns, InTurns, Validating, Removing, SlotGoesOn, At, StoredDangling, Active

LEMMA NextTurns ==
  ASSUME OneCoreInTurns, Turns, [Next]_vars
  PROVE  Turns'
<1>1. Places' /\ Places /\ Loops /\ StoredDangling
  BY NextPlaces, TurnsTypes
<1>2. \A c, d \in Cores : c = d
  BY DEF OneCoreInTurns, Cores
<1>3. CASE SchedulerStep
  <2>1. Loops' /\ StoredDangling'
    BY <1>1, <1>3, SchedulerLoops, SchedulerStored
  <2> QED
    BY <1>1, <1>3, <2>1, SchedulerTurns, SchedulerCount DEF Turns
<1>4. ASSUME NEW c \in Cores, CoreLockStep(c) \/ CoreRunStep(c)
      PROVE  Turns'
  <2>1. InTurns(c)' /\ UsedCountsCores'
    BY <1>4, CoreTurns, CoreCount
  <2>2. Loops' /\ StoredDangling'
    <3>1. Alone(c)
      BY <1>2 DEF Alone
    <3> QED
      BY <1>1, <1>4, <3>1, CoreLoops, CoreStored
  <2> QED
    BY <1>1, <1>2, <2>1, <2>2 DEF Turns
<1>5. CASE CliStep \/ UNCHANGED vars
  <2>1. 1 \in Cores
    BY DEF OneCoreInTurns, Cores
  <2>2. Loops' /\ StoredDangling'
    BY <1>1, <1>5, CliLoops, CliStored
  <2> QED
    BY <1>1, <1>5, <2>1, <2>2, OtherTurns DEF Turns
<1> QED
  BY <1>3, <1>4, <1>5 DEF Next

(* In round robin on one core, too, the counter behind the utilization is  *)
(* the number of cores that have a process, for every quantum of at least  *)
(* one tick, any delay, and with reports and swapping: between the         *)
(* validation of a process without instructions and its removal the        *)
(* scheduler does not take it off the core.                                *)
THEOREM UsedIsTheBusyCoreInTurns ==
  ASSUME OneCoreInTurns PROVE Spec => []UsedCountsCores
<1>1. Turns /\ [Next]_vars => Turns'
  BY NextTurns
<1>2. Turns => UsedCountsCores
  BY DEF Turns
<1> QED
  BY InitTurns, <1>1, <1>2, PTL DEF Spec
=============================================================================
