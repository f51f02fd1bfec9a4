--------------------------- MODULE SchedulerProofs --------------------------
(***************************************************************************)
(* Theorems about Scheduler, for any number of processes and cores, any    *)
(* programs, sizes and configuration.                                      *)
(***************************************************************************)
EXTENDS Scheduler, SequenceTheorems, TLAPS

(* The constants, as the proofs use them. *)
LEMMA Constants ==
  /\ NumCores \in Nat /\ 1 \in Cores
  /\ Quantum \in Nat /\ Delay \in Nat /\ SleepTicks \in Nat /\ MinMem \in Nat
  /\ BatchFreq \in Nat \ {0} /\ SwapPeriod \in Nat \ {0}
  /\ CliProcs \subseteq Procs /\ NoProc \notin Procs /\ Free \notin Procs
  BY SchedulerAssumption, SpaceAssumption
  DEF SchedulerAssumption, SpaceAssumption, Cores

LEMMA InitTypeOK == Init => TypeOK
  BY Constants
  DEF Init, TypeOK, NewProcess, IdleThread, ProcessStruct, CoreThread,
      SchedSteps, CoreSteps, Kinds, TicksCap

(* What the owner maps of the next states are made of. *)
LEMMA OwnerMaps ==
  ASSUME NEW own \in [Addresses -> Procs \cup {Free}], NEW p \in Procs
  PROVE  /\ Allocated(own, p) \in [Addresses -> Procs \cup {Free}]
         /\ GivenBack(own, p) \in [Addresses -> Procs \cup {Free}]
  BY DEF Allocated, Taken, GivenBack

(* Where the steps of the scheduler thread go. *)
LEMMA GotoType ==
  ASSUME NEW step \in SchedSteps, Goto(step)
  PROVE  sched' \in [pc : SchedSteps, slot : Cores]
  BY Constants DEF Goto

LEMMA NextSlotType ==
  ASSUME sched \in [pc : SchedSteps, slot : Cores],
         NEW after \in SchedSteps, NextSlot(after)
  PROVE  sched' \in [pc : SchedSteps, slot : Cores]
<1>1. CASE sched.slot < NumCores
  BY <1>1, Constants DEF NextSlot, Cores
<1>2. CASE ~(sched.slot < NumCores)
  BY <1>2, GotoType DEF NextSlot
<1> QED
  BY <1>1, <1>2

LEMMA TickTypeOK ==
  ASSUME TypeOK, Tick
  PROVE  TypeOK'
<1>1. proc' \in [Procs -> ProcessStruct]
  <2>1. \A r \in ProcessStruct : [r EXCEPT !.sleep_left = Dec(@)] \in ProcessStruct
    BY Constants DEF ProcessStruct, Dec
  <2> QED
    BY <2>1 DEF TypeOK, Tick
<1>2. core' \in [Cores -> CoreThread]
  <2>1. \A t \in CoreThread : [t EXCEPT !.wait_left = Dec(@)] \in CoreThread
    BY Constants DEF CoreThread, Dec
  <2> QED
    BY <2>1 DEF TypeOK, Tick
<1>3. clock' \in [phase : 0 .. SwapPeriod - 1, since : 0 .. BatchFreq]
  <2>0. clock \in [phase : 0 .. SwapPeriod - 1, since : 0 .. BatchFreq]
    BY DEF TypeOK
  <2>1. clock.phase + 1 \in Nat /\ clock.since \in 0 .. BatchFreq
    BY <2>0, Constants
  <2>2. (clock.phase + 1) % SwapPeriod \in 0 .. SwapPeriod - 1
    <3>1. \A a \in Nat, n \in Nat \ {0} : a % n \in 0 .. n - 1
      OBVIOUS
    <3> QED
      BY <2>1, <3>1, Constants
  <2>3. (IF clock.since < BatchFreq THEN clock.since + 1 ELSE clock.since)
          \in 0 .. BatchFreq
    BY <2>1, Constants
  <2> QED
    BY <2>2, <2>3 DEF Tick
<1>4. sched' \in [pc : SchedSteps, slot : Cores]
  BY GotoType DEF Tick, SchedSteps
<1>5. \A c \in Cores : core'[c].pc = core[c].pc /\ core'[c].held = core[c].held
  BY DEF Tick, TypeOK, CoreThread
<1> QED
  BY <1>1, <1>2, <1>3, <1>4, <1>5 DEF TypeOK, Tick

LEMMA SubmitType ==
  ASSUME TypeOK, NEW p \in Procs, Submit(p)
  PROVE  proc' \in [Procs -> ProcessStruct] /\ ready_queue' \in Seq(Procs)
<1>1. proc \in [Procs -> ProcessStruct] /\ ready_queue \in Seq(Procs)
  BY DEF TypeOK
<1>2. proc' \in [Procs -> ProcessStruct]
  BY <1>1 DEF Submit, ProcessStruct
<1>3. ready_queue' \in Seq(Procs)
  BY <1>1 DEF Submit
<1> QED
  BY <1>2, <1>3

LEMMA GenerateTypeOK ==
  ASSUME TypeOK, Generate \/ GenerateNothing
  PROVE  TypeOK'
<1>1. sched' \in [pc : SchedSteps, slot : Cores]
  BY GotoType DEF Generate, GenerateNothing, SchedSteps
<1>2. clock' \in [phase : 0 .. SwapPeriod - 1, since : 0 .. BatchFreq]
  <2>1. clock \in [phase : 0 .. SwapPeriod - 1, since : 0 .. BatchFreq]
    BY DEF TypeOK
  <2> QED
    BY <2>1, Constants DEF Generate, GenerateNothing
<1>3. CASE Generate
  <2>1. PICK p \in Procs : Submit(p)
    BY <1>3 DEF Generate, Generable
  <2>2. proc' \in [Procs -> ProcessStruct] /\ ready_queue' \in Seq(Procs)
    BY <2>1, SubmitType
  <2> QED
    BY <1>1, <1>2, <1>3, <2>2 DEF Generate, TypeOK
<1>4. CASE GenerateNothing
  BY <1>1, <1>2, <1>4 DEF GenerateNothing, TypeOK
<1> QED
  BY <1>3, <1>4

LEMMA WakeSleepersTypeOK ==
  ASSUME TypeOK, WakeSleepers
  PROVE  TypeOK'
<1>1. sched' \in [pc : SchedSteps, slot : Cores]
  BY GotoType DEF WakeSleepers, AfterWake, SchedSteps
<1>2. \A r \in ProcessStruct :
        [r EXCEPT !.state = "RUNNING",
                  !.ticks_ran_in_quantum = IF RoundRobin THEN 0 ELSE @]
          \in ProcessStruct
  <2>1. 0 \in 0 .. TicksCap
    BY Constants DEF TicksCap
  <2> QED
    BY <2>1 DEF ProcessStruct
<1>3. proc' \in [Procs -> ProcessStruct]
  BY <1>2 DEF WakeSleepers, TypeOK
<1> QED
  BY <1>1, <1>3 DEF WakeSleepers, TypeOK

LEMMA PreemptTypeOK ==
  ASSUME TypeOK, Preempt
  PROVE  TypeOK'
<1>1. sched' \in [pc : SchedSteps, slot : Cores]
  BY NextSlotType DEF Preempt, TypeOK, SchedSteps
<1>2. CASE Expired(cpu_cores[sched.slot])
  <2>1. cpu_cores[sched.slot] \in Procs
    BY <1>2 DEF Expired, TypeOK
  <2>2. /\ proc \in [Procs -> ProcessStruct] /\ ready_queue \in Seq(Procs)
        /\ cpu_cores \in [Cores -> Procs \cup {NoProc}]
    BY DEF TypeOK
  <2>3. proc' \in [Procs -> ProcessStruct]
    <3>1. \A q \in Procs : [proc EXCEPT ![q].state = "READY"] \in [Procs -> ProcessStruct]
      BY <2>2 DEF ProcessStruct
    <3> QED
      BY <1>2, <2>1, <3>1 DEF Preempt
  <2>4. /\ ready_queue' \in Seq(Procs)
        /\ cpu_cores' \in [Cores -> Procs \cup {NoProc}]
    BY <1>2, <2>1, <2>2 DEF Preempt
  <2>5. UNCHANGED <<owner, store, finished, clock, processes_generating,
                    core, fault>>
    BY DEF Preempt
  <2>6. used' \in Int
    <3>1. used' = used - 1
      BY <1>2 DEF Preempt
    <3>2. used \in Int
      BY DEF TypeOK
    <3> QED
      BY <3>1, <3>2
  <2> QED
    BY <1>1, <2>3, <2>4, <2>5, <2>6 DEF TypeOK
<1>3. CASE ~Expired(cpu_cores[sched.slot])
  BY <1>1, <1>3 DEF Preempt, TypeOK
<1> QED
  BY <1>2, <1>3

(* The steps of the scheduler thread that only move it on. *)
LEMMA SkipTypeOK ==
  ASSUME TypeOK, AssignNothing \/ SwapNothing \/ IdleNothing
  PROVE  TypeOK'
<1>1. sched \in [pc : SchedSteps, slot : Cores]
  BY DEF TypeOK
<1>2. sched' \in [pc : SchedSteps, slot : Cores]
  BY <1>1, GotoType, NextSlotType
  DEF AssignNothing, SwapNothing, IdleNothing, SchedSteps
<1>3. UNCHANGED <<proc, owner, ready_queue, store, cpu_cores, used, finished,
                  clock, processes_generating, core, fault>>
  BY DEF AssignNothing, SwapNothing, IdleNothing
<1> QED
  BY <1>2, <1>3 DEF TypeOK

(* Taking the head off a queue and putting a process at its end. *)
LEMMA Queues ==
  ASSUME NEW q \in Seq(Procs)
  PROVE  /\ q # <<>> => Head(q) \in Procs /\ Tail(q) \in Seq(Procs)
         /\ \A p \in Procs : Append(q, p) \in Seq(Procs)
  BY HeadTailProperties, AppendProperties

LEMMA StructFreedType ==
  ASSUME TypeOK, NEW p \in Procs
  PROVE  /\ StructFreed(p) \in [Cores -> CoreThread]
         /\ \A c \in Cores : /\ StructFreed(p)[c].pc = core[c].pc
                            /\ StructFreed(p)[c].held = core[c].held
<1>1. core \in [Cores -> CoreThread]
  BY DEF TypeOK
<1> QED
  BY <1>1 DEF StructFreed, CoreThread

LEMMA RestoredType ==
  ASSUME NEW r \in ProcessStruct
  PROVE  Restored(r) \in ProcessStruct
<1>1. 0 \in 0 .. TicksCap /\ 0 \in Int
  BY Constants DEF TicksCap
<1>2. [r EXCEPT !.logs = FALSE, !.for_depth = 0] \in ProcessStruct
  BY <1>1 DEF ProcessStruct
<1>3. \A q \in ProcessStruct :
        [q EXCEPT !.in_memory = TRUE, !.ticks_ran_in_quantum = 0] \in ProcessStruct
  BY <1>1 DEF ProcessStruct
<1>4. Restored(r) = [[r EXCEPT !.logs = FALSE, !.for_depth = 0]
                       EXCEPT !.in_memory = TRUE, !.ticks_ran_in_quantum = 0]
  BY DEF Restored, ProcessStruct
<1> QED
  BY <1>2, <1>3, <1>4

LEMMA DispatchTypeOK ==
  ASSUME TypeOK, Dispatch \/ DispatchToStore
  PROVE  TypeOK'
<1> DEFINE p == Head(ready_queue)
<1>1. /\ proc \in [Procs -> ProcessStruct]
      /\ owner \in [Addresses -> Procs \cup {Free}]
      /\ cpu_cores \in [Cores -> Procs \cup {NoProc}]
      /\ sched \in [pc : SchedSteps, slot : Cores]
      /\ store \in Seq(Procs) /\ used \in Int
  BY DEF TypeOK
<1>2. p \in Procs /\ ready_queue' \in Seq(Procs)
  <2>1. ready_queue \in Seq(Procs) /\ ready_queue # <<>>
    BY DEF TypeOK, Dispatch, DispatchToStore
  <2> QED
    BY <2>1, Queues DEF Dispatch, DispatchToStore
<1>3. sched' \in [pc : SchedSteps, slot : Cores]
  BY <1>1, NextSlotType DEF Dispatch, DispatchToStore, SchedSteps
<1>4. CASE Dispatch
  <2>1. proc' \in [Procs -> ProcessStruct]
    <3>1. 0 \in 0 .. TicksCap
      BY Constants DEF TicksCap
    <3>2. [proc[p] EXCEPT !.state = "RUNNING", !.in_memory = TRUE,
                          !.ticks_ran_in_quantum = IF RoundRobin THEN 0 ELSE @]
            \in ProcessStruct
      BY <1>1, <1>2, <3>1 DEF ProcessStruct
    <3>3. proc' = [proc EXCEPT ![p] =
                     [proc[p] EXCEPT !.state = "RUNNING", !.in_memory = TRUE,
                        !.ticks_ran_in_quantum = IF RoundRobin THEN 0 ELSE @]]
      BY <1>1, <1>2, <1>4 DEF Dispatch, ProcessStruct
    <3> QED
      BY <1>1, <1>2, <3>2, <3>3
  <2>2. owner' \in [Addresses -> Procs \cup {Free}]
    BY <1>1, <1>2, <1>4, OwnerMaps DEF Dispatch
  <2>3. cpu_cores' \in [Cores -> Procs \cup {NoProc}]
    BY <1>1, <1>2, <1>4 DEF Dispatch
  <2>4. used' \in Int
    BY <1>1, <1>4 DEF Dispatch
  <2>5. UNCHANGED <<store, finished, clock, processes_generating, core, fault>>
    BY <1>4 DEF Dispatch
  <2> QED
    BY <1>2, <1>3, <2>1, <2>2, <2>3, <2>4, <2>5 DEF TypeOK
<1>5. CASE DispatchToStore
  <2>1. store' \in Seq(Procs)
    BY <1>1, <1>2, <1>5, Queues DEF DispatchToStore
  <2>2. /\ core' \in [Cores -> CoreThread]
        /\ \A c \in Cores : core'[c].pc = core[c].pc /\ core'[c].held = core[c].held
    BY <1>2, <1>5, StructFreedType DEF DispatchToStore
  <2>3. UNCHANGED <<proc, owner, cpu_cores, used, finished, clock,
                    processes_generating, fault>>
    BY <1>5 DEF DispatchToStore
  <2> QED
    BY <1>2, <1>3, <2>1, <2>2, <2>3 DEF TypeOK
<1> QED
  BY <1>4, <1>5

(* A process read from the store and enqueued: step 3 without a victim and *)
(* step 4.                                                                 *)
LEMMA SwapInTypeOK ==
  ASSUME TypeOK, SwapIn \/ IdleSwapIn
  PROVE  TypeOK'
<1> DEFINE p == Head(store)
<1>1. /\ proc \in [Procs -> ProcessStruct]
      /\ owner \in [Addresses -> Procs \cup {Free}]
      /\ ready_queue \in Seq(Procs) /\ store \in Seq(Procs)
  BY DEF TypeOK
<1>2. p \in Procs /\ store' \in Seq(Procs) /\ ready_queue' \in Seq(Procs)
  <2>1. store # <<>>
    BY DEF SwapIn, SwapInDue, IdleSwapIn, IdleSwapInPossible
  <2> QED
    BY <1>1, <2>1, Queues DEF SwapIn, IdleSwapIn
<1>3. proc' \in [Procs -> ProcessStruct]
  <2>1. Restored(proc[p]) \in ProcessStruct
    BY <1>1, <1>2, RestoredType
  <2>2. proc' = [proc EXCEPT ![p] = Restored(proc[p])]
    BY DEF SwapIn, IdleSwapIn
  <2> QED
    BY <1>1, <1>2, <2>1, <2>2
<1>4. owner' \in [Addresses -> Procs \cup {Free}]
  BY <1>1, <1>2, OwnerMaps DEF SwapIn, IdleSwapIn
<1>5. sched' \in [pc : SchedSteps, slot : Cores]
  BY GotoType DEF SwapIn, IdleSwapIn, SchedSteps
<1>6. UNCHANGED <<cpu_cores, used, finished, clock, processes_generating, core,
                  fault>>
  BY DEF SwapIn, IdleSwapIn
<1> QED
  BY <1>2, <1>3, <1>4, <1>5, <1>6 DEF TypeOK

LEMMA SwapOutAndInTypeOK ==
  ASSUME TypeOK, SwapOutAndIn
  PROVE  TypeOK'
<1> DEFINE p == Head(store)
<1>1. /\ proc \in [Procs -> ProcessStruct]
      /\ owner \in [Addresses -> Procs \cup {Free}]
      /\ ready_queue \in Seq(Procs) /\ store \in Seq(Procs)
      /\ cpu_cores \in [Cores -> Procs \cup {NoProc}]
      /\ used \in Int
  BY DEF TypeOK
<1>2. p \in Procs /\ Tail(store) \in Seq(Procs)
  BY <1>1, Queues DEF SwapOutAndIn, SwapInDue
<1>3. PICK c \in Cores :
        LET victim == cpu_cores[c]
            freed == GivenBack(owner, victim)
            saved == [proc EXCEPT ![victim].in_memory = FALSE]
        IN  /\ OnCoreRunning(c)
            /\ cpu_cores' = [cpu_cores EXCEPT ![c] = NoProc]
            /\ used' = used - 1
            /\ core' = StructFreed(victim)
            /\ \/ /\ owner' = Allocated(freed, p)
                  /\ store' = Append(Tail(store), victim)
                  /\ ready_queue' = Append(ready_queue, p)
                  /\ proc' = [saved EXCEPT ![p] = Restored(@)]
               \/ /\ owner' = freed
                  /\ store' = Append(store, victim)
                  /\ proc' = saved
                  /\ UNCHANGED ready_queue
  BY DEF SwapOutAndIn
<1> DEFINE victim == cpu_cores[c]
           freed == GivenBack(owner, victim)
           saved == [proc EXCEPT ![victim].in_memory = FALSE]
<1>4. victim \in Procs
  BY <1>1, <1>3 DEF OnCoreRunning
<1>5. freed \in [Addresses -> Procs \cup {Free}]
  BY <1>1, <1>4, OwnerMaps
<1>6. saved \in [Procs -> ProcessStruct]
  BY <1>1, <1>4 DEF ProcessStruct
<1>7. owner' \in [Addresses -> Procs \cup {Free}]
  BY <1>2, <1>3, <1>5, OwnerMaps
<1>8. store' \in Seq(Procs) /\ ready_queue' \in Seq(Procs)
  BY <1>1, <1>2, <1>3, <1>4, Queues
<1>9. proc' \in [Procs -> ProcessStruct]
  <2>1. Restored(saved[p]) \in ProcessStruct
    BY <1>2, <1>6, RestoredType
  <2>2. [saved EXCEPT ![p] = Restored(saved[p])] \in [Procs -> ProcessStruct]
    BY <1>6, <2>1
  <2>3. proc' = saved \/ proc' = [saved EXCEPT ![p] = Restored(saved[p])]
    BY <1>3
  <2> QED
    BY <1>6, <2>2, <2>3
<1>10. /\ core' \in [Cores -> CoreThread]
       /\ \A d \in Cores : core'[d].pc = core[d].pc /\ core'[d].held = core[d].held
  BY <1>3, <1>4, StructFreedType
<1>11. cpu_cores' \in [Cores -> Procs \cup {NoProc}] /\ used' \in Int
  BY <1>1, <1>3
<1>12. sched' \in [pc : SchedSteps, slot : Cores]
  BY GotoType DEF SwapOutAndIn, SchedSteps
<1>13. UNCHANGED <<finished, clock, processes_generating, fault>>
  BY DEF SwapOutAndIn
<1> QED
  BY <1>7, <1>8, <1>9, <1>10, <1>11, <1>12, <1>13 DEF TypeOK

(* A process a core holds at these steps is a process. *)
LEMMA HeldIsProcess ==
  ASSUME TypeOK, NEW c \in Cores,
         core[c].pc \in {"validate", "execute", "for", "commit", "remove"}
  PROVE  core[c].held \in Procs
<1>1. core[c].held \in Procs \cup {NoProc} /\ core[c].held # NoProc
  BY DEF TypeOK, CoreThread
<1> QED
  BY <1>1

(* The part of TypeOK about the core threads. *)
CoresOK ==
  /\ core \in [Cores -> CoreThread]
  /\ \A c \in Cores :
       core[c].pc \in {"validate", "execute", "for", "commit", "remove"}
         => core[c].held # NoProc

LEMMA ThreadMoves ==
  ASSUME CoresOK, NEW c \in Cores,
         NEW t \in CoreThread, core' = [core EXCEPT ![c] = t],
         t.pc \in {"validate", "execute", "for", "commit", "remove"} => t.held # NoProc
  PROVE  CoresOK'
  BY DEF CoresOK

(* The steps of a core that change nothing but its thread. *)
LEMMA CoreOnlyTypeOK ==
  ASSUME TypeOK, NEW c \in Cores, Read(c) \/ Validate(c) \/ NotComplete(c)
  PROVE  TypeOK'
<1>1. CoresOK /\ core \in [Cores -> CoreThread]
      /\ cpu_cores \in [Cores -> Procs \cup {NoProc}]
  BY DEF TypeOK, CoresOK
<1>2. UNCHANGED <<proc, owner, ready_queue, store, cpu_cores, used, finished,
                  sched, clock, processes_generating, fault>>
  BY DEF Read, Validate, NotComplete
<1>3. CASE Read(c)
  <2> DEFINE t == [core[c] EXCEPT
                     !.held = cpu_cores[c],
                     !.pc = IF OnCoreRunning(c) THEN "validate" ELSE "complete"]
  <2>1. t \in CoreThread
    BY <1>1 DEF CoreThread, CoreSteps
  <2>2. t.pc = "complete" \/ t.held # NoProc
    BY <1>1 DEF OnCoreRunning, CoreThread
  <2>3. t.pc = "validate" \/ t.pc = "complete"
    BY <1>1 DEF CoreThread
  <2>4. core' = [core EXCEPT ![c] = t]
    BY <1>1, <1>3 DEF Read, CoreThread
  <2>5. CoresOK'
    BY <1>1, <2>1, <2>2, <2>3, <2>4, ThreadMoves
  <2> QED
    BY <1>2, <2>5 DEF TypeOK, CoresOK
<1>4. CASE Validate(c)
  <2>1. PICK t \in CoreThread : /\ core' = [core EXCEPT ![c] = t]
                                /\ t.held = core[c].held
    <3>1. Delay \in 0 .. Delay
      BY Constants
    <3>2. [core[c] EXCEPT !.pc = "execute", !.wait_left = Delay] \in CoreThread
      BY <1>1, <3>1 DEF CoreThread, CoreSteps
    <3>3. [core[c] EXCEPT !.pc = "remove"] \in CoreThread
      BY <1>1 DEF CoreThread, CoreSteps
    <3>4. \/ core' = [core EXCEPT ![c].pc = "execute", ![c].wait_left = Delay]
          \/ core' = [core EXCEPT ![c].pc = "remove"]
      BY <1>4 DEF Validate
    <3>5. CASE core' = [core EXCEPT ![c].pc = "execute", ![c].wait_left = Delay]
      <4>1. core' = [core EXCEPT ![c] =
                       [core[c] EXCEPT !.pc = "execute", !.wait_left = Delay]]
        BY <1>1, <3>5 DEF CoreThread
      <4> QED
        BY <1>1, <3>2, <4>1 DEF CoreThread
    <3>6. CASE core' = [core EXCEPT ![c].pc = "remove"]
      BY <1>1, <3>3, <3>6 DEF CoreThread
    <3> QED
      BY <3>4, <3>5, <3>6
  <2>2. core[c].held # NoProc
    BY <1>1, <1>4 DEF CoresOK, Validate, At
  <2>3. CoresOK'
    BY <1>1, <2>1, <2>2, ThreadMoves
  <2> QED
    BY <1>2, <2>3 DEF TypeOK, CoresOK
<1>5. CASE NotComplete(c)
  <2>1. IdleThread \in CoreThread /\ IdleThread.pc = "read"
    BY Constants DEF IdleThread, CoreThread, CoreSteps, Kinds
  <2>2. CoresOK'
    BY <1>1, <1>5, <2>1, ThreadMoves DEF NotComplete
  <2> QED
    BY <1>2, <2>2 DEF TypeOK, CoresOK
<1> QED
  BY <1>3, <1>4, <1>5

(* The kind of the instruction at the program counter of an executable     *)
(* process is a kind: the counter is inside the program.                   *)
LEMMA InstructionType ==
  ASSUME TypeOK, NEW c \in Cores, core[c].held \in Procs,
         Executable(core[c].held)
  PROVE  Instruction(c) \in Kinds
<1> DEFINE p == core[c].held
<1>1. proc[p].program_counter \in Nat
  BY DEF TypeOK, ProcessStruct
<1>2. Program[p] \in Seq(Kinds)
  BY SchedulerAssumption DEF SchedulerAssumption
<1>3. proc[p].program_counter < Len(Program[p])
  BY DEF Executable, NumInst
<1>4. proc[p].program_counter + 1 \in 1 .. Len(Program[p])
  BY <1>1, <1>2, <1>3
<1> QED
  BY <1>2, <1>4, ElementOfSeq DEF Instruction

LEMMA ExecuteTypeOK ==
  ASSUME TypeOK, NEW c \in Cores, Execute(c) \/ EnterFor(c)
  PROVE  TypeOK'
<1> DEFINE p == core[c].held
<1>1. /\ CoresOK /\ core \in [Cores -> CoreThread]
      /\ proc \in [Procs -> ProcessStruct]
  BY DEF TypeOK, CoresOK
<1>2. p \in Procs
  BY HeldIsProcess DEF Execute, EnterFor, At
<1>3. proc' \in [Procs -> ProcessStruct]
  <2>1. [proc EXCEPT ![p].state = "SLEEPING"] \in [Procs -> ProcessStruct]
    BY <1>1, <1>2 DEF ProcessStruct
  <2>2. [proc EXCEPT ![p].for_depth = @ + 1] \in [Procs -> ProcessStruct]
    BY <1>1, <1>2 DEF ProcessStruct
  <2>3. \/ proc' = [proc EXCEPT ![p].state = "SLEEPING"]
        \/ proc' = [proc EXCEPT ![p].for_depth = @ + 1]
        \/ proc' = proc
    BY DEF Execute, EnterFor
  <2> QED
    BY <1>1, <2>1, <2>2, <2>3
<1>4. CoresOK'
  <2>1. proc[p].program_counter \in Nat
    BY <1>1, <1>2 DEF ProcessStruct
  <2>2. Instruction(c) \in Kinds /\ "for" \in Kinds
    BY <1>2, InstructionType DEF Execute, EnterFor, Kinds
  <2>3. PICK step \in {"for", "commit"}, inst \in Kinds :
          core' = [core EXCEPT ![c].pc = step, ![c].inst = inst,
                               ![c].at = proc[p].program_counter]
    BY <2>2 DEF Execute, EnterFor
  <2> DEFINE t == [core[c] EXCEPT !.pc = step, !.inst = inst,
                                  !.at = proc[p].program_counter]
  <2>4. t \in CoreThread
    BY <1>1, <2>1, <2>3 DEF CoreThread, CoreSteps
  <2>5. core' = [core EXCEPT ![c] = t]
    BY <1>1, <2>3 DEF CoreThread
  <2>6. t.held # NoProc
    BY <1>1, <1>2, Constants DEF CoreThread
  <2> QED
    BY <1>1, <2>4, <2>5, <2>6, ThreadMoves
<1>5. UNCHANGED <<owner, ready_queue, store, cpu_cores, used, finished, sched,
                  clock, processes_generating, fault>>
  BY DEF Execute, EnterFor
<1> QED
  BY <1>3, <1>4, <1>5 DEF TypeOK, CoresOK

LEMMA LeaveForTypeOK ==
  ASSUME TypeOK, NEW c \in Cores, LeaveFor(c)
  PROVE  TypeOK'
<1> DEFINE p == core[c].held
<1>1. /\ CoresOK /\ core \in [Cores -> CoreThread]
      /\ proc \in [Procs -> ProcessStruct]
  BY DEF TypeOK, CoresOK
<1>2. p \in Procs
  BY HeldIsProcess DEF LeaveFor, At
<1>3. PICK from \in {core[c].at, proc[p].program_counter},
           depth \in {1, proc[p].for_depth} :
        /\ proc' = [proc EXCEPT ![p].program_counter = from + 1,
                                ![p].for_depth = depth - 1]
        /\ core' = [core EXCEPT ![c].pc = "commit", ![c].at = from + 1]
  BY DEF LeaveFor
<1>4. from + 1 \in Nat /\ depth - 1 \in Int
  BY <1>1, <1>2 DEF CoreThread, ProcessStruct
<1>5. proc' \in [Procs -> ProcessStruct]
  BY <1>1, <1>2, <1>3, <1>4 DEF ProcessStruct
<1>6. CoresOK'
  <2> DEFINE t == [core[c] EXCEPT !.pc = "commit", !.at = from + 1]
  <2>1. t \in CoreThread
    BY <1>1, <1>4 DEF CoreThread, CoreSteps
  <2>2. core' = [core EXCEPT ![c] = t]
    BY <1>1, <1>3 DEF CoreThread
  <2>3. t.held # NoProc
    BY <1>1, <1>2, Constants DEF CoreThread
  <2> QED
    BY <1>1, <2>1, <2>2, <2>3, ThreadMoves
<1>7. UNCHANGED <<owner, ready_queue, store, cpu_cores, used, finished, sched,
                  clock, processes_generating, fault>>
  BY DEF LeaveFor
<1> QED
  BY <1>5, <1>6, <1>7 DEF TypeOK, CoresOK

LEMMA CountTickType ==
  ASSUME TypeOK, NEW p \in Procs
  PROVE  CountTick(p) \in [Procs -> ProcessStruct]
<1>1. proc \in [Procs -> ProcessStruct]
  BY DEF TypeOK
<1>2. \A n \in 0 .. TicksCap :
        (IF n < TicksCap THEN n + 1 ELSE n) \in 0 .. TicksCap
  BY Constants DEF TicksCap
<1> QED
  BY <1>1, <1>2 DEF CountTick, ProcessStruct

(* The end of an instruction, and the removal of a process.               *)
LEMMA StepToComplete ==
  ASSUME TypeOK, NEW c \in Cores, core' = [core EXCEPT ![c].pc = "complete"]
  PROVE  CoresOK'
<1>1. CoresOK /\ core \in [Cores -> CoreThread]
  BY DEF TypeOK, CoresOK
<1> DEFINE t == [core[c] EXCEPT !.pc = "complete"]
<1>2. t \in CoreThread /\ t.pc = "complete"
  BY <1>1 DEF CoreThread, CoreSteps
<1> QED
  BY <1>1, <1>2, ThreadMoves

LEMMA CommitTypeOK ==
  ASSUME TypeOK, NEW c \in Cores,
         ExecuteNothing(c) \/ PopFor(c) \/ Commit(c)
  PROVE  TypeOK'
<1> DEFINE p == core[c].held
<1>1. /\ core \in [Cores -> CoreThread]
      /\ proc \in [Procs -> ProcessStruct]
  BY DEF TypeOK
<1>2. p \in Procs
  BY HeldIsProcess DEF ExecuteNothing, PopFor, Commit, At
<1>3. CountTick(p) \in [Procs -> ProcessStruct]
  BY <1>2, CountTickType
<1>4. CoresOK'
  BY StepToComplete DEF ExecuteNothing, PopFor, Commit
<1>5. UNCHANGED <<owner, ready_queue, store, cpu_cores, used, finished, sched,
                  clock, processes_generating, fault>>
  BY DEF ExecuteNothing, PopFor, Commit
<1>6. proc' \in [Procs -> ProcessStruct]
  <2>1. CASE ExecuteNothing(c)
    BY <1>3, <2>1 DEF ExecuteNothing
  <2>2. CASE PopFor(c)
    BY <1>2, <1>3, <2>2 DEF PopFor, ProcessStruct
  <2>3. CASE Commit(c)
    <3> DEFINE counted == CountTick(p)
               left == IF core[c].inst = "sleep" THEN SleepTicks
                       ELSE counted[p].sleep_left
    <3>1. PICK from \in {core[c].at, proc[p].program_counter} :
            proc' = [counted EXCEPT
                       ![p].program_counter =
                          IF proc[p].for_depth > 0 THEN @ ELSE from + 1,
                       ![p].sleep_left = left]
      BY <2>3 DEF Commit
    <3>2. from + 1 \in Nat
      BY <1>1, <1>2 DEF CoreThread, ProcessStruct
    <3>3. left \in 0 .. SleepTicks
      BY <1>2, <1>3, Constants DEF ProcessStruct
    <3> HIDE DEF left, counted
    <3>4. counted \in [Procs -> ProcessStruct]
      BY <1>3 DEF counted
    <3> QED
      BY <1>2, <3>1, <3>2, <3>3, <3>4 DEF ProcessStruct
  <2> QED
    BY <2>1, <2>2, <2>3
<1> QED
  BY <1>4, <1>5, <1>6 DEF TypeOK, CoresOK

LEMMA RemoveTypeOK ==
  ASSUME TypeOK, NEW c \in Cores, Remove(c)
  PROVE  TypeOK'
<1>1. CoresOK'
  BY StepToComplete DEF Remove
<1>2. cpu_cores' \in [Cores -> Procs \cup {NoProc}] /\ used' \in Int
  <2>1. cpu_cores \in [Cores -> Procs \cup {NoProc}] /\ used \in Int
    BY DEF TypeOK
  <2>2. cpu_cores' = [cpu_cores EXCEPT ![c] = NoProc] /\ used' = used - 1
    BY DEF Remove
  <2> QED
    BY <2>1, <2>2
<1>3. UNCHANGED <<proc, owner, ready_queue, store, finished, sched, clock,
                  processes_generating, fault>>
  BY DEF Remove
<1> QED
  BY <1>1, <1>2, <1>3 DEF TypeOK, CoresOK

LEMMA IdleThreadType == IdleThread \in CoreThread /\ IdleThread.pc = "read"
  BY Constants DEF IdleThread, CoreThread, CoreSteps, Kinds

LEMMA FinishedStruct ==
  ASSUME NEW r \in ProcessStruct
  PROVE  [r EXCEPT !.state = "FINISHED", !.in_memory = FALSE] \in ProcessStruct
BY DEF ProcessStruct

LEMMA CompleteTypeOK ==
  ASSUME TypeOK, NEW c \in Cores, Complete(c)
  PROVE  TypeOK'
<1> DEFINE p == cpu_cores[c]
<1>1. /\ CoresOK /\ core \in [Cores -> CoreThread]
      /\ cpu_cores \in [Cores -> Procs \cup {NoProc}]
      /\ proc \in [Procs -> ProcessStruct]
      /\ owner \in [Addresses -> Procs \cup {Free}]
      /\ used \in Int /\ finished \subseteq Procs
  BY DEF TypeOK, CoresOK
<1>2. p \in Procs
  BY <1>1 DEF Complete, Done
<1>3. CoresOK'
  BY <1>1, IdleThreadType, ThreadMoves DEF Complete
<1>4. proc' \in [Procs -> ProcessStruct]
  <2>1. [proc[p] EXCEPT !.state = "FINISHED", !.in_memory = FALSE] \in ProcessStruct
    BY <1>1, <1>2, FinishedStruct
  <2>2. proc' = [proc EXCEPT ![p].state = "FINISHED", ![p].in_memory = FALSE]
    BY DEF Complete
  <2>3. proc' = [proc EXCEPT ![p] =
                   [proc[p] EXCEPT !.state = "FINISHED", !.in_memory = FALSE]]
    BY <1>1, <1>2, <2>2 DEF ProcessStruct
  <2> QED
    BY <1>1, <1>2, <2>1, <2>3
<1>5. owner' \in [Addresses -> Procs \cup {Free}]
  BY <1>1, <1>2, OwnerMaps DEF Complete
<1>6. cpu_cores' \in [Cores -> Procs \cup {NoProc}]
  BY <1>1 DEF Complete
<1>7. used' \in Int /\ finished' \subseteq Procs
  BY <1>1, <1>2 DEF Complete
<1>8. UNCHANGED <<ready_queue, store, sched, clock, processes_generating, fault>>
  BY DEF Complete
<1> QED
  BY <1>3, <1>4, <1>5, <1>6, <1>7, <1>8 DEF TypeOK, CoresOK

(* The undefined accesses change fault alone. *)
LEMMA FaultTypeOK ==
  ASSUME TypeOK, NEW c \in Cores,
         UseAfterFree(c) \/ PrintToNull(c) \/ PushBelowStack(c)
  PROVE  TypeOK'
  BY DEF TypeOK, UseAfterFree, PrintToNull, PushBelowStack

LEMMA CliTypeOK ==
  ASSUME TypeOK, CliStep
  PROVE  TypeOK'
<1>1. CASE \E p \in Procs : screen_start(p)
  <2>1. PICK p \in Procs : screen_start(p)
    BY <1>1
  <2>2. proc' \in [Procs -> ProcessStruct] /\ ready_queue' \in Seq(Procs)
    BY <2>1, SubmitType DEF screen_start
  <2> QED
    BY <2>1, <2>2 DEF TypeOK, screen_start
<1>2. CASE stop_scheduler
  BY <1>2 DEF TypeOK, stop_scheduler
<1>3. CASE \E c \in Cores : report_utilization(c)
  <2>1. PICK c \in Cores : report_utilization(c)
    BY <1>3
  <2> DEFINE p == cpu_cores[c]
  <2>2. /\ cpu_cores \in [Cores -> Procs \cup {NoProc}]
        /\ proc \in [Procs -> ProcessStruct]
    BY DEF TypeOK
  <2>3. p \in Procs
    BY <2>1, <2>2 DEF report_utilization
  <2>4. NumInst(p) - 1 \in Nat
    <3>1. Program[p] \in Seq(Kinds) /\ Program[p] # <<>>
      BY <2>3, SchedulerAssumption DEF SchedulerAssumption
    <3> QED
      BY <3>1 DEF NumInst
  <2>5. proc' = [proc EXCEPT ![p].program_counter = NumInst(p) - 1]
    BY <2>1 DEF report_utilization
  <2>6. proc' \in [Procs -> ProcessStruct]
    BY <2>2, <2>3, <2>4, <2>5 DEF ProcessStruct
  <2> QED
    BY <2>1, <2>6 DEF TypeOK, report_utilization
<1>4. CASE \E p \in Procs : screen_list(p)
  <2>1. PICK p \in Procs : screen_list(p)
    BY <1>4
  <2>2. NumInst(p) \in Nat
    <3>1. Program[p] \in Seq(Kinds)
      BY SchedulerAssumption DEF SchedulerAssumption
    <3> QED
      BY <3>1 DEF NumInst
  <2>3. proc' \in [Procs -> ProcessStruct]
    <3>1. proc \in [Procs -> ProcessStruct]
      BY DEF TypeOK
    <3>2. proc' = [proc EXCEPT ![p].program_counter = NumInst(p)]
      BY <2>1 DEF screen_list
    <3> QED
      BY <2>2, <3>1, <3>2 DEF ProcessStruct
  <2> QED
    BY <2>1, <2>3 DEF TypeOK, screen_list
<1> QED
  BY <1>1, <1>2, <1>3, <1>4 DEF CliStep

(* No step takes a variable out of its range.                             *)
LEMMA NextTypeOK ==
  ASSUME TypeOK, [Next]_vars
  PROVE  TypeOK'
<1>1. CASE SchedulerStep
  BY <1>1, TickTypeOK, GenerateTypeOK, WakeSleepersTypeOK, PreemptTypeOK,
     SkipTypeOK, DispatchTypeOK, SwapInTypeOK, SwapOutAndInTypeOK
  DEF SchedulerStep
<1>2. ASSUME NEW c \in Cores, CoreLockStep(c)
      PROVE  TypeOK'
  BY <1>2, CoreOnlyTypeOK, RemoveTypeOK, CompleteTypeOK DEF CoreLockStep
<1>3. ASSUME NEW c \in Cores, CoreRunStep(c)
      PROVE  TypeOK'
  BY <1>3, CoreOnlyTypeOK, ExecuteTypeOK, LeaveForTypeOK, CommitTypeOK, FaultTypeOK
  DEF CoreRunStep
<1>4. CASE CliStep
  BY <1>4, CliTypeOK
<1>5. CASE UNCHANGED vars
  BY <1>5 DEF TypeOK, vars
<1> QED
  BY <1>1, <1>2, <1>3, <1>4, <1>5 DEF Next

(* In every state the emulator can reach the variables are in their        *)
(* ranges: the tick counters of schedule_rr, sleep_left and wait_left      *)
(* never pass their limits, and a core thread that executes has a process. *)
THEOREM TypeCorrect == Spec => []TypeOK
<1>1. Init => TypeOK
  BY InitTypeOK
<1>2. TypeOK /\ [Next]_vars => TypeOK'
  BY NextTypeOK
<1> QED
  BY <1>1, <1>2, PTL DEF Spec
-----------------------------------------------------------------------------
(* Round robin on one core.                                                *)

Bound == IF Delay >= 2 THEN Quantum ELSE Quantum + 1

(* The part of a round between CPU_TICKS++ and the look at the quanta. *)
Looking == {"generate", "wake", "preempt"}

(* What QuantumRespected rests on, of the process p in the slot: its state *)
(* and counter n, and the thread t of the core.  A thread that is about to *)
(* execute p although its quantum is over has begun to wait after the last *)
(* look of the scheduler, and cannot be done before the next one.          *)
InTurn(t, p, n, state) ==
  /\ state \in {"RUNNING", "SLEEPING"}
  /\ n <= Bound
  /\ n > Quantum /\ state = "RUNNING" => sched.pc \in Looking
  /\ ~t.dangling /\ t.held = p /\ n >= Quantum =>
       /\ t.pc \in {"validate", "execute"}
            => state = "RUNNING" /\ sched.pc \in Looking \cup {"tick"}
       /\ t.pc = "execute" => t.wait_left >= Delay - 1
       /\ t.pc = "execute" /\ (sched.pc = "tick" \/ n > Quantum) => t.wait_left = Delay
       /\ t.pc \in {"for", "commit"} => n < Bound /\ (state = "RUNNING" => sched.pc \in Looking)

Slot == cpu_cores[1]
SlotTicks == proc[Slot].ticks_ran_in_quantum
SlotState == proc[Slot].state

QuantumKept == Slot # NoProc => InTurn(core[1], Slot, SlotTicks, SlotState)

OneCore == RoundRobin /\ NumCores = 1 /\ Quantum >= 1 /\ Delay >= 1

LEMMA SlotTyped ==
  ASSUME TypeOK, OneCore
  PROVE  /\ Cores = {1} /\ sched.slot = 1 /\ 1 \in Cores
         /\ Slot \in Procs \cup {NoProc}
         /\ Slot # NoProc => Slot \in Procs /\ SlotTicks \in Nat
         /\ core[1] \in CoreThread
         /\ Quantum \in Nat /\ Delay \in Nat /\ Bound \in Nat
         /\ Bound >= Quantum /\ Quantum >= 1 /\ Delay >= 1
         /\ Delay >= 2 => Bound = Quantum
         /\ Delay < 2 => Bound = Quantum + 1 /\ Delay = 1
<1>1. Cores = {1} /\ 1 \in Cores
  BY DEF OneCore, Cores
<1>2. sched.slot = 1 /\ Slot \in Procs \cup {NoProc} /\ core[1] \in CoreThread
  BY <1>1 DEF TypeOK, Slot
<1>3. Slot # NoProc => Slot \in Procs /\ SlotTicks \in Nat
  <2> SUFFICES ASSUME Slot # NoProc PROVE Slot \in Procs /\ SlotTicks \in Nat
    OBVIOUS
  <2>1. Slot \in Procs /\ TicksCap \in Nat
    BY <1>2, Constants DEF TicksCap
  <2>2. SlotTicks \in 0 .. TicksCap
    BY <2>1 DEF TypeOK, ProcessStruct, SlotTicks
  <2> QED
    BY <2>1, <2>2
<1>4. Quantum \in Nat /\ Delay \in Nat /\ Quantum >= 1 /\ Delay >= 1
  BY Constants DEF OneCore
<1> QED
  BY <1>1, <1>2, <1>3, <1>4 DEF Bound

(* With the counter at 0 everything is in order. *)
LEMMA FreshTurn ==
  ASSUME TypeOK, OneCore, Slot' # NoProc => SlotTicks' = 0 /\ SlotState' \in {"RUNNING", "SLEEPING"}
  PROVE  QuantumKept'
<1>1. 0 < Quantum /\ 0 <= Bound /\ ~(0 >= Quantum) /\ ~(0 > Quantum)
  BY SlotTyped
<1> QED
  BY <1>1 DEF QuantumKept, InTurn

(* Time passes, but not by CPU_TICKS++ and not beyond the look at the      *)
(* quanta.                                                                 *)
LEMMA TurnGoesOn ==
  ASSUME TypeOK, OneCore, QuantumKept, Slot' = Slot,
         Slot # NoProc => SlotTicks' = SlotTicks /\ SlotState' = SlotState,
         core'[1].pc = core[1].pc /\ core'[1].held = core[1].held,
         core'[1].wait_left = core[1].wait_left,
         core'[1].dangling \/ core'[1].dangling = core[1].dangling,
         sched.pc \in Looking => sched'.pc \in Looking,
         sched.pc = "tick" => sched'.pc = "tick"
  PROVE  QuantumKept'
<1> SUFFICES ASSUME Slot # NoProc
             PROVE  InTurn(core[1], Slot, SlotTicks, SlotState)'
  BY DEF QuantumKept
<1>1. InTurn(core[1], Slot, SlotTicks, SlotState)
  BY DEF QuantumKept
<1> QED
  BY <1>1 DEF InTurn, Looking

LEMMA TickTurn ==
  ASSUME TypeOK, OneCore, QuantumKept, Tick
  PROVE  QuantumKept'
<1> SUFFICES ASSUME Slot # NoProc
             PROVE  InTurn(core[1], Slot, SlotTicks, SlotState)'
  BY DEF QuantumKept, Tick, Slot
<1>1. InTurn(core[1], Slot, SlotTicks, SlotState)
  BY DEF QuantumKept
<1>2. Slot' = Slot /\ sched.pc = "tick" /\ sched'.pc = "generate"
  BY DEF Tick, Goto, Slot
<1>3. SlotTicks' = SlotTicks /\ SlotState' = SlotState
  <2>1. proc' = [p \in Procs |-> [proc[p] EXCEPT !.sleep_left = Dec(@)]]
    BY DEF Tick
  <2>2. Slot \in Procs /\ proc[Slot] \in ProcessStruct
    BY SlotTyped DEF TypeOK
  <2>3. \A r \in ProcessStruct :
          LET s == [r EXCEPT !.sleep_left = Dec(@)]
          IN  s.state = r.state /\ s.ticks_ran_in_quantum = r.ticks_ran_in_quantum
    BY DEF ProcessStruct
  <2> QED
    BY <1>2, <2>1, <2>2, <2>3 DEF SlotTicks, SlotState
<1>4. /\ core'[1].pc = core[1].pc /\ core'[1].held = core[1].held
      /\ core'[1].dangling = core[1].dangling
      /\ core'[1].wait_left = Dec(core[1].wait_left)
  <2>1. core' = [c \in Cores |-> [core[c] EXCEPT !.wait_left = Dec(@)]]
    BY DEF Tick
  <2>2. \A t \in CoreThread :
          LET s == [t EXCEPT !.wait_left = Dec(@)]
          IN  /\ s.pc = t.pc /\ s.held = t.held /\ s.dangling = t.dangling
              /\ s.wait_left = Dec(t.wait_left)
    BY DEF CoreThread
  <2>3. core'[1] = [core[1] EXCEPT !.wait_left = Dec(@)] /\ core[1] \in CoreThread
    BY <2>1, SlotTyped
  <2> QED
    BY <2>2, <2>3
<1> DEFINE w == core[1].wait_left
           n == SlotTicks
<1>5. n \in Nat /\ Quantum \in Nat /\ Delay \in Nat /\ Delay >= 1
  BY SlotTyped
<1> HIDE DEF w, n
<1>6. w = Delay => Dec(w) = Delay - 1 /\ Dec(w) >= Delay - 1
  BY <1>5 DEF Dec
<1>7. n > Quantum => SlotState # "RUNNING"
  BY <1>1, <1>2 DEF InTurn, Looking, n
<1>8. n > Quantum => n >= Quantum
  BY <1>5
<1>9. n <= Bound /\ SlotState \in {"RUNNING", "SLEEPING"}
  BY <1>1 DEF InTurn, n
<1>10. ~core[1].dangling /\ core[1].held = Slot /\ n >= Quantum =>
         /\ core[1].pc \in {"validate", "execute"} => SlotState = "RUNNING"
         /\ core[1].pc = "execute" => w = Delay
         /\ core[1].pc \in {"for", "commit"} => n < Bound
  BY <1>1, <1>2 DEF InTurn, n, w
<1> QED
  BY <1>2, <1>3, <1>4, <1>6, <1>7, <1>8, <1>9, <1>10 DEF InTurn, Looking, w, n

LEMMA WakeTurn ==
  ASSUME TypeOK, OneCore, QuantumKept, WakeSleepers
  PROVE  QuantumKept'
<1> DEFINE due == {p \in Procs : /\ \E c \in Cores : cpu_cores[c] = p
                                 /\ proc[p].state = "SLEEPING"
                                 /\ proc[p].sleep_left = 0}
<1>1. /\ Slot' = Slot /\ core' = core /\ sched.pc = "wake"
      /\ sched'.pc = "preempt"
      /\ proc' = [p \in Procs |->
                    IF p \notin due THEN proc[p]
                    ELSE [proc[p] EXCEPT
                            !.state = "RUNNING",
                            !.ticks_ran_in_quantum = IF RoundRobin THEN 0 ELSE @]]
  BY DEF WakeSleepers, AfterWake, Goto, OneCore, Slot
<1> HIDE DEF due
<1>2. CASE Slot # NoProc /\ Slot \in due
  <2>1. \A r \in ProcessStruct :
          LET s == [r EXCEPT !.state = "RUNNING",
                             !.ticks_ran_in_quantum = IF RoundRobin THEN 0 ELSE @]
          IN  s.state = "RUNNING" /\ s.ticks_ran_in_quantum = 0
    BY DEF ProcessStruct, OneCore
  <2>2. Slot \in Procs /\ proc[Slot] \in ProcessStruct
    BY <1>2, SlotTyped DEF TypeOK
  <2>3. SlotTicks' = 0 /\ SlotState' = "RUNNING"
    BY <1>1, <1>2, <2>1, <2>2 DEF SlotTicks, SlotState
  <2> QED
    BY <2>3, FreshTurn
<1>3. CASE ~(Slot # NoProc /\ Slot \in due)
  <2>1. Slot # NoProc => proc'[Slot] = proc[Slot]
    BY <1>1, <1>3, SlotTyped
  <2>2. Slot # NoProc => SlotTicks' = SlotTicks /\ SlotState' = SlotState
    BY <1>1, <2>1 DEF SlotTicks, SlotState
  <2> QED
    BY <1>1, <2>2, TurnGoesOn DEF Looking
<1> QED
  BY <1>2, <1>3

(* The look: a process whose quantum is over and that runs is taken off.   *)
LEMMA PreemptTurn ==
  ASSUME TypeOK, OneCore, QuantumKept, Preempt
  PROVE  QuantumKept'
<1>1. sched.slot = 1 /\ sched.pc = "preempt" /\ sched'.pc = "assign" /\ core' = core
  BY SlotTyped DEF Preempt, NextSlot, Goto, OneCore
<1>2. CASE Expired(Slot)
  <2>1. cpu_cores' = [cpu_cores EXCEPT ![1] = NoProc]
    BY <1>1, <1>2 DEF Preempt, Slot
  <2>2. Slot' = NoProc
    BY <2>1, SlotTyped DEF TypeOK, Slot
  <2> QED
    BY <2>2 DEF QuantumKept
<1>3. CASE ~Expired(Slot)
  <2>1. cpu_cores' = cpu_cores /\ proc' = proc
    BY <1>1, <1>3 DEF Preempt, Slot
  <2>2. Slot' = Slot /\ SlotTicks' = SlotTicks /\ SlotState' = SlotState
    BY <2>1 DEF Slot, SlotTicks, SlotState
  <2> SUFFICES ASSUME Slot # NoProc
               PROVE  InTurn(core[1], Slot, SlotTicks, SlotState)'
    BY <2>2 DEF QuantumKept
  <2>3. InTurn(core[1], Slot, SlotTicks, SlotState)
    BY DEF QuantumKept
  <2>4. SlotState = "RUNNING" => ~(SlotTicks >= Quantum) /\ ~(SlotTicks > Quantum)
    <3>1. SlotState = "RUNNING" => ~(SlotTicks >= Quantum)
      BY <1>3 DEF Expired, SlotState, SlotTicks
    <3> QED
      BY <3>1, SlotTyped
  <2> QED
    BY <1>1, <2>2, <2>3, <2>4 DEF InTurn
<1> QED
  BY <1>2, <1>3

LEMMA DispatchTurn ==
  ASSUME TypeOK, OneCore, QuantumKept, Dispatch
  PROVE  QuantumKept'
<1> DEFINE p == Head(ready_queue)
<1>1. /\ sched.slot = 1 /\ ready_queue # <<>>
      /\ cpu_cores' = [cpu_cores EXCEPT ![sched.slot] = p]
      /\ proc' = [proc EXCEPT ![p].state = "RUNNING",
                              ![p].in_memory = TRUE,
                              ![p].ticks_ran_in_quantum =
                                 IF RoundRobin THEN 0 ELSE @]
  BY SlotTyped DEF Dispatch
<1>2. p \in Procs
  BY <1>1, HeadTailProperties DEF TypeOK
<1> HIDE DEF p
<1>3. proc'[p].state = "RUNNING" /\ proc'[p].ticks_ran_in_quantum = 0
  <2>1. proc \in [Procs -> ProcessStruct] /\ RoundRobin
    BY DEF TypeOK, OneCore
  <2> QED
    BY <1>1, <1>2, <2>1 DEF ProcessStruct
<1>4. Slot' = p
  BY <1>1, SlotTyped DEF TypeOK, Slot
<1>5. SlotTicks' = 0 /\ SlotState' = "RUNNING"
  BY <1>3, <1>4 DEF SlotTicks, SlotState
<1> QED
  BY <1>5, FreshTurn

(* A process that comes from the store: not the one in the slot, or then   *)
(* with its counter at 0.                                                  *)
LEMMA SwapInTurn ==
  ASSUME TypeOK, OneCore, QuantumKept, SwapIn \/ IdleSwapIn
  PROVE  QuantumKept'
<1> DEFINE p == Head(store)
<1>1. /\ cpu_cores' = cpu_cores /\ core' = core /\ store # <<>>
      /\ proc' = [proc EXCEPT ![p] = Restored(@)]
      /\ sched.pc \in {"swap", "idle"}
  BY DEF SwapIn, IdleSwapIn, SwapInDue, IdleSwapInPossible
<1>2. p \in Procs /\ proc \in [Procs -> ProcessStruct]
  BY <1>1, HeadTailProperties DEF TypeOK
<1> HIDE DEF p
<1>3. Slot' = Slot
  BY <1>1 DEF Slot
<1>4. CASE Slot = p
  <2>0. \A r \in ProcessStruct :
          Restored(r).state = r.state /\ Restored(r).ticks_ran_in_quantum = 0
    BY DEF Restored, ProcessStruct
  <2>1. Restored(proc[p]).state = proc[p].state /\ Restored(proc[p]).ticks_ran_in_quantum = 0
    BY <1>2, <2>0
  <2>2. SlotTicks' = 0 /\ SlotState' = SlotState
    BY <1>1, <1>2, <1>3, <1>4, <2>1 DEF SlotTicks, SlotState
  <2>3. Slot # NoProc => SlotState \in {"RUNNING", "SLEEPING"}
    BY DEF QuantumKept, InTurn
  <2> QED
    BY <1>3, <2>2, <2>3, FreshTurn
<1>5. CASE Slot # p
  <2>1. Slot # NoProc => proc'[Slot] = proc[Slot]
    BY <1>1, <1>2, <1>5, SlotTyped
  <2>2. Slot # NoProc => SlotTicks' = SlotTicks /\ SlotState' = SlotState
    BY <1>3, <2>1 DEF SlotTicks, SlotState
  <2> QED
    BY <1>1, <1>3, <2>2, TurnGoesOn DEF Looking
<1> QED
  BY <1>4, <1>5

(* The other steps of the scheduler thread. *)
LEMMA RoundTurn ==
  ASSUME TypeOK, OneCore, QuantumKept,
         \/ Generate \/ GenerateNothing \/ AssignNothing \/ DispatchToStore
         \/ SwapOutAndIn \/ SwapNothing \/ IdleNothing
  PROVE  QuantumKept'
<1>1. CASE Generate
  <2>1. PICK p \in Procs : proc[p].state = "NEW" /\ Submit(p)
    BY <1>1 DEF Generate, Generable
  <2>2. Slot' = Slot /\ core' = core /\ sched.pc = "generate" /\ sched'.pc = "wake"
    BY <1>1 DEF Generate, Goto, Slot
  <2>3. Slot # NoProc => p # Slot
    BY <2>1 DEF QuantumKept, InTurn, SlotState
  <2>4. Slot # NoProc => SlotTicks' = SlotTicks /\ SlotState' = SlotState
    BY <2>1, <2>2, <2>3, SlotTyped DEF Submit, SlotTicks, SlotState, TypeOK
  <2> QED
    BY <2>2, <2>4, TurnGoesOn DEF Looking
<1>2. CASE GenerateNothing \/ AssignNothing \/ SwapNothing \/ IdleNothing
  <2>1. /\ cpu_cores' = cpu_cores /\ core' = core /\ proc' = proc
        /\ sched.pc = "generate" => sched'.pc = "wake"
        /\ sched.pc \in {"generate", "assign", "swap", "idle"}
    BY <1>2 DEF GenerateNothing, AssignNothing, SwapNothing, IdleNothing, Goto
  <2>2. Slot' = Slot /\ SlotTicks' = SlotTicks /\ SlotState' = SlotState
    BY <2>1 DEF Slot, SlotTicks, SlotState
  <2> QED
    BY <2>1, <2>2, TurnGoesOn DEF Looking
<1>3. CASE DispatchToStore
  <2>1. /\ cpu_cores' = cpu_cores /\ proc' = proc /\ sched.pc = "assign"
        /\ core' = StructFreed(Head(ready_queue))
    BY <1>3 DEF DispatchToStore
  <2>2. /\ core'[1].pc = core[1].pc /\ core'[1].held = core[1].held
        /\ core'[1].wait_left = core[1].wait_left
        /\ core'[1].dangling \/ core'[1].dangling = core[1].dangling
    BY <2>1, SlotTyped DEF StructFreed, CoreThread
  <2>3. Slot' = Slot /\ SlotTicks' = SlotTicks /\ SlotState' = SlotState
    BY <2>1 DEF Slot, SlotTicks, SlotState
  <2> QED
    BY <2>1, <2>2, <2>3, TurnGoesOn DEF Looking
<1>4. CASE SwapOutAndIn
  <2>1. PICK c \in Cores : cpu_cores' = [cpu_cores EXCEPT ![c] = NoProc]
    BY <1>4 DEF SwapOutAndIn
  <2>2. Slot' = NoProc
    BY <2>1, SlotTyped DEF Slot, TypeOK
  <2> QED
    BY <2>2 DEF QuantumKept
<1> QED
  BY <1>1, <1>2, <1>3, <1>4

(* The steps of the thread on the core, which is the only one. *)
LEMMA CoreTyped ==
  ASSUME TypeOK, OneCore, NEW c \in Cores
  PROVE  /\ c = 1 /\ core[1] \in CoreThread
         /\ Slot = cpu_cores[c] /\ core \in [Cores -> CoreThread]
         /\ core[1].pc \in {"validate", "execute", "for", "commit", "remove"} => core[1].held \in Procs
<1>1. c = 1 /\ core[1] \in CoreThread
  BY SlotTyped
<1>2. core[1].pc \in {"validate", "execute", "for", "commit", "remove"} => core[1].held \in Procs
  BY <1>1 DEF TypeOK, CoreThread
<1>3. Slot = cpu_cores[c] /\ core \in [Cores -> CoreThread]
  BY <1>1 DEF Slot, TypeOK
<1> QED
  BY <1>1, <1>2, <1>3

LEMMA ReadTurn ==
  ASSUME TypeOK, OneCore, QuantumKept, NEW c \in Cores, Read(c)
  PROVE  QuantumKept'
<1>0. core'[1].pc = IF OnCoreRunning(c) THEN "validate" ELSE "complete"
  <2>1. core' = [core EXCEPT ![1].held = Slot,
                             ![1].pc = IF OnCoreRunning(c) THEN "validate" ELSE "complete"]
    BY CoreTyped DEF Read
  <2>2. core \in [Cores -> CoreThread] /\ 1 \in Cores
    BY CoreTyped
  <2> QED
    BY <2>1, <2>2 DEF CoreThread
<1>1. /\ Slot' = Slot /\ SlotTicks' = SlotTicks /\ SlotState' = SlotState
      /\ sched' = sched /\ sched.pc \notin LockedSteps
  BY DEF Read, AtLock, LockFree, Slot, SlotTicks, SlotState
<1>2. sched.pc \in Looking \cup {"tick"}
  BY <1>1 DEF TypeOK, SchedSteps, LockedSteps, Looking
<1>3. OnCoreRunning(c) => SlotState = "RUNNING"
  BY CoreTyped DEF OnCoreRunning, SlotState
<1> SUFFICES ASSUME Slot # NoProc
             PROVE  InTurn(core[1], Slot, SlotTicks, SlotState)'
  BY <1>1 DEF QuantumKept
<1>4. InTurn(core[1], Slot, SlotTicks, SlotState)
  BY DEF QuantumKept
<1> QED
  BY <1>0, <1>1, <1>2, <1>3, <1>4 DEF InTurn

LEMMA ValidateTurn ==
  ASSUME TypeOK, OneCore, QuantumKept, NEW c \in Cores, Validate(c)
  PROVE  QuantumKept'
<1>1. /\ core[1].pc = "validate" /\ ~core[1].dangling
      /\ Slot' = Slot /\ SlotTicks' = SlotTicks /\ SlotState' = SlotState
      /\ sched' = sched
  BY CoreTyped DEF Validate, At, Slot, SlotTicks, SlotState
<1>2. /\ core'[1].held = core[1].held
      /\ \/ core'[1].pc = "execute" /\ core'[1].wait_left = Delay
         \/ core'[1].pc = "remove"
  BY CoreTyped DEF Validate, CoreThread
<1> SUFFICES ASSUME Slot # NoProc
             PROVE  InTurn(core[1], Slot, SlotTicks, SlotState)'
  BY <1>1 DEF QuantumKept
<1>3. InTurn(core[1], Slot, SlotTicks, SlotState)
  BY DEF QuantumKept
<1>4. Delay >= Delay - 1
  BY SlotTyped
<1> QED
  BY <1>1, <1>2, <1>3, <1>4 DEF InTurn

(* Only a thread that has waited executes. *)
LEMMA WaitedTurn ==
  ASSUME TypeOK, OneCore, QuantumKept, Slot # NoProc, core[1].held = Slot,
         core[1].pc = "execute", ~core[1].dangling, core[1].wait_left = 0,
         SlotTicks >= Quantum
  PROVE  SlotTicks < Bound /\ SlotState = "RUNNING" /\ sched.pc \in Looking
<1> DEFINE n == SlotTicks
           b == Bound
<1>1. InTurn(core[1], Slot, n, SlotState)
  BY DEF QuantumKept
<1>2. /\ 0 >= Delay - 1 /\ SlotState = "RUNNING" /\ sched.pc \in Looking \cup {"tick"}
      /\ sched.pc = "tick" \/ n > Quantum => 0 = Delay
  BY <1>1 DEF InTurn
<1>3. n \in Nat /\ b \in Nat /\ Quantum \in Nat /\ Delay \in Nat /\ Delay >= 1
  BY SlotTyped
<1>4. Delay < 2 => b = Quantum + 1
  BY SlotTyped
<1> HIDE DEF n, b
<1>5. sched.pc # "tick" /\ ~(n > Quantum) /\ Delay < 2
  BY <1>2, <1>3
<1>6. n < b
  BY <1>3, <1>4, <1>5
<1> QED
  BY <1>2, <1>5, <1>6 DEF n, b

LEMMA ExecuteTurn ==
  ASSUME TypeOK, OneCore, QuantumKept, NEW c \in Cores,
         Execute(c) \/ EnterFor(c)
  PROVE  QuantumKept'
<1> DEFINE p == core[1].held
<1>1. /\ core[1].pc = "execute" /\ ~core[1].dangling /\ core[1].wait_left = 0
      /\ Slot' = Slot /\ sched' = sched /\ p \in Procs
  BY CoreTyped DEF Execute, EnterFor, At, Slot
<1>2. /\ core'[1].pc \in {"for", "commit"}
      /\ core'[1].held = p /\ core'[1].dangling = core[1].dangling
  BY CoreTyped DEF Execute, EnterFor, CoreThread
<1> HIDE DEF p
<1>3. /\ Slot # NoProc => SlotTicks' = SlotTicks
      /\ Slot # NoProc => \/ SlotState' = SlotState
                          \/ SlotState' = "SLEEPING"
  <2>1. \/ proc' = [proc EXCEPT ![p].state = "SLEEPING"]
        \/ proc' = [proc EXCEPT ![p].for_depth = @ + 1]
        \/ proc' = proc
    BY CoreTyped DEF Execute, EnterFor, p
  <2>2. proc \in [Procs -> ProcessStruct]
    BY DEF TypeOK
  <2> QED
    BY <1>1, <2>1, <2>2, SlotTyped DEF ProcessStruct, SlotTicks, SlotState
<1> SUFFICES ASSUME Slot # NoProc
             PROVE  InTurn(core[1], Slot, SlotTicks, SlotState)'
  BY <1>1 DEF QuantumKept
<1>4. InTurn(core[1], Slot, SlotTicks, SlotState)
  BY DEF QuantumKept
<1>5. p = Slot /\ SlotTicks >= Quantum =>
        SlotTicks < Bound /\ SlotState = "RUNNING" /\ sched.pc \in Looking
  BY <1>1, WaitedTurn DEF p
<1> QED
  BY <1>1, <1>2, <1>3, <1>4, <1>5 DEF InTurn

LEMMA LeaveForTurn ==
  ASSUME TypeOK, OneCore, QuantumKept, NEW c \in Cores, LeaveFor(c)
  PROVE  QuantumKept'
<1> DEFINE p == core[1].held
<1>1. /\ core[1].pc = "for" /\ ~core[1].dangling
      /\ Slot' = Slot /\ sched' = sched /\ p \in Procs
  BY CoreTyped DEF LeaveFor, At, Slot
<1>2. /\ core'[1].pc = "commit"
      /\ core'[1].held = p /\ core'[1].dangling = core[1].dangling
  BY CoreTyped DEF LeaveFor, CoreThread
<1>3. PICK n, depth : proc' = [proc EXCEPT ![p].program_counter = n,
                                           ![p].for_depth = depth]
  <2>1. PICK from \in {core[1].at, proc[p].program_counter},
             depth \in {1, proc[p].for_depth} :
          proc' = [proc EXCEPT ![p].program_counter = from + 1,
                               ![p].for_depth = depth - 1]
    BY CoreTyped DEF LeaveFor
  <2> QED
    BY <2>1
<1> HIDE DEF p
<1>4. Slot # NoProc => SlotTicks' = SlotTicks /\ SlotState' = SlotState
  <2>1. proc \in [Procs -> ProcessStruct]
    BY DEF TypeOK
  <2> QED
    BY <1>1, <1>3, <2>1, SlotTyped DEF ProcessStruct, SlotTicks, SlotState
<1> SUFFICES ASSUME Slot # NoProc
             PROVE  InTurn(core[1], Slot, SlotTicks, SlotState)'
  BY <1>1 DEF QuantumKept
<1>5. InTurn(core[1], Slot, SlotTicks, SlotState)
  BY DEF QuantumKept
<1> QED
  BY <1>1, <1>2, <1>4, <1>5 DEF InTurn, p

(* ticks_ran_in_quantum++, of the process in the slot or of another one.   *)
LEMMA CountTurn ==
  ASSUME TypeOK, OneCore, QuantumKept, Slot' = Slot, sched' = sched,
         core'[1].pc = "complete",
         NEW p \in Procs,
         Slot # NoProc => SlotState' = SlotState,
         Slot # NoProc => \/ SlotTicks' = SlotTicks
                          \/ SlotTicks' = SlotTicks + 1 /\ p = Slot,
         p = Slot /\ SlotTicks >= Quantum =>
           SlotTicks < Bound /\ (SlotState = "RUNNING" => sched.pc \in Looking)
  PROVE  QuantumKept'
<1> SUFFICES ASSUME Slot # NoProc
             PROVE  InTurn(core[1], Slot, SlotTicks, SlotState)'
  BY DEF QuantumKept
<1>1. InTurn(core[1], Slot, SlotTicks, SlotState)
  BY DEF QuantumKept
<1>2. CASE SlotTicks' = SlotTicks
  BY <1>1, <1>2 DEF InTurn
<1>3. CASE SlotTicks' = SlotTicks + 1 /\ p = Slot
  <2> DEFINE n == SlotTicks
             b == Bound
  <2>1. n \in Nat /\ b \in Nat /\ Quantum \in Nat /\ b >= Quantum
    BY SlotTyped
  <2>2. n >= Quantum => n < b
    BY <1>3
  <2> HIDE DEF n, b
  <2>3. n + 1 <= b /\ (n + 1 > Quantum => n >= Quantum)
    BY <2>1, <2>2
  <2>4. SlotTicks' <= Bound /\ (SlotTicks' > Quantum => SlotTicks >= Quantum)
    BY <1>3, <2>3 DEF n, b
  <2>5. SlotTicks' > Quantum /\ SlotState' = "RUNNING" => sched'.pc \in Looking
    BY <1>3, <2>4
  <2> QED
    BY <1>1, <2>4, <2>5 DEF InTurn
<1> QED
  BY <1>2, <1>3

LEMMA CountTicks ==
  ASSUME TypeOK, NEW p \in Procs, NEW q \in Procs
  PROVE  LET r == CountTick(p)[q]
         IN  /\ r.state = proc[q].state /\ CountTick(p)[q] \in ProcessStruct
             /\ CountTick(p) \in [Procs -> ProcessStruct]
             /\ \/ r.ticks_ran_in_quantum = proc[q].ticks_ran_in_quantum
                \/ r.ticks_ran_in_quantum = proc[q].ticks_ran_in_quantum + 1 /\ p = q
<1> DEFINE n == proc[p].ticks_ran_in_quantum
           m == IF n < TicksCap THEN n + 1 ELSE n
<1>0. TicksCap \in Nat
  BY Constants DEF TicksCap
<1>1. proc \in [Procs -> ProcessStruct] /\ n \in 0 .. TicksCap /\ TicksCap \in Nat
  BY <1>0 DEF TypeOK, ProcessStruct
<1>2. m \in 0 .. TicksCap
  BY <1>1
<1>3. CountTick(p) = [proc EXCEPT ![p].ticks_ran_in_quantum = m]
  BY DEF CountTick
<1>4. m = n \/ m = n + 1
  OBVIOUS
<1> HIDE DEF n, m
<1>5. CountTick(p) \in [Procs -> ProcessStruct]
  BY <1>1, <1>2, <1>3 DEF ProcessStruct
<1>6. CountTick(p)[q].state = proc[q].state
  BY <1>1, <1>3 DEF ProcessStruct
<1>7. CASE p = q
  <2>1. CountTick(p)[q].ticks_ran_in_quantum = m
    BY <1>1, <1>3, <1>7 DEF ProcessStruct
  <2> QED
    BY <1>4, <1>5, <1>6, <1>7, <2>1 DEF n
<1>8. CASE p # q
  <2>1. CountTick(p)[q] = proc[q]
    BY <1>1, <1>3, <1>8
  <2> QED
    BY <1>5, <2>1
<1> QED
  BY <1>7, <1>8

LEMMA ExecuteNothingTurn ==
  ASSUME TypeOK, OneCore, QuantumKept, NEW c \in Cores, ExecuteNothing(c)
  PROVE  QuantumKept'
<1> DEFINE p == core[1].held
<1>1. /\ core[1].pc = "execute" /\ ~core[1].dangling /\ core[1].wait_left = 0
      /\ Slot' = Slot /\ sched' = sched /\ p \in Procs /\ proc' = CountTick(p)
  BY CoreTyped DEF ExecuteNothing, At, Slot
<1>2. core'[1].pc = "complete"
  BY CoreTyped DEF ExecuteNothing, CoreThread
<1>3. p = Slot /\ SlotTicks >= Quantum =>
        SlotTicks < Bound /\ SlotState = "RUNNING" /\ sched.pc \in Looking
  BY <1>1, SlotTyped, Constants, WaitedTurn
<1> HIDE DEF p
<1>4. Slot # NoProc => /\ SlotState' = SlotState
                       /\ \/ SlotTicks' = SlotTicks
                          \/ SlotTicks' = SlotTicks + 1 /\ p = Slot
  BY <1>1, SlotTyped, CountTicks DEF SlotState, SlotTicks
<1> QED
  BY <1>1, <1>2, <1>3, <1>4, CountTurn

LEMMA CommitTurn ==
  ASSUME TypeOK, OneCore, QuantumKept, NEW c \in Cores, Commit(c)
  PROVE  QuantumKept'
<1> DEFINE p == core[1].held
<1>1. /\ core[1].pc = "commit" /\ ~core[1].dangling
      /\ Slot' = Slot /\ sched' = sched /\ p \in Procs
  BY CoreTyped DEF Commit, At, Slot
<1>2. core'[1].pc = "complete"
  BY CoreTyped DEF Commit, CoreThread
<1>3. p = Slot /\ SlotTicks >= Quantum =>
        SlotTicks < Bound /\ (SlotState = "RUNNING" => sched.pc \in Looking)
  <2> SUFFICES ASSUME p = Slot, SlotTicks >= Quantum
               PROVE  SlotTicks < Bound /\ (SlotState = "RUNNING" => sched.pc \in Looking)
    OBVIOUS
  <2>1. Slot # NoProc
    BY <1>1, Constants
  <2> QED
    BY <1>1, <2>1 DEF QuantumKept, InTurn
<1>4. PICK n, left : proc' = [CountTick(p) EXCEPT ![p].program_counter = n,
                                                  ![p].sleep_left = left]
  <2>1. PICK from \in {core[c].at, proc[p].program_counter} :
          proc' = [CountTick(p) EXCEPT
                     ![p].program_counter =
                        IF proc[p].for_depth > 0 THEN @ ELSE from + 1,
                     ![p].sleep_left = IF core[c].inst = "sleep" THEN SleepTicks ELSE @]
    BY CoreTyped DEF Commit
  <2> QED
    BY <2>1
<1> HIDE DEF p
<1>5. Slot # NoProc => /\ proc'[Slot].state = CountTick(p)[Slot].state
                       /\ proc'[Slot].ticks_ran_in_quantum
                            = CountTick(p)[Slot].ticks_ran_in_quantum
  <2> SUFFICES ASSUME Slot \in Procs
               PROVE  /\ proc'[Slot].state = CountTick(p)[Slot].state
                      /\ proc'[Slot].ticks_ran_in_quantum
                           = CountTick(p)[Slot].ticks_ran_in_quantum
    BY SlotTyped
  <2>1. CountTick(p) \in [Procs -> ProcessStruct]
    BY <1>1, CountTicks
  <2> QED
    BY <1>1, <1>4, <2>1 DEF ProcessStruct
<1>6. Slot # NoProc => /\ SlotState' = SlotState
                       /\ \/ SlotTicks' = SlotTicks
                          \/ SlotTicks' = SlotTicks + 1 /\ p = Slot
  BY <1>1, <1>5, SlotTyped, CountTicks DEF SlotState, SlotTicks
<1> QED
  BY <1>1, <1>2, <1>3, <1>6, CountTurn

LEMMA PopForTurn ==
  ASSUME TypeOK, OneCore, QuantumKept, NEW c \in Cores, PopFor(c)
  PROVE  QuantumKept'
<1> DEFINE p == core[1].held
<1>1. /\ core[1].pc = "execute" /\ ~core[1].dangling /\ core[1].wait_left = 0
      /\ Slot' = Slot /\ sched' = sched /\ p \in Procs
  BY CoreTyped DEF PopFor, At, Slot
<1>2. core'[1].pc = "complete"
  BY CoreTyped DEF PopFor, CoreThread
<1>3. p = Slot /\ SlotTicks >= Quantum =>
        SlotTicks < Bound /\ SlotState = "RUNNING" /\ sched.pc \in Looking
  BY <1>1, SlotTyped, Constants, WaitedTurn
<1>4. PICK n, depth : proc' = [CountTick(p) EXCEPT ![p].program_counter = n,
                                                   ![p].for_depth = depth]
  BY CoreTyped DEF PopFor
<1> HIDE DEF p
<1>5. Slot # NoProc => /\ proc'[Slot].state = CountTick(p)[Slot].state
                       /\ proc'[Slot].ticks_ran_in_quantum
                            = CountTick(p)[Slot].ticks_ran_in_quantum
  <2> SUFFICES ASSUME Slot \in Procs
               PROVE  /\ proc'[Slot].state = CountTick(p)[Slot].state
                      /\ proc'[Slot].ticks_ran_in_quantum
                           = CountTick(p)[Slot].ticks_ran_in_quantum
    BY SlotTyped
  <2>1. CountTick(p) \in [Procs -> ProcessStruct]
    BY <1>1, CountTicks
  <2> QED
    BY <1>1, <1>4, <2>1 DEF ProcessStruct
<1>6. Slot # NoProc => /\ SlotState' = SlotState
                       /\ \/ SlotTicks' = SlotTicks
                          \/ SlotTicks' = SlotTicks + 1 /\ p = Slot
  BY <1>1, <1>5, SlotTyped, CountTicks DEF SlotState, SlotTicks
<1> QED
  BY <1>1, <1>2, <1>3, <1>6, CountTurn

(* The core is empty, or the thread has no process any more. *)
LEMMA LeaveTurn ==
  ASSUME TypeOK, OneCore, QuantumKept, NEW c \in Cores,
         Remove(c) \/ Complete(c) \/ NotComplete(c)
  PROVE  QuantumKept'
<1>1. CASE Remove(c) \/ Complete(c)
  <2>1. cpu_cores' = [cpu_cores EXCEPT ![c] = NoProc]
    BY <1>1 DEF Remove, Complete
  <2>2. Slot' = NoProc
    BY <2>1, CoreTyped DEF Slot, TypeOK
  <2> QED
    BY <2>2 DEF QuantumKept
<1>2. CASE NotComplete(c)
  <2>1. /\ core'[1] = IdleThread /\ sched' = sched
        /\ Slot' = Slot /\ SlotTicks' = SlotTicks /\ SlotState' = SlotState
    BY <1>2, CoreTyped DEF NotComplete, Slot, SlotTicks, SlotState
  <2>2. core'[1].pc = "read"
    BY <2>1 DEF IdleThread
  <2> QED
    BY <2>1, <2>2 DEF QuantumKept, InTurn
<1> QED
  BY <1>1, <1>2

LEMMA CliTurn ==
  ASSUME TypeOK, OneCore, QuantumKept, CliStep
  PROVE  QuantumKept'
<1>1. CASE \E p \in Procs : screen_start(p)
  <2>1. PICK p \in Procs : screen_start(p)
    BY <1>1
  <2>2. /\ proc[p].state = "NEW" /\ proc' = [proc EXCEPT ![p].state = "READY"]
        /\ Slot' = Slot /\ core' = core /\ sched' = sched
    BY <2>1 DEF screen_start, Submit, Slot
  <2>3. Slot # NoProc => p # Slot
    BY <2>2 DEF QuantumKept, InTurn, SlotState
  <2>4. Slot # NoProc => SlotTicks' = SlotTicks /\ SlotState' = SlotState
    BY <2>2, <2>3, SlotTyped DEF SlotTicks, SlotState, TypeOK
  <2> QED
    BY <2>2, <2>4, TurnGoesOn
<1>2. CASE stop_scheduler
  <2>1. /\ Slot' = Slot /\ SlotTicks' = SlotTicks /\ SlotState' = SlotState
        /\ core' = core /\ sched' = sched
    BY <1>2 DEF stop_scheduler, Slot, SlotTicks, SlotState
  <2> QED
    BY <2>1, TurnGoesOn
<1>3. CASE \E c \in Cores : report_utilization(c)
  <2>1. PICK c \in Cores : report_utilization(c)
    BY <1>3
  <2>2. /\ Slot \in Procs /\ proc' = [proc EXCEPT ![Slot].program_counter = NumInst(Slot) - 1]
        /\ Slot' = Slot /\ core' = core /\ sched' = sched
    BY <2>1, CoreTyped, SlotTyped DEF report_utilization, Slot
  <2>3. SlotTicks' = SlotTicks /\ SlotState' = SlotState
    BY <2>2 DEF SlotTicks, SlotState, TypeOK, ProcessStruct
  <2> QED
    BY <2>2, <2>3, TurnGoesOn
<1>4. CASE \E p \in Procs : screen_list(p)
  <2>1. PICK p \in Procs : screen_list(p)
    BY <1>4
  <2>2. /\ proc' = [proc EXCEPT ![p].program_counter = NumInst(p)]
        /\ Slot' = Slot /\ core' = core /\ sched' = sched
    BY <2>1 DEF screen_list, Slot
  <2>3. Slot # NoProc => SlotTicks' = SlotTicks /\ SlotState' = SlotState
    BY <2>2, SlotTyped DEF SlotTicks, SlotState, TypeOK, ProcessStruct
  <2> QED
    BY <2>2, <2>3, TurnGoesOn
<1> QED
  BY <1>1, <1>2, <1>3, <1>4 DEF CliStep

LEMMA NextTurn ==
  ASSUME TypeOK, OneCore, QuantumKept, [Next]_vars
  PROVE  QuantumKept'
<1>1. CASE SchedulerStep
  BY <1>1, TickTurn, WakeTurn, PreemptTurn, DispatchTurn, SwapInTurn, RoundTurn
  DEF SchedulerStep
<1>2. ASSUME NEW c \in Cores, CoreLockStep(c) PROVE QuantumKept'
  BY <1>2, ReadTurn, LeaveTurn DEF CoreLockStep
<1>3. ASSUME NEW c \in Cores, CoreRunStep(c) PROVE QuantumKept'
  <2>1. CASE UseAfterFree(c) \/ PrintToNull(c) \/ PushBelowStack(c)
    <3>1. /\ Slot' = Slot /\ SlotTicks' = SlotTicks /\ SlotState' = SlotState
          /\ core' = core /\ sched' = sched
      BY <2>1 DEF UseAfterFree, PrintToNull, PushBelowStack, Slot, SlotTicks, SlotState
    <3> QED
      BY <3>1, TurnGoesOn
  <2> QED
    BY <1>3, <2>1, ValidateTurn, ExecuteTurn, LeaveForTurn, PopForTurn,
       ExecuteNothingTurn, CommitTurn
    DEF CoreRunStep
<1>4. CASE UNCHANGED vars
  <2>1. /\ Slot' = Slot /\ SlotTicks' = SlotTicks /\ SlotState' = SlotState
        /\ core' = core /\ sched' = sched
    BY <1>4 DEF vars, Slot, SlotTicks, SlotState
  <2> QED
    BY <2>1, TurnGoesOn
<1> QED
  BY <1>1, <1>2, <1>3, <1>4, CliTurn DEF Next

(* With one core and round robin, however the thread of the core lies with *)
(* respect to the rounds of the scheduler, which looks at the quantum once *)
(* per tick and does not tell the thread: no process in a slot has run for *)
(* more than its quantum, or one instruction more if each takes one tick.  *)
(* A quantum of 0, or instructions that take no time, would not allow it.  *)
THEOREM QuantumIsKept ==
  ASSUME OneCore PROVE Spec => []QuantumRespected
<1>1. Init => TypeOK /\ QuantumKept
  <2> SUFFICES ASSUME Init PROVE Slot = NoProc
    BY InitTypeOK DEF QuantumKept
  <2> QED
    BY Constants DEF Init, Slot
<1>2. TypeOK /\ QuantumKept /\ [Next]_vars => TypeOK' /\ QuantumKept'
  BY NextTypeOK, NextTurn
<1>3. TypeOK /\ QuantumKept => QuantumRespected
  <2> SUFFICES ASSUME TypeOK, QuantumKept PROVE QuantumRespected
    OBVIOUS
  <2> QED
    BY SlotTyped DEF QuantumRespected, QuantumKept, InTurn, Bound, Slot, SlotTicks
<1> QED
  BY <1>1, <1>2, <1>3, PTL DEF Spec
=============================================================================
