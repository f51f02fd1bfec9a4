--------------------------- MODULE SchedulerPlaces --------------------------
(***************************************************************************)
(* Where the processes and their memory are: a process is never in two     *)
(* places, and the memory is owned by the processes that are in memory,    *)
(* for any number of processes and cores, any memory, both schedulers, and *)
(* every interleaving.                                                     *)
(*                                                                         *)
(* OnePlace is not inductive: a process that is created must not be        *)
(* somewhere already.  NewNowhere says that, and Places is inductive.      *)
(* MemoryAgrees is inductive next to Places: what is taken was a hole, and *)
(* what is given back belonged to the process that left its core.          *)
(***************************************************************************)
EXTENDS SchedulerProofs, FiniteSums

(* A process that was not created yet is nowhere. *)
NewNowhere ==
  \A p \in Procs :
    proc[p].state = "NEW" =>
      ~InQueue(p) /\ ~InStore(p) /\ ~OnCore(p) /\ p \notin finished

CoresApart ==
  \A c, d \in Cores : cpu_cores[c] = cpu_cores[d] => c = d \/ cpu_cores[c] = NoProc

Places == TypeOK /\ OnePlace /\ NewNowhere

Has(s, p) == \E i \in DOMAIN s : s[i] = p

-----------------------------------------------------------------------------
(* Sequences without repetitions.                                          *)

LEMMA AppendHas ==
  ASSUME NEW S, NEW s \in Seq(S), NEW p \in S, NoRepeat(s), ~Has(s, p)
  PROVE  /\ NoRepeat(Append(s, p))
         /\ \A q : Has(Append(s, p), q) <=> Has(s, q) \/ q = p
<1> DEFINE t == Append(s, p)
<1>1. /\ Len(s) \in Nat /\ DOMAIN s = 1 .. Len(s)
      /\ DOMAIN t = 1 .. Len(s) + 1
      /\ \A i \in 1 .. Len(s) : t[i] = s[i]
      /\ t[Len(s) + 1] = p
  OBVIOUS
<1> HIDE DEF t
<1>2. NoRepeat(t)
  BY <1>1 DEF NoRepeat, Has
<1>3. \A q : Has(t, q) <=> Has(s, q) \/ q = p
  BY <1>1 DEF Has
<1> QED
  BY <1>2, <1>3 DEF t

LEMMA TailHas ==
  ASSUME NEW S, NEW s \in Seq(S), s # <<>>, NoRepeat(s)
  PROVE  /\ Head(s) \in S /\ Has(s, Head(s))
         /\ NoRepeat(Tail(s))
         /\ \A q : Has(Tail(s), q) <=> Has(s, q) /\ q # Head(s)
<1> DEFINE t == Tail(s)
<1>1. /\ Len(s) \in Nat \ {0} /\ DOMAIN s = 1 .. Len(s)
      /\ DOMAIN t = 1 .. Len(s) - 1
      /\ \A i \in 1 .. Len(s) - 1 : t[i] = s[i + 1]
      /\ Head(s) = s[1] /\ Head(s) \in S
  OBVIOUS
<1> HIDE DEF t
<1>2. NoRepeat(t)
  BY <1>1 DEF NoRepeat
<1>3. ASSUME NEW q
      PROVE  Has(t, q) <=> Has(s, q) /\ q # s[1]
  <2>1. ASSUME Has(t, q) PROVE Has(s, q) /\ q # s[1]
    <3>1. PICK i \in 1 .. Len(s) - 1 : s[i + 1] = q
      BY <2>1, <1>1 DEF Has
    <3>2. i + 1 \in DOMAIN s /\ i + 1 # 1 /\ 1 \in DOMAIN s
      BY <1>1, <3>1
    <3> QED
      BY <3>1, <3>2 DEF Has, NoRepeat
  <2>2. ASSUME Has(s, q), q # s[1] PROVE Has(t, q)
    <3>1. PICK i \in 1 .. Len(s) : s[i] = q
      BY <2>2, <1>1 DEF Has
    <3>2. i - 1 \in DOMAIN t /\ t[i - 1] = s[(i - 1) + 1] /\ (i - 1) + 1 = i
      BY <1>1, <2>2, <3>1
    <3> QED
      BY <3>1, <3>2 DEF Has
  <2> QED
    BY <2>1, <2>2
<1>4. Has(s, s[1])
  BY <1>1 DEF Has
<1> QED
  BY <1>1, <1>2, <1>3, <1>4 DEF t

-----------------------------------------------------------------------------
(* What the moves of a process do to the places of the others.             *)

LEMMA Enqueued ==
  ASSUME ready_queue \in Seq(Procs), NoRepeat(ready_queue), NEW p \in Procs,
         ~InQueue(p), ready_queue' = Append(ready_queue, p)
  PROVE  /\ NoRepeat(ready_queue')
         /\ \A q : InQueue(q)' <=> InQueue(q) \/ q = p
  BY AppendHas DEF InQueue, Has

LEMMA Dequeued ==
  ASSUME ready_queue \in Seq(Procs), NoRepeat(ready_queue), ready_queue # <<>>,
         ready_queue' = Tail(ready_queue)
  PROVE  /\ Head(ready_queue) \in Procs /\ InQueue(Head(ready_queue))
         /\ NoRepeat(ready_queue')
         /\ \A q : InQueue(q)' <=> InQueue(q) /\ q # Head(ready_queue)
  BY TailHas DEF InQueue, Has

LEMMA Stored ==
  ASSUME store \in Seq(Procs), NoRepeat(store), NEW p \in Procs, ~InStore(p),
         store' = Append(store, p)
  PROVE  /\ NoRepeat(store')
         /\ \A q : InStore(q)' <=> InStore(q) \/ q = p
  BY AppendHas DEF InStore, Has

LEMMA Unstored ==
  ASSUME store \in Seq(Procs), NoRepeat(store), store # <<>>,
         store' = Tail(store)
  PROVE  /\ Head(store) \in Procs /\ InStore(Head(store))
         /\ NoRepeat(store')
         /\ \A q : InStore(q)' <=> InStore(q) /\ q # Head(store)
  BY TailHas DEF InStore, Has

LEMMA Cleared ==
  ASSUME cpu_cores \in [Cores -> Procs \cup {NoProc}], CoresApart,
         NEW c \in Cores, cpu_cores[c] # NoProc,
         cpu_cores' = [cpu_cores EXCEPT ![c] = NoProc]
  PROVE  /\ CoresApart'
         /\ cpu_cores[c] \in Procs /\ OnCore(cpu_cores[c])
         /\ \A q \in Procs : OnCore(q)' <=> OnCore(q) /\ q # cpu_cores[c]
  BY Constants DEF CoresApart, OnCore

LEMMA Filled ==
  ASSUME cpu_cores \in [Cores -> Procs \cup {NoProc}], CoresApart,
         NEW c \in Cores, cpu_cores[c] = NoProc, NEW p \in Procs, ~OnCore(p),
         cpu_cores' = [cpu_cores EXCEPT ![c] = p]
  PROVE  /\ CoresApart'
         /\ \A q \in Procs : OnCore(q)' <=> OnCore(q) \/ q = p
  BY Constants DEF CoresApart, OnCore

(* Steps that move no process and create none. *)
LEMMA NothingMoves ==
  ASSUME OnePlace, NewNowhere,
         UNCHANGED <<ready_queue, store, cpu_cores, finished>>,
         \A p \in Procs : proc'[p].state = "NEW" => proc[p].state = "NEW"
  PROVE  OnePlace' /\ NewNowhere'
  BY DEF OnePlace, NewNowhere, InQueue, InStore, OnCore, NoRepeat

-----------------------------------------------------------------------------
(* One lemma for each kind of step.                                        *)

(* The steps that do not touch the places. *)
LEMMA StayingSteps ==
  ASSUME Places,
         \/ Tick \/ GenerateNothing \/ WakeSleepers
         \/ AssignNothing \/ SwapNothing \/ IdleNothing
         \/ stop_scheduler \/ UNCHANGED vars
  PROVE  OnePlace' /\ NewNowhere'
<1>1. UNCHANGED <<ready_queue, store, cpu_cores, finished>>
  BY DEF Tick, GenerateNothing, WakeSleepers, AssignNothing, SwapNothing,
         IdleNothing, stop_scheduler, vars
<1>2. proc \in [Procs -> ProcessStruct]
  BY DEF Places, TypeOK
<1>3. ASSUME NEW p \in Procs, proc'[p].state = "NEW"
      PROVE  proc[p].state = "NEW"
  <2>1. CASE Tick
    BY <1>2, <1>3, <2>1 DEF Tick, ProcessStruct
  <2>2. CASE WakeSleepers
    BY <1>2, <1>3, <2>2 DEF WakeSleepers, ProcessStruct
  <2>3. CASE UNCHANGED proc
    BY <1>3, <2>3
  <2> QED
    BY <2>1, <2>2, <2>3 DEF GenerateNothing, AssignNothing, SwapNothing,
       IdleNothing, stop_scheduler, vars
<1> QED
  BY <1>1, <1>3, NothingMoves DEF Places

(* The steps of execute_instruction.                                       *)
Instructs(c) ==
  \/ Execute(c) \/ EnterFor(c) \/ LeaveFor(c) \/ PopFor(c)
  \/ ExecuteNothing(c) \/ Commit(c)

(* They change the struct of the process that the core holds, and of this  *)
(* neither what it keeps in memory nor, for one created, that it was.      *)
LEMMA InstructionStructs ==
  ASSUME Places, NEW c \in Cores, Instructs(c)
  PROVE  /\ core[c].held \in Procs
         /\ \A q \in Procs : q # core[c].held => proc'[q] = proc[q]
         /\ proc'[core[c].held].logs = proc[core[c].held].logs
         /\ proc'[core[c].held].in_memory = proc[core[c].held].in_memory
         /\ proc'[core[c].held].state = "NEW" => proc[core[c].held].state = "NEW"
<1> DEFINE h == core[c].held
           counted == CountTick(h)
<1>1. proc \in [Procs -> ProcessStruct]
  BY DEF Places, TypeOK
<1>2. h \in Procs
  BY HeldIsProcess
  DEF Instructs, Execute, EnterFor, LeaveFor, PopFor, ExecuteNothing, Commit, At,
      Places
<1>3. /\ counted \in [Procs -> ProcessStruct]
      /\ \A q \in Procs : q # h => counted[q] = proc[q]
      /\ counted[h].logs = proc[h].logs /\ counted[h].in_memory = proc[h].in_memory
      /\ counted[h].state = proc[h].state
  <2>1. counted \in [Procs -> ProcessStruct]
    BY <1>2, CountTickType DEF Places
  <2> QED
    BY <1>1, <1>2, <2>1 DEF CountTick, ProcessStruct
<1>4. \/ proc' = [proc EXCEPT ![h].state = "SLEEPING"]
      \/ proc' = proc
      \/ \E n, depth : proc' = [proc EXCEPT ![h].program_counter = n,
                                            ![h].for_depth = depth]
      \/ \E depth : proc' = [proc EXCEPT ![h].for_depth = depth]
      \/ \E n, depth : proc' = [counted EXCEPT ![h].program_counter = n,
                                               ![h].for_depth = depth]
      \/ proc' = counted
      \/ \E n, left : proc' = [counted EXCEPT ![h].program_counter = n,
                                              ![h].sleep_left = left]
  <2>1. CASE Execute(c)
    BY <2>1 DEF Execute
  <2>2. CASE EnterFor(c)
    BY <2>2 DEF EnterFor
  <2>3. CASE LeaveFor(c)
    <3>1. PICK from, depth : proc' = [proc EXCEPT ![h].program_counter = from + 1,
                                                  ![h].for_depth = depth - 1]
      BY <2>3 DEF LeaveFor
    <3> QED
      BY <3>1
  <2>4. CASE PopFor(c)
    BY <2>4 DEF PopFor
  <2>5. CASE ExecuteNothing(c)
    BY <2>5 DEF ExecuteNothing
  <2>6. CASE Commit(c)
    <3>1. PICK from, left :
            proc' = [counted EXCEPT
                       ![h].program_counter =
                          IF proc[h].for_depth > 0 THEN @ ELSE from + 1,
                       ![h].sleep_left = left]
      BY <2>6 DEF Commit
    <3> QED
      BY <3>1
  <2> QED
    BY <2>1, <2>2, <2>3, <2>4, <2>5, <2>6 DEF Instructs
<1> HIDE DEF h, counted
<1>5. \A q \in Procs : q # h => proc'[q] = proc[q]
  BY <1>1, <1>2, <1>3, <1>4
<1>6. /\ proc'[h].logs = proc[h].logs /\ proc'[h].in_memory = proc[h].in_memory
      /\ proc'[h].state = "NEW" => proc[h].state = "NEW"
  BY <1>1, <1>2, <1>3, <1>4 DEF ProcessStruct
<1> QED
  BY <1>2, <1>5, <1>6 DEF h

(* The commands that show the program counters move them.                  *)
LEMMA ReportStructs ==
  ASSUME Places,
         \/ \E c \in Cores : report_utilization(c)
         \/ \E p \in Procs : screen_list(p)
  PROVE  \A q \in Procs : /\ proc'[q].logs = proc[q].logs
                          /\ proc'[q].in_memory = proc[q].in_memory
                          /\ proc'[q].state = proc[q].state
                          /\ proc'[q].for_depth = proc[q].for_depth
<1>1. proc \in [Procs -> ProcessStruct]
  BY DEF Places, TypeOK
<1>2. PICK p, n : proc' = [proc EXCEPT ![p].program_counter = n]
  <2>1. CASE \E c \in Cores : report_utilization(c)
    BY <2>1 DEF report_utilization
  <2>2. CASE \E p \in Procs : screen_list(p)
    BY <2>2 DEF screen_list
  <2> QED
    BY <2>1, <2>2
<1> QED
  BY <1>1, <1>2 DEF ProcessStruct

(* The other steps of a core that leave the places alone.                  *)
Looks(c) ==
  \/ Read(c) \/ Validate(c) \/ NotComplete(c)
  \/ UseAfterFree(c) \/ PrintToNull(c) \/ PushBelowStack(c)

Shows ==
  \/ \E c \in Cores : report_utilization(c)
  \/ \E p \in Procs : screen_list(p)

LEMMA StayingUnchanged ==
  ASSUME Shows \/ \E c \in Cores : Instructs(c) \/ Looks(c)
  PROVE  UNCHANGED <<owner, ready_queue, store, cpu_cores, finished>>
  BY DEF Shows, report_utilization, screen_list, Instructs, Execute, EnterFor,
         LeaveFor, PopFor, ExecuteNothing, Commit, Looks, Read, Validate,
         NotComplete, UseAfterFree, PrintToNull, PushBelowStack

LEMMA StayingCoreSteps ==
  ASSUME Places, Shows \/ \E c \in Cores : Instructs(c) \/ Looks(c)
  PROVE  OnePlace' /\ NewNowhere'
<1>1. ASSUME NEW p \in Procs, proc'[p].state = "NEW"
      PROVE  proc[p].state = "NEW"
  <2>1. CASE \E c \in Cores : Instructs(c)
    BY <1>1, <2>1, InstructionStructs
  <2>2. CASE Shows
    BY <1>1, <2>2, ReportStructs DEF Shows
  <2>3. CASE \E c \in Cores : Looks(c)
    BY <1>1, <2>3
    DEF Looks, Read, Validate, NotComplete, UseAfterFree, PrintToNull,
        PushBelowStack
  <2> QED
    BY <2>1, <2>2, <2>3
<1> QED
  BY <1>1, StayingUnchanged, NothingMoves DEF Places

(* A new process enters the queue. *)
LEMMA SubmitPlaces ==
  ASSUME Places, NEW p \in Procs, proc[p].state = "NEW", Submit(p),
         UNCHANGED <<store, cpu_cores, finished>>
  PROVE  OnePlace' /\ NewNowhere'
<1>1. /\ proc \in [Procs -> ProcessStruct] /\ ready_queue \in Seq(Procs)
      /\ OnePlace /\ NewNowhere
  BY DEF Places, TypeOK
<1>2. ~InQueue(p) /\ ~InStore(p) /\ ~OnCore(p) /\ p \notin finished
  BY <1>1 DEF NewNowhere
<1>3. /\ NoRepeat(ready_queue')
      /\ \A q : InQueue(q)' <=> InQueue(q) \/ q = p
  BY <1>1, <1>2, Enqueued DEF Submit, OnePlace
<1>4. \A q : (InStore(q)' <=> InStore(q)) /\ (OnCore(q)' <=> OnCore(q))
  BY DEF InStore, OnCore
<1>5. proc'[p].state = "READY" /\ \A q \in Procs : q # p => proc'[q] = proc[q]
  BY <1>1 DEF Submit, ProcessStruct
<1>6. OnePlace'
  BY <1>1, <1>2, <1>3, <1>4 DEF OnePlace
<1>7. NewNowhere'
  BY <1>1, <1>3, <1>4, <1>5 DEF NewNowhere
<1> QED
  BY <1>6, <1>7

(* From a core to the queue. *)
LEMMA PreemptPlaces ==
  ASSUME Places, Preempt
  PROVE  OnePlace' /\ NewNowhere'
<1> DEFINE c == sched.slot
           p == cpu_cores[c]
<1>1. /\ proc \in [Procs -> ProcessStruct] /\ ready_queue \in Seq(Procs)
      /\ cpu_cores \in [Cores -> Procs \cup {NoProc}] /\ c \in Cores
      /\ OnePlace /\ NewNowhere /\ CoresApart
  BY DEF Places, TypeOK, OnePlace, CoresApart
<1>2. CASE Expired(p)
  <2>1. /\ p # NoProc
        /\ proc[p].state = "RUNNING"
        /\ cpu_cores' = [cpu_cores EXCEPT ![c] = NoProc]
        /\ ready_queue' = Append(ready_queue, p)
        /\ proc' = [proc EXCEPT ![p].state = "READY"]
        /\ UNCHANGED <<store, finished>>
    BY <1>2 DEF Preempt, Expired
  <2>2. /\ CoresApart' /\ p \in Procs /\ OnCore(p)
        /\ \A q \in Procs : OnCore(q)' <=> OnCore(q) /\ q # p
    BY <1>1, <2>1, Cleared
  <2>3. ~InQueue(p) /\ ~InStore(p) /\ p \notin finished
    BY <1>1, <2>2 DEF OnePlace
  <2>4. /\ NoRepeat(ready_queue')
        /\ \A q : InQueue(q)' <=> InQueue(q) \/ q = p
    BY <1>1, <2>1, <2>2, <2>3, Enqueued DEF OnePlace
  <2>5. \A q : InStore(q)' <=> InStore(q)
    BY <2>1 DEF InStore
  <2>6. proc'[p].state = "READY" /\ \A q \in Procs : q # p => proc'[q] = proc[q]
    BY <1>1, <2>1, <2>2 DEF ProcessStruct
  <2>7. OnePlace'
    BY <1>1, <2>1, <2>2, <2>3, <2>4, <2>5 DEF OnePlace, CoresApart
  <2>8. NewNowhere'
    BY <1>1, <2>1, <2>2, <2>4, <2>5, <2>6 DEF NewNowhere
  <2> QED
    BY <2>7, <2>8
<1>3. CASE ~Expired(p)
  BY <1>1, <1>3, NothingMoves DEF Preempt
<1> QED
  BY <1>2, <1>3

(* From the head of the queue to a core. *)
LEMMA DispatchPlaces ==
  ASSUME Places, Dispatch
  PROVE  OnePlace' /\ NewNowhere'
<1> DEFINE c == sched.slot
           p == Head(ready_queue)
<1>1. /\ proc \in [Procs -> ProcessStruct] /\ ready_queue \in Seq(Procs)
      /\ cpu_cores \in [Cores -> Procs \cup {NoProc}] /\ c \in Cores
      /\ OnePlace /\ NewNowhere /\ CoresApart
  BY DEF Places, TypeOK, OnePlace, CoresApart
<1>2. /\ cpu_cores[c] = NoProc /\ ready_queue # <<>>
      /\ ready_queue' = Tail(ready_queue)
      /\ cpu_cores' = [cpu_cores EXCEPT ![c] = p]
      /\ UNCHANGED <<store, finished>>
  BY DEF Dispatch
<1>3. /\ p \in Procs /\ InQueue(p) /\ NoRepeat(ready_queue')
      /\ \A q : InQueue(q)' <=> InQueue(q) /\ q # p
  BY <1>1, <1>2, Dequeued DEF OnePlace
<1>4. ~InStore(p) /\ ~OnCore(p) /\ p \notin finished /\ proc[p].state # "NEW"
  BY <1>1, <1>3 DEF OnePlace, NewNowhere
<1>5. CoresApart' /\ \A q \in Procs : OnCore(q)' <=> OnCore(q) \/ q = p
  BY <1>1, <1>2, <1>3, <1>4, Filled
<1>6. \A q : InStore(q)' <=> InStore(q)
  BY <1>2 DEF InStore
<1>7. \A q \in Procs : proc'[q].state = "NEW" => q # p /\ proc[q].state = "NEW"
  <2>1. proc' = [proc EXCEPT ![p].state = "RUNNING",
                             ![p].in_memory = TRUE,
                             ![p].ticks_ran_in_quantum =
                                IF RoundRobin THEN 0 ELSE @]
    BY DEF Dispatch
  <2> QED
    BY <1>1, <1>3, <2>1 DEF ProcessStruct
<1>8. OnePlace'
  BY <1>1, <1>2, <1>3, <1>4, <1>5, <1>6 DEF OnePlace, CoresApart
<1>9. NewNowhere'
  BY <1>1, <1>2, <1>3, <1>5, <1>6, <1>7 DEF NewNowhere
<1> QED
  BY <1>8, <1>9

(* From the head of the queue to the store. *)
LEMMA DispatchToStorePlaces ==
  ASSUME Places, DispatchToStore
  PROVE  OnePlace' /\ NewNowhere'
<1> DEFINE p == Head(ready_queue)
<1>1. /\ ready_queue \in Seq(Procs) /\ store \in Seq(Procs)
      /\ OnePlace /\ NewNowhere
  BY DEF Places, TypeOK
<1>2. /\ ready_queue # <<>> /\ ready_queue' = Tail(ready_queue)
      /\ store' = Append(store, p)
      /\ UNCHANGED <<proc, cpu_cores, finished>>
  BY DEF DispatchToStore
<1>3. /\ p \in Procs /\ InQueue(p) /\ NoRepeat(ready_queue')
      /\ \A q : InQueue(q)' <=> InQueue(q) /\ q # p
  BY <1>1, <1>2, Dequeued DEF OnePlace
<1>4. ~InStore(p) /\ ~OnCore(p) /\ p \notin finished /\ proc[p].state # "NEW"
  BY <1>1, <1>3 DEF OnePlace, NewNowhere
<1>5. NoRepeat(store') /\ \A q : InStore(q)' <=> InStore(q) \/ q = p
  BY <1>1, <1>2, <1>3, <1>4, Stored DEF OnePlace
<1>6. \A q : OnCore(q)' <=> OnCore(q)
  BY <1>2 DEF OnCore
<1>7. OnePlace'
  BY <1>1, <1>2, <1>3, <1>4, <1>5, <1>6 DEF OnePlace
<1>8. NewNowhere'
  BY <1>1, <1>2, <1>3, <1>4, <1>5, <1>6 DEF NewNowhere
<1> QED
  BY <1>7, <1>8

(* What a step may do to the states for NewNowhere. *)
LEMMA RestoredState ==
  ASSUME NEW f \in [Procs -> ProcessStruct], NEW p \in Procs
  PROVE  \A q \in Procs : [f EXCEPT ![p] = Restored(@)][q].state = f[q].state
  BY DEF Restored, ProcessStruct

(* From the head of the store to the queue. *)
LEMMA SwapInPlaces ==
  ASSUME Places, SwapIn \/ IdleSwapIn
  PROVE  OnePlace' /\ NewNowhere'
<1> DEFINE p == Head(store)
<1>1. /\ proc \in [Procs -> ProcessStruct]
      /\ ready_queue \in Seq(Procs) /\ store \in Seq(Procs)
      /\ OnePlace /\ NewNowhere
  BY DEF Places, TypeOK
<1>2. /\ store # <<>> /\ store' = Tail(store)
      /\ ready_queue' = Append(ready_queue, p)
      /\ proc' = [proc EXCEPT ![p] = Restored(@)]
      /\ UNCHANGED <<cpu_cores, finished>>
  BY DEF SwapIn, SwapInDue, IdleSwapIn, IdleSwapInPossible
<1>3. /\ p \in Procs /\ InStore(p) /\ NoRepeat(store')
      /\ \A q : InStore(q)' <=> InStore(q) /\ q # p
  BY <1>1, <1>2, Unstored DEF OnePlace
<1>4. ~InQueue(p) /\ ~OnCore(p) /\ p \notin finished /\ proc[p].state # "NEW"
  BY <1>1, <1>3 DEF OnePlace, NewNowhere
<1>5. NoRepeat(ready_queue') /\ \A q : InQueue(q)' <=> InQueue(q) \/ q = p
  BY <1>1, <1>2, <1>3, <1>4, Enqueued DEF OnePlace
<1>6. \A q : OnCore(q)' <=> OnCore(q)
  BY <1>2 DEF OnCore
<1>7. \A q \in Procs : proc'[q].state = proc[q].state
  BY <1>1, <1>2, <1>3, RestoredState
<1>8. OnePlace'
  BY <1>1, <1>2, <1>3, <1>4, <1>5, <1>6 DEF OnePlace
<1>9. NewNowhere'
  BY <1>1, <1>2, <1>3, <1>4, <1>5, <1>6, <1>7 DEF NewNowhere
<1> QED
  BY <1>8, <1>9

(* Off a core by its own thread: to nowhere, or to the finished ones. *)
LEMMA LeavePlaces ==
  ASSUME Places, NEW c \in Cores, Remove(c) \/ Complete(c)
  PROVE  OnePlace' /\ NewNowhere'
<1> DEFINE p == cpu_cores[c]
<1>1. /\ proc \in [Procs -> ProcessStruct]
      /\ cpu_cores \in [Cores -> Procs \cup {NoProc}]
      /\ OnePlace /\ NewNowhere /\ CoresApart
  BY DEF Places, TypeOK, OnePlace, CoresApart
<1>2. /\ cpu_cores' = [cpu_cores EXCEPT ![c] = NoProc]
      /\ UNCHANGED <<ready_queue, store>>
  BY DEF Remove, Complete
<1>3. \A q : (InQueue(q)' <=> InQueue(q)) /\ (InStore(q)' <=> InStore(q))
  BY <1>2 DEF InQueue, InStore
<1>4. NoRepeat(ready_queue') /\ NoRepeat(store')
  BY <1>1, <1>2 DEF OnePlace
<1>5. CASE p = NoProc
  <2>1. Remove(c)
    BY <1>5 DEF Complete, Done
  <2>2. UNCHANGED <<ready_queue, store, cpu_cores, finished, proc>>
    BY <1>1, <1>2, <1>5, <2>1 DEF Remove
  <2> QED
    BY <1>1, <2>2, NothingMoves
<1>6. CASE p # NoProc
  <2>1. /\ CoresApart' /\ p \in Procs /\ OnCore(p)
        /\ \A q \in Procs : OnCore(q)' <=> OnCore(q) /\ q # p
    BY <1>1, <1>2, <1>6, Cleared
  <2>2. ~InQueue(p) /\ ~InStore(p) /\ p \notin finished /\ proc[p].state # "NEW"
    BY <1>1, <2>1 DEF OnePlace, NewNowhere
  <2>3. finished' \in {finished, finished \cup {p}}
    BY DEF Remove, Complete
  <2>4. \A q \in Procs : proc'[q].state = "NEW" => q # p /\ proc[q].state = "NEW"
    <3>1. CASE Remove(c)
      BY <2>2, <3>1 DEF Remove
    <3>2. CASE Complete(c)
      BY <1>1, <2>1, <3>2 DEF Complete, ProcessStruct
    <3> QED
      BY <3>1, <3>2
  <2>5. OnePlace'
    BY <1>1, <1>3, <1>4, <2>1, <2>2, <2>3 DEF OnePlace, CoresApart
  <2>6. NewNowhere'
    BY <1>1, <1>3, <2>1, <2>3, <2>4 DEF NewNowhere
  <2> QED
    BY <2>5, <2>6
<1> QED
  BY <1>5, <1>6

(* A victim from its core to the end of the store, and perhaps the head of *)
(* the store to the queue.                                                 *)
LEMMA SwapOutAndInPlaces ==
  ASSUME Places, SwapOutAndIn
  PROVE  OnePlace' /\ NewNowhere'
<1> DEFINE p == Head(store)
<1>1. /\ proc \in [Procs -> ProcessStruct]
      /\ cpu_cores \in [Cores -> Procs \cup {NoProc}]
      /\ ready_queue \in Seq(Procs) /\ store \in Seq(Procs)
      /\ OnePlace /\ NewNowhere /\ CoresApart
      /\ NoRepeat(ready_queue) /\ NoRepeat(store)
  BY DEF Places, TypeOK, OnePlace, CoresApart
<1>2. store # <<>> /\ finished' = finished
  BY DEF SwapOutAndIn, SwapInDue
<1>3. PICK c \in Cores :
        LET victim == cpu_cores[c]
            freed == GivenBack(owner, victim)
            saved == [proc EXCEPT ![victim].in_memory = FALSE]
        IN  /\ OnCoreRunning(c)
            /\ cpu_cores' = [cpu_cores EXCEPT ![c] = NoProc]
            /\ IF Fits(freed, p)
               THEN /\ store' = Append(Tail(store), victim)
                    /\ ready_queue' = Append(ready_queue, p)
                    /\ proc' = [saved EXCEPT ![p] = Restored(@)]
               ELSE /\ store' = Append(store, victim)
                    /\ proc' = saved
                    /\ UNCHANGED ready_queue
  BY DEF SwapOutAndIn
<1> DEFINE victim == cpu_cores[c]
           saved == [proc EXCEPT ![victim].in_memory = FALSE]
<1>4. /\ CoresApart' /\ victim \in Procs /\ OnCore(victim)
      /\ \A q \in Procs : OnCore(q)' <=> OnCore(q) /\ q # victim
  BY <1>1, <1>3, Cleared DEF OnCoreRunning
<1>5. /\ ~InQueue(victim) /\ ~InStore(victim) /\ victim \notin finished
      /\ proc[victim].state # "NEW"
  BY <1>1, <1>4 DEF OnePlace, NewNowhere
<1>6. /\ saved \in [Procs -> ProcessStruct]
      /\ \A q \in Procs : saved[q].state = proc[q].state
  BY <1>1, <1>4 DEF ProcessStruct
<1>7. CASE ~Fits(GivenBack(owner, victim), p)
  <2>1. /\ store' = Append(store, victim)
        /\ proc' = saved
        /\ UNCHANGED ready_queue
    BY <1>3, <1>7
  <2>2. NoRepeat(store') /\ \A q : InStore(q)' <=> InStore(q) \/ q = victim
    BY <1>1, <1>4, <1>5, <2>1, Stored
  <2>3. \A q : InQueue(q)' <=> InQueue(q)
    BY <2>1 DEF InQueue
  <2>4. OnePlace'
    BY <1>1, <1>2, <1>4, <1>5, <2>1, <2>2, <2>3 DEF OnePlace, CoresApart
  <2>5. NewNowhere'
    BY <1>1, <1>2, <1>4, <1>5, <1>6, <2>1, <2>2, <2>3 DEF NewNowhere
  <2> QED
    BY <2>4, <2>5
<1>8. CASE Fits(GivenBack(owner, victim), p)
  <2>1. /\ store' = Append(Tail(store), victim)
        /\ ready_queue' = Append(ready_queue, p)
        /\ proc' = [saved EXCEPT ![p] = Restored(@)]
    BY <1>3, <1>8
  <2>2. /\ p \in Procs /\ InStore(p)
        /\ Tail(store) \in Seq(Procs) /\ NoRepeat(Tail(store))
        /\ \A q : Has(Tail(store), q) <=> InStore(q) /\ q # p
    <3>1. \A q : InStore(q) <=> Has(store, q)
      BY DEF InStore, Has
    <3> QED
      BY <1>1, <1>2, <3>1, TailHas
  <2>3. /\ NoRepeat(store')
        /\ \A q : InStore(q)' <=> Has(Tail(store), q) \/ q = victim
    <3>1. ~Has(Tail(store), victim)
      BY <1>5, <2>2
    <3>2. \A q : InStore(q)' <=> Has(store', q)
      BY DEF InStore, Has
    <3> QED
      BY <1>4, <2>1, <2>2, <3>1, <3>2, AppendHas
  <2>4. ~InQueue(p) /\ ~OnCore(p) /\ p \notin finished /\ proc[p].state # "NEW"
    BY <1>1, <2>2 DEF OnePlace, NewNowhere
  <2>5. NoRepeat(ready_queue') /\ \A q : InQueue(q)' <=> InQueue(q) \/ q = p
    BY <1>1, <2>1, <2>2, <2>4, Enqueued
  <2>6. \A q \in Procs : proc'[q].state = proc[q].state
    BY <1>6, <2>1, <2>2, RestoredState
  <2>7. p # victim
    BY <1>5, <2>2
  <2>8. OnePlace'
    BY <1>1, <1>2, <1>4, <1>5, <2>2, <2>3, <2>4, <2>5, <2>7
    DEF OnePlace, CoresApart
  <2>9. NewNowhere'
    BY <1>1, <1>2, <1>4, <1>5, <2>2, <2>3, <2>4, <2>5, <2>6 DEF NewNowhere
  <2> QED
    BY <2>8, <2>9
<1> QED
  BY <1>7, <1>8

LEMMA InitPlaces == Init => Places
<1> SUFFICES ASSUME Init PROVE OnePlace /\ NewNowhere
  BY InitTypeOK DEF Places
<1>1. /\ ready_queue = <<>> /\ store = <<>> /\ finished = {}
      /\ cpu_cores = [c \in Cores |-> NoProc]
  BY DEF Init
<1>2. \A p \in Procs : ~InQueue(p) /\ ~InStore(p) /\ ~OnCore(p)
  BY <1>1, Constants DEF InQueue, InStore, OnCore
<1> QED
  BY <1>1, <1>2 DEF OnePlace, NewNowhere, NoRepeat

LEMMA NextPlaces ==
  ASSUME Places, [Next]_vars
  PROVE  Places'
<1> SUFFICES OnePlace' /\ NewNowhere'
  BY NextTypeOK DEF Places
<1>1. CASE SchedulerStep
  <2>1. CASE Generate
    <3>1. PICK p \in Generable : Submit(p)
      BY <2>1 DEF Generate
    <3> QED
      BY <2>1, <3>1, SubmitPlaces DEF Generate, Generable
  <2> QED
    BY <1>1, <2>1, StayingSteps, PreemptPlaces, DispatchPlaces,
       DispatchToStorePlaces, SwapInPlaces, SwapOutAndInPlaces
    DEF SchedulerStep
<1>2. ASSUME NEW c \in Cores, CoreLockStep(c) \/ CoreRunStep(c)
      PROVE  OnePlace' /\ NewNowhere'
  BY <1>2, StayingCoreSteps, LeavePlaces
  DEF CoreLockStep, CoreRunStep, Instructs, Looks
<1>3. CASE CliStep
  <2>1. ASSUME NEW p \in Procs, screen_start(p)
        PROVE  OnePlace' /\ NewNowhere'
    BY <2>1, SubmitPlaces DEF screen_start
  <2> QED
    BY <1>3, <2>1, StayingSteps, StayingCoreSteps DEF CliStep, Shows
<1>4. CASE UNCHANGED vars
  BY <1>4, StayingSteps
<1> QED
  BY <1>1, <1>2, <1>3, <1>4 DEF Next

(* However many processes and cores there are, whatever their programs,    *)
(* with either scheduler, and however the scheduler thread, the core       *)
(* threads and the commands interleave, no process is in two places: twice *)
(* in the queue or the store, on two cores, or finished and still queued.  *)
THEOREM NeverInTwoPlaces == Spec => []OnePlace
<1>1. Init => Places
  BY InitPlaces
<1>2. Places /\ [Next]_vars => Places'
  BY NextPlaces
<1>3. Places => OnePlace
  BY DEF Places
<1> QED
  BY <1>1, <1>2, <1>3, PTL DEF Spec
-----------------------------------------------------------------------------
(* The memory of the processes. *)

MapsOfMemory == [Addresses -> Procs \cup {Free}]

HasRun(own, p) ==
  \E base \in Addresses :
    /\ Run(base, MemoryAllocation[p]) \subseteq Addresses
    /\ \A a \in Addresses : own[a] = p <=> a \in Run(base, MemoryAllocation[p])

(* MemoryAgrees of a given owner map and given flags. *)
Agrees(own, flag) ==
  \A p \in Procs : IF flag[p] THEN HasRun(own, p) ELSE ~Resident(own, p)

Flags == [p \in Procs |-> proc[p].in_memory]

PlacesAgree ==
  \A p \in Procs :
    /\ OnCore(p) => Flags[p]
    /\ InStore(p) \/ p \in finished => ~Flags[p]

LEMMA MemoryParts == MemoryAgrees <=> Agrees(owner, Flags) /\ PlacesAgree
  BY DEF MemoryAgrees, Agrees, HasRun, Flags, PlacesAgree

LEMMA MemoryPartsThen == MemoryAgrees' <=> Agrees(owner', Flags') /\ PlacesAgree'
<1>1. (MemoryAgrees <=> Agrees(owner, Flags) /\ PlacesAgree)'
  BY MemoryParts, PTL
<1> QED
  BY <1>1 DEF Agrees, HasRun
-----------------------------------------------------------------------------
(* The owner maps.                                                         *)

LEMMA FreedAgrees ==
  ASSUME NEW own \in MapsOfMemory, NEW flag, Agrees(own, flag), NEW v \in Procs,
         NEW flag2, \A p \in Procs : flag2[p] = IF p = v THEN FALSE ELSE flag[p]
  PROVE  GivenBack(own, v) \in MapsOfMemory /\ Agrees(GivenBack(own, v), flag2)
<1> DEFINE own2 == GivenBack(own, v)
<1>1. \A a \in Addresses : own2[a] = IF own[a] = v THEN Free ELSE own[a]
  BY DEF GivenBack
<1>2. own2 \in MapsOfMemory
  BY DEF GivenBack, MapsOfMemory
<1> HIDE DEF own2
<1>3. ASSUME NEW p \in Procs
      PROVE  IF flag2[p] THEN HasRun(own2, p) ELSE ~Resident(own2, p)
  <2>1. p # Free /\ v # Free
    BY Constants
  <2>2. CASE p = v
    BY <1>1, <2>1, <2>2 DEF Resident
  <2>3. CASE p # v
    <3>1. \A a \in Addresses : own2[a] = p <=> own[a] = p
      BY <1>1, <2>1, <2>3
    <3>2. flag2[p] = flag[p]
      BY <2>3
    <3> QED
      BY <3>1, <3>2 DEF Agrees, HasRun, Resident
  <2> QED
    BY <2>2, <2>3
<1> QED
  BY <1>2, <1>3 DEF Agrees, own2

(* The lowest hole is a hole. *)
LEMMA LowestHole ==
  ASSUME NEW own \in MapsOfMemory, NEW p \in Procs, Fits(own, p)
  PROVE  \E base \in Holes(own, MemoryAllocation[p]) :
           Allocated(own, p) = Taken(own, p, base, MemoryAllocation[p])
<1> DEFINE holes == Holes(own, MemoryAllocation[p])
           lowest == CHOOSE base \in holes : \A other \in holes : base <= other
<1>1. holes \subseteq Nat /\ holes # {}
  BY SpaceAssumption DEF Holes, Addresses, Fits
<1>2. \E base \in holes : \A other \in holes : base <= other
  <2> HIDE DEF holes
  <2> QED
    BY <1>1, Least
<1>3. lowest \in holes
  <2> HIDE DEF holes
  <2> QED
    BY <1>2
<1> QED
  BY <1>3 DEF Allocated

LEMMA AllocatedAgrees ==
  ASSUME NEW own \in MapsOfMemory, NEW flag, Agrees(own, flag),
         NEW p \in Procs, ~flag[p], Fits(own, p),
         NEW flag2, \A q \in Procs : flag2[q] = IF q = p THEN TRUE ELSE flag[q]
  PROVE  Allocated(own, p) \in MapsOfMemory /\ Agrees(Allocated(own, p), flag2)
<1> DEFINE own2 == Allocated(own, p)
           n == MemoryAllocation[p]
<1>1. PICK base \in Holes(own, n) : own2 = Taken(own, p, base, n)
  BY LowestHole
<1>2. /\ base \in Addresses /\ Run(base, n) \subseteq Addresses
      /\ \A a \in Run(base, n) : own[a] = Free
  BY DEF Holes
<1>3. \A a \in Addresses : own2[a] = IF a \in Run(base, n) THEN p ELSE own[a]
  BY <1>1 DEF Taken
<1>4. own2 \in MapsOfMemory
  BY <1>1 DEF Taken, MapsOfMemory
<1> HIDE DEF own2
<1>5. ASSUME NEW q \in Procs
      PROVE  IF flag2[q] THEN HasRun(own2, q) ELSE ~Resident(own2, q)
  <2>1. q # Free
    BY Constants
  <2>2. CASE q = p
    <3>1. \A a \in Addresses : own[a] # p
      BY DEF Agrees, Resident
    <3>2. \A a \in Addresses : own2[a] = p <=> a \in Run(base, n)
      BY <1>3, <3>1
    <3>3. HasRun(own2, p)
      BY <1>2, <3>2 DEF HasRun
    <3> QED
      BY <2>2, <3>3
  <2>3. CASE q # p
    <3>1. \A a \in Addresses : own2[a] = q <=> own[a] = q
      BY <1>2, <1>3, <2>1, <2>3
    <3>2. flag2[q] = flag[q]
      BY <2>3
    <3> QED
      BY <3>1, <3>2 DEF Agrees, HasRun, Resident
  <2> QED
    BY <2>2, <2>3
<1> QED
  BY <1>4, <1>5 DEF Agrees, own2
-----------------------------------------------------------------------------
(* One lemma for each kind of step.                                        *)

(* What the lemmas use of Places. *)
LEMMA PlacesTypes ==
  ASSUME Places
  PROVE  /\ proc \in [Procs -> ProcessStruct] /\ owner \in MapsOfMemory
         /\ ready_queue \in Seq(Procs) /\ store \in Seq(Procs)
         /\ cpu_cores \in [Cores -> Procs \cup {NoProc}]
         /\ sched.slot \in Cores
         /\ OnePlace /\ NewNowhere /\ CoresApart
         /\ NoRepeat(ready_queue) /\ NoRepeat(store)
  BY DEF Places, TypeOK, MapsOfMemory, OnePlace, CoresApart

(* The steps that take no memory, give none back, and store nobody. *)
LEMMA MemoryKept ==
  ASSUME MemoryAgrees, owner' = owner, finished' = finished,
         \A p \in Procs : proc'[p].in_memory = proc[p].in_memory,
         \A p \in Procs : (OnCore(p)' => OnCore(p)) /\ (InStore(p)' => InStore(p))
  PROVE  MemoryAgrees'
<1>1. Agrees(owner, Flags) /\ PlacesAgree
  BY MemoryParts
<1>2. Flags' = Flags
  BY DEF Flags
<1>3. PlacesAgree'
  BY <1>1, <1>2 DEF PlacesAgree
<1>4. Agrees(owner', Flags')
  BY <1>1, <1>2
<1> QED
  BY <1>3, <1>4, MemoryPartsThen

LEMMA QuietSteps ==
  ASSUME Places, MemoryAgrees,
         \/ Tick \/ GenerateNothing \/ WakeSleepers
         \/ AssignNothing \/ SwapNothing \/ IdleNothing
         \/ stop_scheduler \/ UNCHANGED vars
  PROVE  MemoryAgrees'
<1>1. UNCHANGED <<owner, store, cpu_cores, finished>>
  BY DEF Tick, GenerateNothing, WakeSleepers, AssignNothing, SwapNothing,
         IdleNothing, stop_scheduler, vars
<1>2. \A p \in Procs : (OnCore(p)' => OnCore(p)) /\ (InStore(p)' => InStore(p))
  BY <1>1 DEF OnCore, InStore
<1>3. proc \in [Procs -> ProcessStruct]
  BY PlacesTypes
<1>4. \A p \in Procs : proc'[p].in_memory = proc[p].in_memory
  <2>1. CASE Tick
    BY <1>3, <2>1 DEF Tick, ProcessStruct
  <2>2. CASE WakeSleepers
    BY <1>3, <2>2 DEF WakeSleepers, ProcessStruct
  <2>3. CASE UNCHANGED proc
    BY <2>3
  <2> QED
    BY <2>1, <2>2, <2>3 DEF GenerateNothing, AssignNothing, SwapNothing,
       IdleNothing, stop_scheduler, vars
<1> QED
  BY <1>1, <1>2, <1>4, MemoryKept

LEMMA QuietCoreSteps ==
  ASSUME Places, MemoryAgrees,
         Shows \/ \E c \in Cores : Instructs(c) \/ Looks(c)
  PROVE  MemoryAgrees'
<1>1. UNCHANGED <<owner, store, cpu_cores, finished>>
  BY StayingUnchanged
<1>2. \A p \in Procs : (OnCore(p)' => OnCore(p)) /\ (InStore(p)' => InStore(p))
  BY <1>1 DEF OnCore, InStore
<1>3. ASSUME NEW p \in Procs PROVE proc'[p].in_memory = proc[p].in_memory
  <2>1. CASE \E c \in Cores : Instructs(c)
    BY <2>1, InstructionStructs
  <2>2. CASE Shows
    BY <2>2, ReportStructs DEF Shows
  <2>3. CASE \E c \in Cores : Looks(c)
    BY <2>3
    DEF Looks, Read, Validate, NotComplete, UseAfterFree, PrintToNull,
        PushBelowStack
  <2> QED
    BY <2>1, <2>2, <2>3
<1> QED
  BY <1>1, <1>2, <1>3, MemoryKept

(* Into the queue: from nowhere, or from a core whose quantum is over. *)
LEMMA EnqueueMemory ==
  ASSUME Places, MemoryAgrees,
         \/ Preempt
         \/ \E p \in Procs :
              Submit(p) /\ UNCHANGED <<owner, store, cpu_cores, finished>>
  PROVE  MemoryAgrees'
<1>1. /\ proc \in [Procs -> ProcessStruct] /\ sched.slot \in Cores
      /\ cpu_cores \in [Cores -> Procs \cup {NoProc}] /\ NoProc \notin Procs
  BY PlacesTypes, Constants
<1>2. UNCHANGED <<owner, store, finished>>
  BY DEF Preempt
<1>3. \A p \in Procs : proc'[p].in_memory = proc[p].in_memory
  <2>1. PICK q : proc' = proc \/ proc' = [proc EXCEPT ![q].state = "READY"]
    BY DEF Preempt, Submit
  <2> QED
    BY <1>1, <2>1 DEF ProcessStruct
<1>4. \A p \in Procs : InStore(p)' => InStore(p)
  BY <1>2 DEF InStore
<1>5. \A p \in Procs : OnCore(p)' => OnCore(p)
  BY <1>1 DEF OnCore, Preempt
<1> QED
  BY <1>2, <1>3, <1>4, <1>5, MemoryKept

(* The head of the queue gets a core, and its memory if it has none. *)
LEMMA DispatchMemory ==
  ASSUME Places, MemoryAgrees, Dispatch
  PROVE  MemoryAgrees'
<1> DEFINE c == sched.slot
           p == Head(ready_queue)
<1>1. /\ proc \in [Procs -> ProcessStruct] /\ owner \in MapsOfMemory
      /\ ready_queue \in Seq(Procs)
      /\ cpu_cores \in [Cores -> Procs \cup {NoProc}] /\ c \in Cores
      /\ OnePlace /\ NewNowhere /\ CoresApart /\ NoRepeat(ready_queue)
      /\ Agrees(owner, Flags) /\ PlacesAgree
  BY PlacesTypes, MemoryParts
<1>2. /\ cpu_cores[c] = NoProc /\ ready_queue # <<>>
      /\ proc[p].in_memory \/ Fits(owner, p)
      /\ owner' = IF proc[p].in_memory THEN owner ELSE Allocated(owner, p)
      /\ ready_queue' = Tail(ready_queue)
      /\ cpu_cores' = [cpu_cores EXCEPT ![c] = p]
      /\ proc' = [proc EXCEPT ![p].state = "RUNNING",
                              ![p].in_memory = TRUE,
                              ![p].ticks_ran_in_quantum =
                                 IF RoundRobin THEN 0 ELSE @]
      /\ UNCHANGED <<store, finished>>
  BY DEF Dispatch
<1>3. p \in Procs /\ InQueue(p)
  BY <1>1, <1>2, Dequeued
<1>4. ~InStore(p) /\ ~OnCore(p) /\ p \notin finished
  BY <1>1, <1>3 DEF OnePlace
<1>5. \A q \in Procs : OnCore(q)' <=> OnCore(q) \/ q = p
  BY <1>1, <1>2, <1>3, <1>4, Filled
<1>6. \A q \in Procs : Flags'[q] = IF q = p THEN TRUE ELSE Flags[q]
  BY <1>1, <1>2, <1>3 DEF Flags, ProcessStruct
<1>7. \A q : InStore(q)' <=> InStore(q)
  BY <1>2 DEF InStore
<1>8. PlacesAgree'
  BY <1>1, <1>2, <1>4, <1>5, <1>6, <1>7 DEF PlacesAgree
<1>9. Agrees(owner', Flags')
  <2>1. CASE proc[p].in_memory
    <3>1. \A q \in Procs : Flags'[q] = Flags[q]
      BY <1>3, <1>6, <2>1 DEF Flags
    <3> QED
      BY <1>1, <1>2, <2>1, <3>1 DEF Agrees
  <2>2. CASE ~proc[p].in_memory
    <3>1. ~Flags[p] /\ Fits(owner, p) /\ owner' = Allocated(owner, p)
      BY <1>2, <1>3, <2>2 DEF Flags
    <3> QED
      BY <1>1, <1>3, <1>6, <3>1, AllocatedAgrees
  <2> QED
    BY <2>1, <2>2
<1> QED
  BY <1>8, <1>9, MemoryPartsThen

(* The head of the queue has no memory when it goes to the store. *)
LEMMA DispatchToStoreMemory ==
  ASSUME Places, MemoryAgrees, DispatchToStore
  PROVE  MemoryAgrees'
<1> DEFINE p == Head(ready_queue)
<1>1. /\ ready_queue \in Seq(Procs) /\ store \in Seq(Procs)
      /\ OnePlace /\ NoRepeat(ready_queue) /\ NoRepeat(store)
      /\ Agrees(owner, Flags) /\ PlacesAgree
  BY PlacesTypes, MemoryParts
<1>2. /\ ready_queue # <<>> /\ ready_queue' = Tail(ready_queue)
      /\ ~proc[p].in_memory /\ store' = Append(store, p)
      /\ UNCHANGED <<proc, owner, cpu_cores, finished>>
  BY DEF DispatchToStore
<1>3. p \in Procs /\ InQueue(p)
  BY <1>1, <1>2, Dequeued
<1>4. ~InStore(p) /\ ~OnCore(p) /\ ~Flags[p]
  BY <1>1, <1>2, <1>3 DEF OnePlace, Flags
<1>5. \A q : InStore(q)' <=> InStore(q) \/ q = p
  BY <1>1, <1>2, <1>3, <1>4, Stored
<1>6. Flags' = Flags /\ \A q : OnCore(q)' <=> OnCore(q)
  BY <1>2 DEF Flags, OnCore
<1>7. PlacesAgree'
  BY <1>1, <1>2, <1>4, <1>5, <1>6 DEF PlacesAgree
<1>8. Agrees(owner', Flags')
  BY <1>1, <1>2, <1>6
<1> QED
  BY <1>7, <1>8, MemoryPartsThen

LEMMA RestoredFlag ==
  ASSUME NEW f \in [Procs -> ProcessStruct], NEW p \in Procs
  PROVE  \A q \in Procs : [f EXCEPT ![p] = Restored(@)][q].in_memory
                            = IF q = p THEN TRUE ELSE f[q].in_memory
  BY DEF Restored, ProcessStruct

(* The head of the store gets its memory. *)
LEMMA SwapInMemory ==
  ASSUME Places, MemoryAgrees, SwapIn \/ IdleSwapIn
  PROVE  MemoryAgrees'
<1> DEFINE p == Head(store)
<1>1. /\ proc \in [Procs -> ProcessStruct] /\ owner \in MapsOfMemory
      /\ store \in Seq(Procs) /\ OnePlace /\ NoRepeat(store)
      /\ Agrees(owner, Flags) /\ PlacesAgree
  BY PlacesTypes, MemoryParts
<1>2. /\ store # <<>> /\ store' = Tail(store) /\ Fits(owner, p)
      /\ owner' = Allocated(owner, p)
      /\ proc' = [proc EXCEPT ![p] = Restored(@)]
      /\ UNCHANGED <<cpu_cores, finished>>
  BY DEF SwapIn, SwapInDue, IdleSwapIn, IdleSwapInPossible
<1>3. /\ p \in Procs /\ InStore(p)
      /\ \A q : InStore(q)' <=> InStore(q) /\ q # p
  BY <1>1, <1>2, Unstored
<1>4. ~OnCore(p) /\ p \notin finished /\ ~Flags[p]
  BY <1>1, <1>3 DEF OnePlace, PlacesAgree
<1>5. \A q \in Procs : Flags'[q] = IF q = p THEN TRUE ELSE Flags[q]
  BY <1>1, <1>2, <1>3, RestoredFlag DEF Flags
<1>6. \A q : OnCore(q)' <=> OnCore(q)
  BY <1>2 DEF OnCore
<1>7. PlacesAgree'
  BY <1>1, <1>2, <1>3, <1>4, <1>5, <1>6 DEF PlacesAgree
<1>8. Agrees(owner', Flags')
  BY <1>1, <1>2, <1>3, <1>4, <1>5, AllocatedAgrees
<1> QED
  BY <1>7, <1>8, MemoryPartsThen

(* A process that its core finishes gives its memory back; one that its    *)
(* core removes keeps it.                                                  *)
LEMMA LeaveMemory ==
  ASSUME Places, MemoryAgrees, NEW c \in Cores, Remove(c) \/ Complete(c)
  PROVE  MemoryAgrees'
<1> DEFINE p == cpu_cores[c]
<1>1. /\ proc \in [Procs -> ProcessStruct] /\ owner \in MapsOfMemory
      /\ cpu_cores \in [Cores -> Procs \cup {NoProc}]
      /\ OnePlace /\ CoresApart
      /\ Agrees(owner, Flags) /\ PlacesAgree
  BY PlacesTypes, MemoryParts
<1>2. \A q : InStore(q)' <=> InStore(q)
  BY DEF Remove, Complete, InStore
<1>3. CASE Remove(c)
  <2>1. UNCHANGED <<proc, owner, finished>>
    BY <1>3 DEF Remove
  <2>2. \A q \in Procs : OnCore(q)' => OnCore(q)
    BY <1>1, <1>3, Constants DEF Remove, OnCore
  <2> QED
    BY <1>2, <2>1, <2>2, MemoryKept
<1>4. CASE Complete(c)
  <2>1. /\ p # NoProc /\ owner' = GivenBack(owner, p)
        /\ finished' = finished \cup {p}
        /\ cpu_cores' = [cpu_cores EXCEPT ![c] = NoProc]
        /\ proc' = [proc EXCEPT ![p].state = "FINISHED", ![p].in_memory = FALSE]
    BY <1>4 DEF Complete, Done
  <2>2. /\ p \in Procs /\ OnCore(p)
        /\ \A q \in Procs : OnCore(q)' <=> OnCore(q) /\ q # p
    BY <1>1, <2>1, Cleared
  <2>3. \A q \in Procs : Flags'[q] = IF q = p THEN FALSE ELSE Flags[q]
    BY <1>1, <2>1, <2>2 DEF Flags, ProcessStruct
  <2>4. PlacesAgree'
    BY <1>1, <1>2, <2>1, <2>2, <2>3 DEF PlacesAgree
  <2>5. Agrees(owner', Flags')
    BY <1>1, <2>1, <2>2, <2>3, FreedAgrees
  <2> QED
    BY <2>4, <2>5, MemoryPartsThen
<1> QED
  BY <1>3, <1>4

(* The victim gives its memory back, and the head of the store may get it. *)
LEMMA SwapOutAndInMemory ==
  ASSUME Places, MemoryAgrees, SwapOutAndIn
  PROVE  MemoryAgrees'
<1> DEFINE p == Head(store)
<1>1. /\ proc \in [Procs -> ProcessStruct] /\ owner \in MapsOfMemory
      /\ cpu_cores \in [Cores -> Procs \cup {NoProc}]
      /\ store \in Seq(Procs) /\ NoRepeat(store)
      /\ OnePlace /\ CoresApart
      /\ Agrees(owner, Flags) /\ PlacesAgree
  BY PlacesTypes, MemoryParts
<1>2. store # <<>> /\ finished' = finished
  BY DEF SwapOutAndIn, SwapInDue
<1>3. PICK c \in Cores :
        LET victim == cpu_cores[c]
            freed == GivenBack(owner, victim)
            saved == [proc EXCEPT ![victim].in_memory = FALSE]
        IN  /\ OnCoreRunning(c)
            /\ cpu_cores' = [cpu_cores EXCEPT ![c] = NoProc]
            /\ IF Fits(freed, p)
               THEN /\ owner' = Allocated(freed, p)
                    /\ store' = Append(Tail(store), victim)
                    /\ proc' = [saved EXCEPT ![p] = Restored(@)]
               ELSE /\ owner' = freed
                    /\ store' = Append(store, victim)
                    /\ proc' = saved
  BY DEF SwapOutAndIn
<1> DEFINE victim == cpu_cores[c]
           freed == GivenBack(owner, victim)
           saved == [proc EXCEPT ![victim].in_memory = FALSE]
           flag == [q \in Procs |-> IF q = victim THEN FALSE ELSE Flags[q]]
<1>4. /\ victim \in Procs /\ OnCore(victim)
      /\ \A q \in Procs : OnCore(q)' <=> OnCore(q) /\ q # victim
  BY <1>1, <1>3, Cleared DEF OnCoreRunning
<1>5. ~InStore(victim) /\ victim \notin finished
  BY <1>1, <1>4 DEF OnePlace
<1>6. /\ saved \in [Procs -> ProcessStruct]
      /\ \A q \in Procs : saved[q].in_memory = flag[q]
  BY <1>1, <1>4 DEF ProcessStruct, Flags
<1>7. freed \in MapsOfMemory /\ Agrees(freed, flag)
  <2>1. \A q \in Procs : flag[q] = IF q = victim THEN FALSE ELSE Flags[q]
    OBVIOUS
  <2> HIDE DEF flag, victim
  <2> QED
    BY <1>1, <1>4, <2>1, FreedAgrees
<1>8. CASE ~Fits(freed, p)
  <2>1. owner' = freed /\ store' = Append(store, victim) /\ proc' = saved
    BY <1>3, <1>8
  <2>2. \A q : InStore(q)' <=> InStore(q) \/ q = victim
    BY <1>1, <1>4, <1>5, <2>1, Stored
  <2>3. Flags' = flag
    BY <1>6, <2>1 DEF Flags
  <2>4. PlacesAgree'
    BY <1>1, <1>2, <1>4, <1>5, <2>2, <2>3 DEF PlacesAgree
  <2> QED
    BY <1>7, <2>1, <2>3, <2>4, MemoryPartsThen
<1>9. CASE Fits(freed, p)
  <2>1. /\ owner' = Allocated(freed, p)
        /\ store' = Append(Tail(store), victim)
        /\ proc' = [saved EXCEPT ![p] = Restored(@)]
    BY <1>3, <1>9
  <2>2. /\ p \in Procs /\ InStore(p)
        /\ Tail(store) \in Seq(Procs) /\ NoRepeat(Tail(store))
        /\ \A q : Has(Tail(store), q) <=> InStore(q) /\ q # p
    <3>1. \A q : InStore(q) <=> Has(store, q)
      BY DEF InStore, Has
    <3> QED
      BY <1>1, <1>2, <3>1, TailHas
  <2>3. \A q : InStore(q)' <=> Has(Tail(store), q) \/ q = victim
    <3>1. ~Has(Tail(store), victim)
      BY <1>5, <2>2
    <3>2. \A q : InStore(q)' <=> Has(store', q)
      BY DEF InStore, Has
    <3> QED
      BY <1>4, <2>1, <2>2, <3>1, <3>2, AppendHas
  <2>4. ~OnCore(p) /\ p \notin finished /\ p # victim /\ ~Flags[p] /\ ~flag[p]
    BY <1>1, <1>5, <2>2 DEF OnePlace, PlacesAgree
  <2>5. \A q \in Procs : Flags'[q] = IF q = p THEN TRUE ELSE flag[q]
    <3> HIDE DEF saved, flag
    <3> QED
      BY <1>6, <2>1, <2>2, RestoredFlag DEF Flags
  <2>6. PlacesAgree'
    BY <1>1, <1>2, <1>4, <1>5, <2>2, <2>3, <2>4, <2>5 DEF PlacesAgree
  <2>7. Agrees(owner', Flags')
    <3> HIDE DEF flag, freed
    <3> QED
      BY <1>7, <1>9, <2>1, <2>2, <2>4, <2>5, AllocatedAgrees
  <2> QED
    BY <2>6, <2>7, MemoryPartsThen
<1> QED
  BY <1>8, <1>9
-----------------------------------------------------------------------------
LEMMA InitMemory == Init => MemoryAgrees
<1> SUFFICES ASSUME Init PROVE MemoryAgrees
  OBVIOUS
<1>1. /\ \A p \in Procs : proc[p].in_memory = FALSE
      /\ \A a \in Addresses : owner[a] = Free
      /\ \A c \in Cores : cpu_cores[c] = NoProc
  BY DEF Init, NewProcess
<1>2. \A p \in Procs : p # Free /\ p # NoProc
  BY Constants
<1> QED
  BY <1>1, <1>2 DEF MemoryAgrees, Resident, OnCore

LEMMA NextMemory ==
  ASSUME Places, MemoryAgrees, [Next]_vars
  PROVE  MemoryAgrees'
<1>1. CASE SchedulerStep
  <2>1. CASE Generate
    <3>1. PICK p \in Procs : Submit(p)
      BY <2>1 DEF Generate, Generable
    <3> QED
      BY <2>1, <3>1, EnqueueMemory DEF Generate
  <2> QED
    BY <1>1, <2>1, QuietSteps, EnqueueMemory, DispatchMemory,
       DispatchToStoreMemory, SwapInMemory, SwapOutAndInMemory
    DEF SchedulerStep
<1>2. ASSUME NEW c \in Cores, CoreLockStep(c) \/ CoreRunStep(c)
      PROVE  MemoryAgrees'
  BY <1>2, QuietCoreSteps, LeaveMemory
  DEF CoreLockStep, CoreRunStep, Instructs, Looks
<1>3. CASE CliStep
  <2>1. ASSUME NEW p \in Procs, screen_start(p)
        PROVE  MemoryAgrees'
    BY <2>1, EnqueueMemory DEF screen_start
  <2> QED
    BY <1>3, <2>1, QuietSteps, QuietCoreSteps DEF CliStep, Shows
<1>4. CASE UNCHANGED vars
  BY <1>4, QuietSteps
<1> QED
  BY <1>1, <1>2, <1>3, <1>4 DEF Next

(* With either scheduler and however the threads interleave, a process     *)
(* whose in_memory flag is set owns one run of addresses of the length it  *)
(* asked for and nothing else, one whose flag is clear owns nothing, and   *)
(* the flag is set on a core and clear in the store and when finished: no  *)
(* swap, dispatch or completion leaks memory or gives it out twice.        *)
THEOREM MemoryIsAccountedFor == Spec => []MemoryAgrees
<1>1. Init => Places /\ MemoryAgrees
  BY InitPlaces, InitMemory
<1>2. (Places /\ MemoryAgrees) /\ [Next]_vars => (Places /\ MemoryAgrees)'
  BY NextPlaces, NextMemory
<1> QED
  BY <1>1, <1>2, PTL DEF Spec
=============================================================================
