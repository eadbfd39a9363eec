-------------------------- MODULE EventLoopProofs --------------------------
(***************************************************************************)
(* Proofs about EventLoop: the inductive invariant IndInv, part by part,   *)
(* and the refinement of Scheduler.                                        *)
(***************************************************************************)
EXTENDS EventLoop, TLAPS

-----------------------------------------------------------------------------
(* Queues. *)

\* Appending to a queue: its type, its elements, and no repetition if x is new.
LEMMA AppendQueue ==
    ASSUME NEW S, NEW q \in Seq(S), NEW x \in S
    PROVE  /\ Append(q, x) \in Seq(S)
           /\ Range(Append(q, x)) = Range(q) \cup {x}
           /\ IsInjective(q) /\ x \notin Range(q) => IsInjective(Append(q, x))
<1> DEFINE r == Append(q, x)
<1>1. /\ r \in Seq(S) /\ Len(r) = Len(q) + 1 /\ DOMAIN r = 1 .. Len(q) + 1
      /\ DOMAIN q = 1 .. Len(q) /\ Len(q) \in Nat
  OBVIOUS
<1>2. \A i \in 1 .. Len(q) : r[i] = q[i]
  OBVIOUS
<1>3. r[Len(q) + 1] = x
  OBVIOUS
<1> HIDE DEF r
<1>4. Range(r) = Range(q) \cup {x}
  BY <1>1, <1>2, <1>3 DEF Range
<1>5. IsInjective(q) /\ x \notin Range(q) => IsInjective(r)
  <2> SUFFICES ASSUME IsInjective(q), x \notin Range(q),
                      NEW i \in 1 .. Len(q) + 1, NEW j \in 1 .. Len(q) + 1,
                      r[i] = r[j]
               PROVE  i = j
    BY <1>1 DEF IsInjective
  <2>1. CASE i \in 1 .. Len(q) /\ j \in 1 .. Len(q)
    BY <2>1, <1>1, <1>2 DEF IsInjective
  <2>2. CASE i = Len(q) + 1 \/ j = Len(q) + 1
    BY <2>2, <1>1, <1>2, <1>3 DEF Range
  <2> QED
    BY <2>1, <2>2, <1>1
<1> QED
  BY <1>1, <1>4, <1>5 DEF r

\* Taking the head off a queue: its type, its elements, and the head does not
\* remain in a queue without repetitions.
LEMMA TailQueue ==
    ASSUME NEW S, NEW q \in Seq(S), q # <<>>
    PROVE  /\ Head(q) \in S /\ Tail(q) \in Seq(S)
           /\ Head(q) \in Range(q)
           /\ Range(q) = Range(Tail(q)) \cup {Head(q)}
           /\ IsInjective(q) => IsInjective(Tail(q)) /\ Head(q) \notin Range(Tail(q))
<1> DEFINE r == Tail(q)
<1>1. /\ r \in Seq(S) /\ Len(q) \in Nat /\ Len(q) > 0
      /\ DOMAIN r = 1 .. Len(q) - 1 /\ DOMAIN q = 1 .. Len(q)
      /\ Head(q) = q[1] /\ Head(q) \in S
  OBVIOUS
<1>2. \A i \in 1 .. Len(q) - 1 : r[i] = q[i + 1]
  OBVIOUS
<1> HIDE DEF r
<1>3. Range(q) = Range(r) \cup {Head(q)}
  <2>1. ASSUME NEW y \in Range(q) PROVE y \in Range(r) \cup {Head(q)}
    <3>1. PICK i \in 1 .. Len(q) : q[i] = y
      BY <1>1 DEF Range
    <3>2. CASE i = 1
      BY <3>1, <3>2, <1>1
    <3>3. CASE i # 1
      <4>1. i - 1 \in 1 .. Len(q) - 1 /\ (i - 1) + 1 = i
        BY <3>3, <1>1
      <4> QED
        <5>1. r[i - 1] = q[(i - 1) + 1]
          BY <4>1, <1>2
        <5>2. r[i - 1] = y /\ i - 1 \in DOMAIN r
          BY <4>1, <5>1, <3>1, <1>1
        <5> QED
          BY <5>2 DEF Range
    <3> QED
      BY <3>2, <3>3
  <2>2. ASSUME NEW i \in 1 .. Len(q) - 1 PROVE r[i] \in Range(q)
    <3>1. i + 1 \in 1 .. Len(q)
      BY <1>1
    <3> QED
      BY <3>1, <1>1, <1>2 DEF Range
  <2>3. Head(q) \in Range(q)
    <3>1. 1 \in 1 .. Len(q)
      BY <1>1
    <3> QED
      BY <3>1, <1>1 DEF Range
  <2> QED
    BY <2>1, <2>2, <2>3, <1>1 DEF Range
<1>4. IsInjective(q) => IsInjective(r) /\ Head(q) \notin Range(r)
  <2> SUFFICES ASSUME IsInjective(q) PROVE IsInjective(r) /\ Head(q) \notin Range(r)
    OBVIOUS
  <2>1. \A i, j \in 1 .. Len(q) : q[i] = q[j] => i = j
    BY <1>1 DEF IsInjective
  <2>2. \A i, j \in 1 .. Len(q) - 1 : r[i] = r[j] => i = j
    BY <2>1, <1>1, <1>2
  <2>3. \A i \in 1 .. Len(q) - 1 : r[i] # q[1]
    BY <2>1, <1>1, <1>2
  <2> QED
    BY <2>2, <2>3, <1>1 DEF IsInjective, Range
<1> QED
  BY <1>1, <1>3, <1>4 DEF r

-----------------------------------------------------------------------------
(* The task table. *)

\* add_task changes one slot, occupies it with c, and keeps the others.
LEMMA StoredTask ==
    ASSUME TypeOK, NEW c \in Callback, NEW i \in 1 .. Len(tasks) + 1
    PROVE  /\ Stored(i, c) \in Seq(Callback \cup {Free})
           /\ i \in DOMAIN Stored(i, c) /\ Stored(i, c)[i] = c
           /\ DOMAIN tasks \subseteq DOMAIN Stored(i, c)
           /\ DOMAIN Stored(i, c) \subseteq DOMAIN tasks \cup {i}
           /\ \A j \in DOMAIN Stored(i, c) \ {i} :
                 j \in DOMAIN tasks /\ Stored(i, c)[j] = tasks[j]
<1> DEFINE S == Callback \cup {Free}
<1>1. tasks \in Seq(S) /\ c \in S /\ Len(tasks) \in Nat
      /\ DOMAIN tasks = 1 .. Len(tasks)
  BY DEF TypeOK
<1>2. CASE i <= Len(tasks)
  BY <1>1, <1>2 DEF Stored
<1>3. CASE ~(i <= Len(tasks))
  <2>1. i = Len(tasks) + 1 /\ Stored(i, c) = Append(tasks, c)
    BY <1>1, <1>3 DEF Stored
  <2> QED
    BY <1>1, <2>1
<1> QED
  BY <1>2, <1>3

\* delete_task, or take, changes one slot and keeps the length of the table.
LEMMA VacatedTask ==
    ASSUME TypeOK, NEW i \in DOMAIN tasks
    PROVE  /\ Vacated(i) \in Seq(Callback \cup {Free})
           /\ DOMAIN Vacated(i) = DOMAIN tasks
           /\ Vacated(i)[i] = Free
           /\ \A j \in DOMAIN tasks : j # i => Vacated(i)[j] = tasks[j]
  BY DEF TypeOK, Vacated

-----------------------------------------------------------------------------
(* Type correctness. *)

\* A clearTimeout that finds a timer takes a registered timer out.
LEMMA FoundTimer ==
    ASSUME IndInv, NEW c \in Callback, kind[c] = "Timeout"
    PROVE  /\ handle[c] \in DOMAIN tasks
           /\ TimerAt(handle[c]) =>
                 /\ tasks[handle[c]] \in Callback
                 /\ handle[c] \in Occupied
                 /\ kind[tasks[handle[c]]] = "Timeout"
<1>1. handle[c] \in DOMAIN tasks
  BY DEF IndInv, HandlesNameSlots
<1>2. \A i \in DOMAIN tasks : tasks[i] \in Callback \cup {Free}
  BY DEF IndInv, TypeOK
<1> QED
  BY <1>1, <1>2 DEF TimerAt, Occupied

\* The first event of a batch is an event for a slot of the table.
LEMMA HeadEvent ==
    ASSUME IndInv, batch # <<>>
    PROVE  /\ 1 \in DOMAIN batch /\ Head(batch) = batch[1]
           /\ Head(batch) \in Event
           /\ Head(batch).slot \in DOMAIN tasks
           /\ Head(batch).type = kind[Head(batch).for]
           /\ Tail(batch) \in Seq(Event)
           /\ DOMAIN Tail(batch) = 1 .. Len(batch) - 1
           /\ \A i \in DOMAIN Tail(batch) :
                 i + 1 \in DOMAIN batch /\ Tail(batch)[i] = batch[i + 1]
<1>1. batch \in Seq(Event)
  BY DEF IndInv, TypeOK
<1>2. /\ 1 \in DOMAIN batch /\ Head(batch) = batch[1] /\ Head(batch) \in Event
      /\ Tail(batch) \in Seq(Event)
      /\ DOMAIN Tail(batch) = 1 .. Len(batch) - 1
      /\ \A i \in DOMAIN Tail(batch) :
            i + 1 \in DOMAIN batch /\ Tail(batch)[i] = batch[i + 1]
  BY <1>1
<1> QED
  BY <1>2 DEF IndInv, BatchWellFormed

\* The state main starts in has the right types.
LEMMA TypeInit == Init => TypeOK
<1> SUFFICES ASSUME Init PROVE TypeOK
  OBVIOUS
<1>1. \A S : <<>> \in Seq(S)
  OBVIOUS
<1>2. jobs \in Seq(Callback) /\ ticks \in Seq(Callback)
      /\ tasks \in Seq(Callback \cup {Free}) /\ batch \in Seq(Event)
  BY <1>1 DEF Init
<1>3. kind \in [Callback -> Kind] /\ due \in [Callback -> Nat]
      /\ handle \in [Callback -> Nat]
  BY DEF Init, Kind
<1> QED
  BY <1>2, <1>3 DEF Init, TypeOK, Phase

\* Every step of main, of the loop and of a frame keeps the types.
LEMMA TypeStep == ASSUME IndInv, [Next]_vars PROVE TypeOK'
<1> USE DEF loop, queues, record, history
<1>0. TypeOK
  BY DEF IndInv
<1>1. ASSUME NEW c \in Callback, NEW d \in Delay, SetTimeout(c, d) PROVE TypeOK'
  <2>1. PICK i \in 1 .. Len(tasks) + 1 :
          AddTask(c, "Timeout", i) /\ handle' = [handle EXCEPT ![c] = i]
    BY <1>1 DEF SetTimeout
  <2>2. tasks' \in Seq(Callback \cup {Free})
    BY <1>0, <2>1, StoredTask DEF AddTask
  <2>3. i \in Nat /\ now + d \in Nat
    BY <1>0, TimeAssumption DEF TypeOK
  <2> QED
    BY <1>0, <1>1, <2>1, <2>2, <2>3 DEF SetTimeout, AddTask, TypeOK, Kind, Poller
<1>2. ASSUME NEW c \in Callback, NEW k \in {"FdRead", "FdWrite"}, FdTask(c, k)
      PROVE TypeOK'
  <2>1. PICK i \in 1 .. Len(tasks) + 1 : AddTask(c, k, i)
    BY <1>2 DEF FdTask
  <2>2. tasks' \in Seq(Callback \cup {Free})
    BY <1>0, <2>1, StoredTask DEF AddTask
  <2> QED
    BY <1>0, <1>2, <2>1, <2>2 DEF FdTask, AddTask, TypeOK, Kind, Poller
<1>3. ASSUME NEW c \in Callback, NextTick(c) PROVE TypeOK'
  <2>1. ticks' \in Seq(Callback)
    BY <1>0, <1>3, AppendQueue DEF NextTick, TypeOK
  <2> QED
    BY <1>0, <1>3, <2>1 DEF NextTick, TypeOK, Kind
<1>4. ASSUME NEW c \in Callback, EnqueueJob(c) PROVE TypeOK'
  <2>1. jobs' \in Seq(Callback)
    BY <1>0, <1>4, AppendQueue DEF EnqueueJob, TypeOK
  <2> QED
    BY <1>0, <1>4, <2>1 DEF EnqueueJob, TypeOK, Kind
<1>5. ASSUME NEW c \in Callback, ClearTimeout(c) PROVE TypeOK'
  <2>1. /\ handle[c] \in DOMAIN tasks
        /\ TimerAt(handle[c]) => tasks[handle[c]] \in Callback
    BY <1>5, FoundTimer DEF ClearTimeout
  <2>2. tasks' \in Seq(Callback \cup {Free}) /\ cancelled' \in SUBSET Callback
    BY <1>0, <1>5, <2>1, VacatedTask DEF ClearTimeout, TypeOK
  <2> QED
    BY <1>0, <1>5, <2>2 DEF ClearTimeout, TypeOK
<1>6. ASSUME Return \/ JobThrows \/ Exit PROVE TypeOK'
  BY <1>0, <1>6 DEF Return, JobThrows, Exit, FrameEnds, TypeOK, Phase, Over
<1>7. ASSUME RunJob PROVE TypeOK'
  BY <1>0, <1>7, TailQueue DEF RunJob, TypeOK
<1>8. ASSUME RunTick PROVE TypeOK'
  BY <1>0, <1>8, TailQueue DEF RunTick, TypeOK
<1>9. ASSUME EnterLoop \/ BeginRunOnce \/ EndTicks \/ LoopEnds \/ PollFails
             \/ EndBatch
      PROVE TypeOK'
  BY <1>0, <1>9 DEF EnterLoop, BeginRunOnce, EndTicks, LoopEnds, PollFails, EndBatch,
              TypeOK, Phase, Over
<1>10. ASSUME Poll PROVE TypeOK'
  <2>0. PICK n \in 1 .. Len(tasks) : \E order \in [1 .. n -> Ready] :
          batch' = [k \in 1 .. n |-> EventAt(order[k])]
    BY <1>10 DEF Poll
  <2>1. PICK order \in [1 .. n -> Ready] :
          batch' = [k \in 1 .. n |-> EventAt(order[k])]
    BY <2>0
  <2>2. ASSUME NEW k \in 1 .. n PROVE EventAt(order[k]) \in Event
    <3>1. order[k] \in Occupied
      BY DEF Ready
    <3>2. order[k] \in Nat \ {0} /\ tasks[order[k]] \in Callback
      BY <1>0, <3>1 DEF Occupied, TypeOK
    <3>3. kind[tasks[order[k]]] \in Poller
      BY <3>1 DEF HeldOnce, IndInv
    <3> QED
      BY <3>2, <3>3 DEF EventAt, Event
  <2>3. batch' \in Seq(Event)
    <3>1. n \in Nat
      BY <1>0 DEF TypeOK
    <3> QED
      BY <2>1, <2>2, <3>1
  <2> QED
    BY <1>0, <1>10, <2>3 DEF Poll, TypeOK, Phase
<1>11. ASSUME NEW e \in Range(batch), HandleEvent(e),
              EventForVacant \/ EventMatches \/ EventMismatch
       PROVE TypeOK'
  <2>1. batch # <<>> /\ batch' = Tail(batch)
    BY <1>11 DEF HandleEvent
  <2>2. batch' \in Seq(Event)
    BY <2>1, HeadEvent
  <2>3. ASSUME NEW h \in DOMAIN tasks
        PROVE /\ tasks[h] # Free => tasks[h] \in Callback
              /\ Vacated(h) \in Seq(Callback \cup {Free})
    BY <1>0, VacatedTask DEF TypeOK
  <2>4. Head(batch).slot \in DOMAIN tasks
    BY <2>1, HeadEvent
  <2>5. tasks' \in Seq(Callback \cup {Free}) /\ running' \in Callback \cup {Main, Idle}
        /\ dropped' \in SUBSET Callback
    BY <1>0, <1>11, <2>1, <2>3, <2>4 DEF EventForVacant, EventMatches, EventMismatch,
                                   HandleEvent, TypeOK
  <2> QED
    BY <1>0, <1>11, <2>2, <2>5 DEF HandleEvent, TypeOK
<1>12. ASSUME Advance PROVE TypeOK'
  BY <1>0, <1>12 DEF Advance, TypeOK
<1>13. ASSUME UNCHANGED vars PROVE TypeOK'
  BY <1>0, <1>13 DEF vars, TypeOK
<1> QED
  BY <1>1, <1>2, <1>3, <1>4, <1>5, <1>6, <1>7, <1>8, <1>9, <1>10, <1>11, <1>12,
     <1>13 DEF Next, ScriptStep, LoopStep, FdRead, FdWrite, Terminated,
               EventForVacant, EventMatches, EventMismatch

-----------------------------------------------------------------------------
(* Where the registrations are: HeldOnce, FreshIsNowhere, NothingLost. *)

Tasks == Range(tasks) \ {Free}

\* add_task adds exactly c to the tasks held, once, with its own slot.
LEMMA TasksAfterStore ==
    ASSUME IndInv, NEW c \in Callback, NEW k \in Poller,
           NEW i \in 1 .. Len(tasks) + 1, AddTask(c, k, i)
    PROVE  /\ Tasks' = Tasks \cup {c}
           /\ \A j, m \in Occupied' : tasks'[j] = tasks'[m] => j = m
           /\ \A j \in Occupied' : kind'[tasks'[j]] \in Poller
<1>0. TypeOK /\ FreshIsNowhere /\ HeldOnce
  BY DEF IndInv
<1>1. /\ i \in DOMAIN tasks' /\ tasks'[i] = c
      /\ DOMAIN tasks \subseteq DOMAIN tasks'
      /\ \A j \in DOMAIN tasks' \ {i} :
            j \in DOMAIN tasks /\ tasks'[j] = tasks[j]
  BY <1>0, StoredTask DEF AddTask
<1>2. i \in DOMAIN tasks => tasks[i] = Free
  BY <1>0 DEF AddTask, FirstVacant, TypeOK
<1>3. c # Free
  BY FrameAssumption
<1>4. c \notin Range(tasks)
  BY <1>0, <1>3 DEF FreshIsNowhere, AddTask, Held
<1>5. \A j \in Occupied' : j # i => j \in Occupied /\ tasks'[j] = tasks[j]
  BY <1>1 DEF Occupied
<1>6. Tasks' = Tasks \cup {c}
  <2>1. Tasks' \subseteq Tasks \cup {c}
    BY <1>1 DEF Tasks, Range
  <2>2. c \in Tasks'
    BY <1>1, <1>3 DEF Tasks, Range
  <2>3. \A j \in DOMAIN tasks : tasks[j] # Free => j # i /\ tasks'[j] = tasks[j]
    BY <1>1, <1>2
  <2>4. Tasks \subseteq Tasks'
    BY <2>3, <1>1 DEF Tasks, Range
  <2> QED
    BY <2>1, <2>2, <2>4
<1>7. \A j \in Occupied : tasks[j] # c
  BY <1>4 DEF Occupied, Range
<1>8. \A j, m \in Occupied' : tasks'[j] = tasks'[m] => j = m
  BY <1>0, <1>1, <1>5, <1>7 DEF HeldOnce
<1>9. \A j \in Occupied' : kind'[tasks'[j]] \in Poller
  <2> SUFFICES ASSUME NEW j \in Occupied' PROVE kind'[tasks'[j]] \in Poller
    OBVIOUS
  <2>1. CASE j = i
    BY <2>1, <1>0, <1>1 DEF AddTask, TypeOK
  <2>2. CASE j # i
    <3>1. j \in Occupied /\ tasks'[j] = tasks[j] /\ tasks[j] # c
      BY <2>2, <1>5, <1>7
    <3>2. tasks[j] \in Callback /\ kind[tasks[j]] \in Poller
      BY <3>1, <1>0 DEF Occupied, TypeOK, HeldOnce
    <3>3. kind'[tasks[j]] = kind[tasks[j]]
      BY <3>1, <3>2, <1>0 DEF AddTask, TypeOK
    <3> QED
      BY <3>1, <3>2, <3>3
  <2> QED
    BY <2>1, <2>2
<1> QED
  BY <1>6, <1>8, <1>9

\* Emptying a slot takes exactly its task out of those held.
LEMMA TasksAfterVacate ==
    ASSUME TypeOK, HeldOnce, NEW i \in Occupied, tasks' = Vacated(i),
           UNCHANGED kind
    PROVE  /\ tasks[i] \in Callback /\ tasks[i] \in Tasks
           /\ Tasks' = Tasks \ {tasks[i]}
           /\ \A j \in Occupied' : j \in Occupied /\ tasks'[j] = tasks[j]
           /\ \A j, m \in Occupied' : tasks'[j] = tasks'[m] => j = m
           /\ \A j \in Occupied' : kind'[tasks'[j]] \in Poller
<1>1. i \in DOMAIN tasks /\ tasks[i] # Free
  BY DEF Occupied
<1>2. /\ DOMAIN tasks' = DOMAIN tasks /\ tasks'[i] = Free
      /\ \A j \in DOMAIN tasks : j # i => tasks'[j] = tasks[j]
  BY <1>1, VacatedTask
<1>3. tasks[i] \in Callback /\ tasks[i] \in Tasks
  BY <1>1 DEF TypeOK, Tasks, Range
<1>4. \A j \in DOMAIN tasks : j # i /\ tasks[j] # Free => tasks[j] # tasks[i]
  BY <1>1 DEF HeldOnce, Occupied
<1>5. Tasks' = Tasks \ {tasks[i]}
  BY <1>2, <1>4 DEF Tasks, Range
<1>6. \A j \in Occupied' : j \in Occupied /\ tasks'[j] = tasks[j]
  BY <1>2 DEF Occupied
<1> QED
  BY <1>3, <1>5, <1>6 DEF HeldOnce

\* At the start nothing is registered, so nothing is anywhere.
LEMMA PlacesInit == Init => Places
<1> SUFFICES ASSUME Init PROVE Places
  OBVIOUS
<1>1. jobs = <<>> /\ ticks = <<>> /\ tasks = <<>> /\ running = Main
      /\ done = {} /\ cancelled = {} /\ dropped = {}
      /\ \A c \in Callback : kind[c] = "New"
  BY DEF Init
<1>2. DOMAIN jobs = {} /\ DOMAIN ticks = {} /\ DOMAIN tasks = {}
  BY <1>1
<1>3. Held = {} /\ Settled = {} /\ Occupied = {}
  BY <1>1, <1>2 DEF Held, Settled, Occupied, Range
<1> QED
  BY <1>1, <1>2, <1>3, FrameAssumption
     DEF Places, HeldOnce, FreshIsNowhere, NothingLost, IsInjective, Range

\* Every step leaves each registration in one place: the closures are moved
\* between queue, slot, frame and history, never copied and never lost.
LEMMA PlacesStep == ASSUME IndInv, [Next]_vars PROVE Places'
<1> USE DEF loop, queues, record, history
<1>0. TypeOK /\ HeldOnce /\ FreshIsNowhere /\ NothingLost
  BY DEF IndInv
<1>00. /\ Held = Range(jobs) \cup Range(ticks) \cup Tasks
       /\ Held' = Range(jobs)' \cup Range(ticks)' \cup Tasks'
       /\ Held \subseteq Callback
  BY <1>0 DEF Held, Tasks, TypeOK, Range
<1>a. ASSUME NEW c \in Callback, NEW k \in Poller,
             NEW i \in 1 .. Len(tasks) + 1, AddTask(c, k, i)
      PROVE Places'
  <2>1. /\ Tasks' = Tasks \cup {c}
        /\ \A j, m \in Occupied' : tasks'[j] = tasks'[m] => j = m
        /\ \A j \in Occupied' : kind'[tasks'[j]] \in Poller
    BY <1>a, TasksAfterStore
  <2>2. /\ UNCHANGED <<jobs, ticks, running, Settled>>
        /\ kind[c] = "New" /\ kind' = [kind EXCEPT ![c] = k] /\ k # "New"
    BY <1>a DEF AddTask, Settled, Poller
  <2>3. c \notin Held \cup {running} \cup Settled
    BY <1>0, <2>2 DEF FreshIsNowhere
  <2>4. Held' = Held \cup {c}
    BY <1>00, <2>1, <2>2 DEF Range
  <2>5. \A x \in Callback : x # c => kind'[x] = kind[x]
    BY <1>0, <2>2 DEF TypeOK
  <2>6. kind'[c] # "New"
    BY <1>0, <2>2 DEF TypeOK
  <2>7. \A x \in Range(jobs) \cup Range(ticks) : x \in Callback /\ x # c
    BY <1>00, <2>3
  <2>8. HeldOnce'
    <3>1. IsInjective(jobs)' /\ IsInjective(ticks)'
      BY <1>0, <2>2 DEF HeldOnce
    <3>2. /\ \A x \in Range(jobs)' : kind'[x] = "Job"
          /\ \A x \in Range(ticks)' : kind'[x] = "Tick"
      BY <1>0, <2>2, <2>5, <2>7 DEF HeldOnce
    <3>3. running' \notin Held' /\ Held' \cap Settled' = {}
          /\ running' \notin Settled'
      BY <1>0, <2>2, <2>3, <2>4 DEF HeldOnce
    <3>4. (done \cap cancelled = {} /\ done \cap dropped = {}
            /\ cancelled \cap dropped = {})'
      BY <1>0, <1>a DEF HeldOnce, AddTask
    <3> QED
      BY <2>1, <3>1, <3>2, <3>3, <3>4 DEF HeldOnce
  <2>9. FreshIsNowhere'
    BY <1>0, <2>2, <2>4, <2>5, <2>6 DEF FreshIsNowhere
  <2>10. NothingLost'
    BY <1>0, <2>2, <2>4, <2>5 DEF NothingLost
  <2> QED
    BY <2>8, <2>9, <2>10 DEF Places
<1>1. ASSUME NEW c \in Callback, NEW d \in Delay, SetTimeout(c, d) PROVE Places'
  BY <1>1, <1>a DEF SetTimeout, Poller
<1>2. ASSUME NEW c \in Callback, FdRead(c) \/ FdWrite(c) PROVE Places'
  BY <1>2, <1>a DEF FdRead, FdWrite, FdTask, Poller
<1>b. ASSUME UNCHANGED tasks PROVE Tasks' = Tasks /\ Occupied' = Occupied
  BY <1>b DEF Tasks, Occupied, Range
<1>3. ASSUME NEW c \in Callback, NextTick(c) \/ EnqueueJob(c) PROVE Places'
  <2>1. /\ UNCHANGED <<running, tasks, done, cancelled, dropped, Settled, Occupied, Tasks>>
        /\ kind[c] = "New"
    BY <1>3, <1>b DEF NextTick, EnqueueJob, Settled
  <2>2. PICK k \in {"Tick", "Job"} :
          /\ kind' = [kind EXCEPT ![c] = k]
          /\ k = "Tick" => ticks' = Append(ticks, c) /\ UNCHANGED jobs
          /\ k = "Job" => jobs' = Append(jobs, c) /\ UNCHANGED ticks
    BY <1>3 DEF NextTick, EnqueueJob
  <2>3. c \notin Held \cup {running} \cup Settled
    BY <1>0, <2>1 DEF FreshIsNowhere
  <2>4. \A x \in Callback : x # c => kind'[x] = kind[x]
    BY <1>0, <2>2 DEF TypeOK
  <2>5. kind'[c] = k /\ k # "New"
    BY <1>0, <2>2 DEF TypeOK
  <2>6. /\ Range(ticks)' = IF k = "Tick" THEN Range(ticks) \cup {c} ELSE Range(ticks)
        /\ Range(jobs)' = IF k = "Job" THEN Range(jobs) \cup {c} ELSE Range(jobs)
        /\ IsInjective(jobs)' /\ IsInjective(ticks)'
    <3>1. CASE k = "Tick"
      <4>1. ticks' = Append(ticks, c) /\ jobs' = jobs
        BY <3>1, <2>2
      <4>2. ticks \in Seq(Callback) /\ IsInjective(ticks) /\ c \notin Range(ticks)
        BY <1>0, <1>00, <2>3 DEF TypeOK, HeldOnce
      <4>3. /\ Range(Append(ticks, c)) = Range(ticks) \cup {c}
            /\ IsInjective(Append(ticks, c))
        BY <4>2, AppendQueue
      <4> QED
        BY <3>1, <4>1, <4>3, <1>0 DEF HeldOnce
    <3>2. CASE k = "Job"
      <4>1. jobs' = Append(jobs, c) /\ ticks' = ticks
        BY <3>2, <2>2
      <4>2. jobs \in Seq(Callback) /\ IsInjective(jobs) /\ c \notin Range(jobs)
        BY <1>0, <1>00, <2>3 DEF TypeOK, HeldOnce
      <4>3. /\ Range(Append(jobs, c)) = Range(jobs) \cup {c}
            /\ IsInjective(Append(jobs, c))
        BY <4>2, AppendQueue
      <4> QED
        BY <3>2, <4>1, <4>3, <1>0 DEF HeldOnce
    <3> QED
      BY <3>1, <3>2
  <2>7. Held' = Held \cup {c}
    BY <1>00, <2>1, <2>6
  <2>8. HeldOnce'
    <3>1. /\ \A x \in Range(jobs)' : kind'[x] = "Job"
          /\ \A x \in Range(ticks)' : kind'[x] = "Tick"
      BY <1>0, <1>00, <2>3, <2>4, <2>5, <2>6 DEF HeldOnce
    <3>2. \A i \in Occupied' : kind'[tasks'[i]] \in Poller
      <4>1. ASSUME NEW i \in Occupied PROVE tasks[i] \in Callback /\ tasks[i] # c
        BY <1>0, <1>00, <2>3 DEF Occupied, Tasks, Range, TypeOK
      <4> QED
        BY <4>1, <1>0, <2>1, <2>4 DEF HeldOnce
    <3>3. running' \notin Held' /\ Held' \cap Settled' = {}
          /\ running' \notin Settled'
      BY <1>0, <2>1, <2>3, <2>7 DEF HeldOnce
    <3> QED
      BY <1>0, <2>1, <2>6, <3>1, <3>2, <3>3 DEF HeldOnce
  <2>9. FreshIsNowhere' /\ NothingLost'
    BY <1>0, <2>1, <2>4, <2>5, <2>7 DEF FreshIsNowhere, NothingLost
  <2> QED
    BY <2>8, <2>9 DEF Places
<1>4. ASSUME UNCHANGED <<jobs, ticks, tasks, kind, running, done, cancelled, dropped>>
      PROVE Places'
  <2>1. UNCHANGED <<Held, Settled, Occupied>>
    BY <1>4 DEF Held, Settled, Occupied, Range
  <2> QED
    BY <2>1, <1>0, <1>4 DEF Places, HeldOnce, FreshIsNowhere, NothingLost, IsInjective, Range
<1>5. ASSUME NEW c \in Callback, ClearTimeout(c) PROVE Places'
  <2>1. CASE ~TimerAt(handle[c])
    BY <2>1, <1>5, <1>4 DEF ClearTimeout
  <2>2. CASE TimerAt(handle[c])
    <3> DEFINE i == handle[c]
               x == tasks[i]
    <3>1. i \in Occupied /\ kind[x] = "Timeout"
      BY <1>5, <2>2, FoundTimer DEF ClearTimeout
    <3>2. /\ tasks' = Vacated(i) /\ cancelled' = cancelled \cup {x}
          /\ UNCHANGED <<jobs, ticks, kind, running, done, dropped>>
      BY <1>5, <2>2 DEF ClearTimeout
    <3>3. /\ x \in Callback /\ x \in Tasks /\ Tasks' = Tasks \ {x}
          /\ \A j, m \in Occupied' : tasks'[j] = tasks'[m] => j = m
          /\ \A j \in Occupied' : kind'[tasks'[j]] \in Poller
      BY <1>0, <3>1, <3>2, TasksAfterVacate
    <3>4. x \notin Range(jobs) /\ x \notin Range(ticks)
      BY <1>0, <3>1 DEF HeldOnce
    <3>5. /\ Held' = Held \ {x} /\ Settled' = Settled \cup {x}
          /\ x \in Held /\ x # running /\ x \notin Settled
      BY <1>0, <1>00, <3>2, <3>3, <3>4 DEF Settled, HeldOnce, Range
    <3>6. HeldOnce'
      BY <1>0, <3>2, <3>3, <3>5 DEF HeldOnce, Settled, IsInjective, Range
    <3>7. FreshIsNowhere' /\ NothingLost'
      BY <1>0, <3>1, <3>2, <3>5 DEF FreshIsNowhere, NothingLost
    <3> QED
      BY <3>6, <3>7 DEF Places
  <2> QED
    BY <2>1, <2>2
<1>6. ASSUME Return \/ JobThrows \/ Exit PROVE Places'
  <2>1. /\ UNCHANGED <<jobs, ticks, tasks, kind, cancelled, dropped>>
        /\ done' = done \cup ({running} \cap Callback) /\ running' = Idle
    BY <1>6 DEF Return, JobThrows, Exit, FrameEnds
  <2>2. /\ UNCHANGED <<Held, Occupied>>
        /\ Settled' = Settled \cup ({running} \cap Callback)
    BY <2>1 DEF Held, Settled, Occupied, Range
  <2>3. Idle \notin Held /\ Idle \notin Settled'
    BY <1>0, <1>00, <2>2, FrameAssumption DEF TypeOK, Settled
  <2>4. HeldOnce'
    BY <1>0, <2>1, <2>2, <2>3 DEF HeldOnce, Settled, IsInjective, Range
  <2>5. FreshIsNowhere' /\ NothingLost'
    BY <1>0, <2>1, <2>2, FrameAssumption DEF FreshIsNowhere, NothingLost
  <2> QED
    BY <2>4, <2>5 DEF Places
<1>7. ASSUME RunJob \/ RunTick PROVE Places'
  <2>1. /\ UNCHANGED <<tasks, kind, done, cancelled, dropped, Settled, Tasks, Occupied>>
        /\ running = Idle
    BY <1>7, <1>b DEF RunJob, RunTick, At, Settled
  <2>2. /\ running' \in Range(jobs) \cup Range(ticks) /\ running' \in Callback
        /\ running' \notin Range(jobs)' \cup Range(ticks)'
        /\ Range(jobs) \cup Range(ticks)
              = Range(jobs)' \cup Range(ticks)' \cup {running'}
        /\ Range(jobs)' \subseteq Range(jobs)
        /\ Range(ticks)' \subseteq Range(ticks)
        /\ IsInjective(jobs)' /\ IsInjective(ticks)'
    <3>1. CASE RunJob
      <4>1. running' = Head(jobs) /\ jobs' = Tail(jobs) /\ jobs # <<>> /\ ticks' = ticks
        BY <3>1 DEF RunJob
      <4>2. /\ Head(jobs) \in Callback /\ Head(jobs) \in Range(jobs)
            /\ Range(jobs) = Range(Tail(jobs)) \cup {Head(jobs)}
            /\ IsInjective(Tail(jobs)) /\ Head(jobs) \notin Range(Tail(jobs))
        BY <4>1, <1>0, TailQueue DEF TypeOK, HeldOnce
      <4>3. Head(jobs) \notin Range(ticks)
        BY <4>2, <1>0 DEF HeldOnce
      <4> QED
        BY <4>1, <4>2, <4>3, <1>0 DEF HeldOnce
    <3>2. CASE RunTick
      <4>1. running' = Head(ticks) /\ ticks' = Tail(ticks) /\ ticks # <<>> /\ jobs' = jobs
        BY <3>2 DEF RunTick
      <4>2. /\ Head(ticks) \in Callback /\ Head(ticks) \in Range(ticks)
            /\ Range(ticks) = Range(Tail(ticks)) \cup {Head(ticks)}
            /\ IsInjective(Tail(ticks)) /\ Head(ticks) \notin Range(Tail(ticks))
        BY <4>1, <1>0, TailQueue DEF TypeOK, HeldOnce
      <4>3. Head(ticks) \notin Range(jobs)
        BY <4>2, <1>0 DEF HeldOnce
      <4> QED
        BY <4>1, <4>2, <4>3, <1>0 DEF HeldOnce
    <3> QED
      BY <1>7, <3>1, <3>2
  <2>3. running' \notin Tasks
    <3>1. \A x \in Tasks : kind[x] \in Poller
      BY <1>0 DEF HeldOnce, Tasks, Occupied, Range
    <3>2. kind[running'] \in {"Job", "Tick"}
      BY <2>2, <1>0 DEF HeldOnce
    <3> QED
      BY <3>1, <3>2 DEF Poller
  <2>4. /\ Held = Held' \cup {running'} /\ running' \in Held
        /\ running' \notin Held' /\ running' \notin Settled
    BY <2>1, <2>2, <2>3, <1>00, <1>0 DEF HeldOnce
  <2>5. HeldOnce'
    BY <1>0, <2>1, <2>2, <2>4 DEF HeldOnce
  <2>6. FreshIsNowhere' /\ NothingLost'
    BY <1>0, <2>1, <2>4, FrameAssumption DEF FreshIsNowhere, NothingLost
  <2> QED
    BY <2>5, <2>6 DEF Places
<1>8. ASSUME EventMatches \/ EventMismatch PROVE Places'
  <2>1. PICK e \in Range(batch) :
          /\ HandleEvent(e) /\ tasks[e.slot] # Free /\ tasks' = Vacated(e.slot)
          /\ \/ running' = tasks[e.slot] /\ UNCHANGED dropped
             \/ dropped' = dropped \cup {tasks[e.slot]} /\ UNCHANGED running
    BY <1>8 DEF EventMatches, EventMismatch
  <2> DEFINE i == e.slot
             x == tasks[i]
  <2>2. i \in Occupied
    BY <2>1, HeadEvent DEF HandleEvent, Occupied
  <2>3. UNCHANGED <<jobs, ticks, kind, done, cancelled>> /\ running = Idle
    BY <2>1 DEF HandleEvent, At
  <2>4. /\ x \in Callback /\ x \in Tasks /\ Tasks' = Tasks \ {x}
        /\ \A j, m \in Occupied' : tasks'[j] = tasks'[m] => j = m
        /\ \A j \in Occupied' : kind'[tasks'[j]] \in Poller
    BY <1>0, <2>1, <2>2, <2>3, TasksAfterVacate
  <2>5. x \notin Range(jobs) /\ x \notin Range(ticks)
    BY <1>0, <2>2 DEF HeldOnce, Poller
  <2>6. Held' = Held \ {x} /\ x \in Held /\ x \notin Settled /\ x # Idle
    BY <1>0, <1>00, <2>3, <2>4, <2>5, FrameAssumption DEF HeldOnce, Range
  <2>7. \/ running' = x /\ Settled' = Settled /\ UNCHANGED dropped
        \/ running' = Idle /\ Settled' = Settled \cup {x}
             /\ dropped' = dropped \cup {x}
    BY <2>1, <2>3 DEF Settled
  <2>8. HeldOnce'
    BY <1>0, <2>3, <2>4, <2>6, <2>7 DEF HeldOnce, Settled, IsInjective, Range
  <2>9. kind[x] # "New"
    BY <1>0, <2>2 DEF HeldOnce, Poller
  <2>10. FreshIsNowhere' /\ NothingLost'
    BY <1>0, <2>3, <2>6, <2>7, <2>9, FrameAssumption DEF FreshIsNowhere, NothingLost
  <2> QED
    BY <2>8, <2>10 DEF Places
<1>9. ASSUME EventForVacant PROVE Places'
  BY <1>9, <1>4 DEF EventForVacant, HandleEvent
<1>10. ASSUME \/ EnterLoop \/ BeginRunOnce \/ EndTicks \/ LoopEnds \/ PollFails
              \/ Poll \/ EndBatch \/ Advance \/ UNCHANGED vars
       PROVE Places'
  BY <1>10, <1>4 DEF EnterLoop, BeginRunOnce, EndTicks, LoopEnds, PollFails, Poll,
                     EndBatch, Advance, vars
<1> QED
  BY <1>1, <1>2, <1>3, <1>5, <1>6, <1>7, <1>8, <1>9, <1>10
     DEF Next, ScriptStep, LoopStep, Terminated

-----------------------------------------------------------------------------
(* When the loop polls and when it ends. *)

\* The order of js_loop and run_once holds at the start.
LEMMA DisciplineInit == Init => LoopDiscipline
  BY DEF Init, LoopDiscipline, Over

\* Every step keeps the order of js_loop and run_once: jobs are drained before
\* ticks, ticks before poll, and nothing runs once the process is gone.
LEMMA DisciplineStep == ASSUME IndInv, [Next]_vars PROVE LoopDiscipline'
<1> USE DEF loop, queues, record, history, Over
<1>0. TypeOK /\ LoopDiscipline
  BY DEF IndInv
<1>1. ASSUME NEW c \in Callback,
             \/ \E d \in Delay : SetTimeout(c, d)
             \/ FdRead(c) \/ FdWrite(c) \/ NextTick(c)
             \/ EnqueueJob(c) \/ ClearTimeout(c)
      PROVE LoopDiscipline'
  <2>1. running # Idle /\ UNCHANGED loop
    BY <1>1, FrameAssumption
       DEF SetTimeout, FdRead, FdWrite, FdTask, NextTick, EnqueueJob, ClearTimeout,
           InScript, AddTask
  <2> QED
    BY <2>1, <1>0 DEF LoopDiscipline
<1>2. ASSUME Return \/ JobThrows \/ Exit PROVE LoopDiscipline'
  <2>1. running # Idle /\ running' = Idle /\ UNCHANGED <<ticked, jobs, ticks>>
        /\ phase' \in {phase, "jobs", "panicked", "halted"}
    BY <1>2, FrameAssumption DEF Return, JobThrows, Exit, FrameEnds, InScript
  <2> QED
    BY <2>1, <1>0 DEF LoopDiscipline
<1>3. ASSUME RunJob \/ RunTick \/ EnterLoop \/ BeginRunOnce \/ EndTicks \/ PollFails
             \/ Poll \/ EndBatch
      PROVE LoopDiscipline'
  BY <1>3, <1>0 DEF RunJob, RunTick, EnterLoop, BeginRunOnce, EndTicks, PollFails,
                    Poll, EndBatch, At, LoopDiscipline
<1>4. ASSUME LoopEnds PROVE LoopDiscipline'
  <2>1. phase = "poll" /\ running = Idle /\ Occupied = {}
        /\ phase' = "exited" /\ UNCHANGED <<running, queues>>
    BY <1>4 DEF LoopEnds, At
  <2>2. jobs = <<>> /\ ticks = <<>>
    BY <2>1, <1>0 DEF LoopDiscipline
  <2>3. Held = {}
    BY <2>1, <2>2 DEF Held, Occupied, Range
  <2>4. Held' = {}
    BY <2>1, <2>3 DEF Held, Range
  <2> QED
    BY <2>1, <2>4 DEF LoopDiscipline
<1>5. ASSUME EventForVacant \/ EventMatches \/ EventMismatch PROVE LoopDiscipline'
  <2>1. phase = "batch" /\ phase' = "batch"
    BY <1>5 DEF EventForVacant, EventMatches, EventMismatch, HandleEvent, At
  <2> QED
    BY <2>1 DEF LoopDiscipline
<1>6. ASSUME Advance \/ UNCHANGED vars PROVE LoopDiscipline'
  BY <1>6, <1>0 DEF Advance, vars, LoopDiscipline, Held, Range
<1> QED
  BY <1>1, <1>2, <1>3, <1>4, <1>5, <1>6 DEF Next, ScriptStep, LoopStep, Terminated

-----------------------------------------------------------------------------
(* What the events of a batch still say after some have been handled. *)

BatchRight == BatchWellFormed /\ EventsFindTheirTask

\* There are no events at the start.
LEMMA BatchInit == Init => BatchRight
  BY DEF Init, BatchRight, BatchWellFormed, EventsFindTheirTask

\* A step that leaves the batch alone keeps what is true of its events, if it
\* takes away only tasks that it cancels.
LEMMA BatchKept ==
    ASSUME IndInv, UNCHANGED batch, DOMAIN tasks \subseteq DOMAIN tasks',
           \A c \in Callback : kind[c] # "New" =>
               kind'[c] = kind[c] /\ due'[c] = due[c],
           now <= now', now' \in Nat, cancelled \subseteq cancelled',
           \A i \in Occupied :
               \/ tasks'[i] = tasks[i]
               \/ tasks[i] \in cancelled' /\ kind[tasks[i]] = "Timeout"
    PROVE  BatchRight'
<1>0. TypeOK /\ BatchWellFormed /\ EventsFindTheirTask
  BY DEF IndInv
<1>1. ASSUME NEW i \in DOMAIN batch
      PROVE /\ batch[i].for \in Callback /\ kind[batch[i].for] # "New"
            /\ batch[i].for # Free
  <2>1. batch[i] \in Event /\ batch[i].type = kind[batch[i].for]
    BY <1>0 DEF TypeOK, BatchWellFormed
  <2> QED
    BY <2>1, FrameAssumption DEF Event, Poller
<1>2. BatchWellFormed'
  <2> SUFFICES ASSUME NEW i \in DOMAIN batch
               PROVE /\ batch[i].slot \in DOMAIN tasks'
                     /\ batch[i].type = kind'[batch[i].for]
                     /\ batch[i].type = "Timeout" => due'[batch[i].for] <= now'
    BY <1>0 DEF BatchWellFormed
  <2>1. /\ batch[i].slot \in DOMAIN tasks
        /\ batch[i].type = kind[batch[i].for]
        /\ batch[i].type = "Timeout" => due[batch[i].for] <= now
    BY <1>0 DEF BatchWellFormed
  <2>2. due[batch[i].for] \in Nat /\ now \in Nat
    BY <1>0, <1>1 DEF TypeOK
  <2> QED
    BY <2>1, <2>2, <1>1
<1>3. EventsFindTheirTask'
  <2> SUFFICES ASSUME NEW i \in DOMAIN batch
               PROVE \/ tasks'[batch[i].slot] = batch[i].for
                     \/ batch[i].for \in cancelled' /\ kind'[batch[i].for] = "Timeout"
    BY DEF EventsFindTheirTask
  <2>1. CASE tasks[batch[i].slot] = batch[i].for
    <3>1. batch[i].slot \in Occupied
      BY <2>1, <1>0, <1>1 DEF Occupied, BatchWellFormed
    <3> QED
      BY <3>1, <2>1, <1>1
  <2>2. CASE batch[i].for \in cancelled /\ kind[batch[i].for] = "Timeout"
    BY <2>2, <1>1
  <2> QED
    BY <2>1, <2>2, <1>0 DEF EventsFindTheirTask
<1> QED
  BY <1>2, <1>3 DEF BatchRight

\* Every step leaves the events of the batch well formed, each finding its own
\* task unless a callback of the batch has cancelled it.
LEMMA BatchStep == ASSUME IndInv, [Next]_vars PROVE BatchRight'
<1> USE DEF loop, queues, record, history
<1>0. TypeOK /\ BatchWellFormed /\ EventsFindTheirTask /\ now \in Nat
  BY DEF IndInv, TypeOK
<1>a. ASSUME NEW c \in Callback, NEW k \in Poller,
             NEW i \in 1 .. Len(tasks) + 1, AddTask(c, k, i),
             \A x \in Callback : x # c => due'[x] = due[x]
      PROVE BatchRight'
  <2>1. /\ DOMAIN tasks \subseteq DOMAIN tasks'
        /\ i \in DOMAIN tasks'
        /\ \A j \in DOMAIN tasks' \ {i} : j \in DOMAIN tasks /\ tasks'[j] = tasks[j]
    BY <1>0, <1>a, StoredTask DEF AddTask
  <2>2. \A j \in Occupied : j \in DOMAIN tasks /\ j # i
    BY <1>0, <1>a DEF AddTask, FirstVacant, Occupied, TypeOK
  <2>3. \A x \in Callback : kind[x] # "New" => kind'[x] = kind[x] /\ due'[x] = due[x]
    BY <1>0, <1>a DEF AddTask, TypeOK
  <2>4. UNCHANGED <<batch, now, cancelled>>
    BY <1>a DEF AddTask
  <2> QED
    BY <1>0, <2>1, <2>2, <2>3, <2>4, BatchKept
<1>1. ASSUME NEW c \in Callback, NEW d \in Delay, SetTimeout(c, d) PROVE BatchRight'
  <2>1. \A x \in Callback : x # c => due'[x] = due[x]
    BY <1>1, <1>0 DEF SetTimeout, TypeOK
  <2> QED
    BY <1>1, <2>1, <1>a DEF SetTimeout, Poller
<1>2. ASSUME NEW c \in Callback, FdRead(c) \/ FdWrite(c) PROVE BatchRight'
  BY <1>2, <1>a DEF FdRead, FdWrite, FdTask, Poller
<1>3. ASSUME NEW c \in Callback, NextTick(c) \/ EnqueueJob(c) PROVE BatchRight'
  <2>1. /\ UNCHANGED <<batch, now, cancelled, tasks, due>> /\ kind[c] = "New"
        /\ \E k \in Kind : kind' = [kind EXCEPT ![c] = k]
    BY <1>3 DEF NextTick, EnqueueJob, Kind
  <2>2. \A x \in Callback : kind[x] # "New" => kind'[x] = kind[x] /\ due'[x] = due[x]
    BY <2>1, <1>0 DEF TypeOK
  <2> QED
    BY <1>0, <2>1, <2>2, BatchKept
<1>4. ASSUME NEW c \in Callback, ClearTimeout(c) PROVE BatchRight'
  <2>0. UNCHANGED <<batch, now, kind, due>> /\ cancelled \subseteq cancelled'
    BY <1>4 DEF ClearTimeout
  <2>1. CASE ~TimerAt(handle[c])
    <3>1. UNCHANGED tasks
      BY <2>1, <1>4 DEF ClearTimeout
    <3> QED
      BY <1>0, <2>0, <3>1, BatchKept
  <2>2. CASE TimerAt(handle[c])
    <3> DEFINE i == handle[c]
    <3>1. /\ i \in DOMAIN tasks /\ kind[tasks[i]] = "Timeout"
          /\ tasks' = Vacated(i) /\ tasks[i] \in cancelled'
      BY <1>4, <2>2, FoundTimer DEF ClearTimeout
    <3>2. DOMAIN tasks' = DOMAIN tasks
          /\ \A j \in DOMAIN tasks : j # i => tasks'[j] = tasks[j]
      BY <1>0, <3>1, VacatedTask
    <3>3. \A j \in Occupied : \/ tasks'[j] = tasks[j]
                              \/ tasks[j] \in cancelled' /\ kind[tasks[j]] = "Timeout"
      BY <3>1, <3>2 DEF Occupied
    <3> QED
      BY <1>0, <2>0, <3>2, <3>3, BatchKept
  <2> QED
    BY <2>1, <2>2
<1>5. ASSUME \/ Return \/ JobThrows \/ Exit \/ RunJob \/ RunTick \/ EnterLoop
             \/ BeginRunOnce \/ EndTicks \/ LoopEnds \/ PollFails \/ EndBatch
             \/ Advance \/ UNCHANGED vars
      PROVE BatchRight'
  <2>1. UNCHANGED <<batch, tasks, kind, due, cancelled>> /\ now' \in {now, now + 1}
    BY <1>5 DEF Return, JobThrows, Exit, RunJob, RunTick, EnterLoop, BeginRunOnce,
                EndTicks, LoopEnds, PollFails, EndBatch, Advance, vars
  <2> QED
    BY <1>0, <2>1, BatchKept
<1>6. ASSUME Poll PROVE BatchRight'
  <2>1. PICK n \in 1 .. Len(tasks) : \E order \in [1 .. n -> Ready] :
          IsInjective(order) /\ batch' = [k \in 1 .. n |-> EventAt(order[k])]
    BY <1>6 DEF Poll
  <2>2. PICK order \in [1 .. n -> Ready] :
          IsInjective(order) /\ batch' = [k \in 1 .. n |-> EventAt(order[k])]
    BY <2>1
  <2>3. UNCHANGED <<tasks, kind, due, now>>
    BY <1>6 DEF Poll
  <2>4. DOMAIN batch' = 1 .. n /\ \A k \in 1 .. n :
          /\ batch'[k] = EventAt(order[k]) /\ order[k] \in Ready
    BY <2>2
  <2>5. \A k, m \in 1 .. n : order[k] = order[m] => k = m
    BY <2>2 DEF IsInjective
  <2>6. \A k \in 1 .. n :
          /\ batch'[k].slot = order[k] /\ batch'[k].for = tasks[order[k]]
          /\ batch'[k].type = kind[tasks[order[k]]]
          /\ order[k] \in DOMAIN tasks
          /\ batch'[k].type = "Timeout" => due[tasks[order[k]]] <= now
    BY <2>4 DEF EventAt, Ready, Deadline, Occupied
  <2> QED
    BY <2>3, <2>4, <2>5, <2>6 DEF BatchRight, BatchWellFormed, EventsFindTheirTask
<1>7. ASSUME EventForVacant \/ EventMatches \/ EventMismatch PROVE BatchRight'
  <2>1. PICK e \in Range(batch) :
          HandleEvent(e) /\ (tasks' = tasks \/ tasks' = Vacated(e.slot))
    BY <1>7 DEF EventForVacant, EventMatches, EventMismatch
  <2>2. batch # <<>> /\ e = Head(batch) /\ batch' = Tail(batch)
        /\ UNCHANGED <<kind, due, now, cancelled>>
    BY <2>1 DEF HandleEvent
  <2>3. /\ 1 \in DOMAIN batch /\ e = batch[1] /\ e.slot \in DOMAIN tasks
        /\ DOMAIN batch' = 1 .. Len(batch) - 1
        /\ \A i \in DOMAIN batch' : i + 1 \in DOMAIN batch /\ batch'[i] = batch[i + 1]
    BY <2>2, HeadEvent
  <2>4. DOMAIN tasks' = DOMAIN tasks
        /\ \A j \in DOMAIN tasks : j # e.slot => tasks'[j] = tasks[j]
    BY <1>0, <2>1, <2>3, VacatedTask
  <2>5. \A i \in DOMAIN batch' : i \in Nat /\ i + 1 # 1
    BY <2>3, <1>0 DEF TypeOK
  <2>6. \A i \in DOMAIN batch' : batch'[i].slot # e.slot
    BY <2>3, <2>5, <1>0 DEF BatchWellFormed
  <2>7. BatchWellFormed'
    <3>1. \A i \in DOMAIN batch' :
            /\ batch'[i].slot \in DOMAIN tasks'
            /\ batch'[i].type = kind'[batch'[i].for]
            /\ batch'[i].type = "Timeout" => due'[batch'[i].for] <= now'
      BY <1>0, <2>2, <2>3, <2>4 DEF BatchWellFormed
    <3>2. ASSUME NEW i \in DOMAIN batch', NEW j \in DOMAIN batch',
                 batch'[i].slot = batch'[j].slot
          PROVE i = j
      <4>1. i + 1 = j + 1
        BY <3>2, <1>0, <2>3 DEF BatchWellFormed
      <4> QED
        BY <4>1, <2>5
    <3> QED
      BY <3>1, <3>2 DEF BatchWellFormed
  <2>8. EventsFindTheirTask'
    <3> SUFFICES ASSUME NEW i \in DOMAIN batch'
                 PROVE \/ tasks'[batch'[i].slot] = batch'[i].for
                       \/ batch'[i].for \in cancelled' /\ kind'[batch'[i].for] = "Timeout"
      BY DEF EventsFindTheirTask
    <3>1. tasks'[batch'[i].slot] = tasks[batch'[i].slot]
      BY <1>0, <2>3, <2>4, <2>6 DEF BatchWellFormed
    <3> QED
      BY <3>1, <1>0, <2>2, <2>3 DEF EventsFindTheirTask
  <2> QED
    BY <2>7, <2>8 DEF BatchRight
<1> QED
  BY <1>1, <1>2, <1>3, <1>4, <1>5, <1>6, <1>7 DEF Next, ScriptStep, LoopStep, Terminated

-----------------------------------------------------------------------------
(* What a handle names, and why a clearTimeout may hit another timer. *)

Cancelling == HandlesNameSlots /\ StrayCancelNeedsReuse

\* There are no handles at the start.
LEMMA CancellingInit == Init => Cancelling
<1> SUFFICES ASSUME Init PROVE Cancelling
  OBVIOUS
<1>1. Occupied = {} /\ cancelled = {}
  BY DEF Init, Occupied
<1> QED
  BY <1>1 DEF Init, Cancelling, HandlesNameSlots, StrayCancelNeedsReuse

\* A step that registers no timer and cancels none keeps both.
LEMMA CancellingKept ==
    ASSUME IndInv, Places', DOMAIN tasks \subseteq DOMAIN tasks',
           UNCHANGED <<handle, cancelled, asked>>,
           \A c \in Callback : kind'[c] = kind[c] \/ kind'[c] # "Timeout",
           \A j \in Occupied' :
               (j \in Occupied /\ tasks'[j] = tasks[j]) \/ kind'[tasks'[j]] # "Timeout",
           \A c \in Callback : c \in Settled \cup {running} => c \in Settled' \cup {running'}
    PROVE  Cancelling'
<1>0. TypeOK /\ HandlesNameSlots /\ StrayCancelNeedsReuse
  BY DEF IndInv
<1>1. \A c \in Callback : kind'[c] = "Timeout" => handle'[c] \in DOMAIN tasks'
  BY <1>0 DEF HandlesNameSlots
<1>2. \A i \in Occupied' : kind'[tasks'[i]] = "Timeout" => handle'[tasks'[i]] = i
  <2> SUFFICES ASSUME NEW i \in Occupied', kind'[tasks'[i]] = "Timeout"
               PROVE handle'[tasks'[i]] = i
    OBVIOUS
  <2>1. i \in Occupied /\ tasks'[i] = tasks[i] /\ tasks[i] \in Callback
    BY <1>0 DEF Occupied, TypeOK
  <2> QED
    BY <2>1, <1>0 DEF HandlesNameSlots
<1>3. StrayCancelNeedsReuse'
  <2>1. \A d \in asked : d \in Callback
    BY <1>0 DEF TypeOK
  <2> QED
    BY <1>0, <2>1 DEF StrayCancelNeedsReuse
<1> QED
  BY <1>1, <1>2, <1>3 DEF Cancelling, HandlesNameSlots

\* Every step leaves the handle of a timer naming its slot, and a stray cancel
\* explained by a slot used again.
LEMMA CancellingStep == ASSUME IndInv, [Next]_vars, Places' PROVE Cancelling'
<1> USE DEF loop, queues, record, history
<1>0. TypeOK /\ HandlesNameSlots /\ StrayCancelNeedsReuse /\ HeldOnce /\ FreshIsNowhere
  BY DEF IndInv
<1>a. ASSUME NEW c \in Callback, NEW k \in Poller,
             NEW i \in 1 .. Len(tasks) + 1, AddTask(c, k, i)
      PROVE /\ i \in DOMAIN tasks' /\ tasks'[i] = c
            /\ DOMAIN tasks \subseteq DOMAIN tasks'
            /\ \A j \in Occupied' : j # i =>
                  /\ j \in Occupied /\ tasks'[j] = tasks[j] /\ tasks[j] # c
                  /\ tasks[j] \in Callback
            /\ kind[c] = "New" /\ c \notin Settled \cup {running}
            /\ kind'[c] = k /\ \A x \in Callback : x # c => kind'[x] = kind[x]
            /\ UNCHANGED <<cancelled, asked, Settled, running>>
  <2>1. /\ i \in DOMAIN tasks' /\ tasks'[i] = c
        /\ DOMAIN tasks \subseteq DOMAIN tasks'
        /\ \A j \in DOMAIN tasks' \ {i} : j \in DOMAIN tasks /\ tasks'[j] = tasks[j]
    BY <1>0, <1>a, StoredTask DEF AddTask
  <2>2. /\ kind[c] = "New" /\ kind'[c] = k
        /\ \A x \in Callback : x # c => kind'[x] = kind[x]
        /\ UNCHANGED <<cancelled, asked, Settled, running>>
    BY <1>0, <1>a DEF AddTask, Settled, TypeOK
  <2>3. c \notin Settled \cup {running} /\ c \notin Held
    BY <1>0, <2>2 DEF FreshIsNowhere
  <2>4. \A j \in Occupied : tasks[j] # c /\ tasks[j] \in Callback
    BY <1>0, <2>3 DEF Occupied, Held, Range, TypeOK
  <2> QED
    BY <2>1, <2>2, <2>3, <2>4 DEF Occupied
<1>1. ASSUME NEW c \in Callback, NEW d \in Delay, SetTimeout(c, d) PROVE Cancelling'
  <2>1. PICK i \in 1 .. Len(tasks) + 1 :
          AddTask(c, "Timeout", i) /\ handle' = [handle EXCEPT ![c] = i]
    BY <1>1 DEF SetTimeout
  <2>2. /\ i \in DOMAIN tasks' /\ tasks'[i] = c
        /\ DOMAIN tasks \subseteq DOMAIN tasks'
        /\ \A j \in Occupied' : j # i =>
              /\ j \in Occupied /\ tasks'[j] = tasks[j] /\ tasks[j] # c
              /\ tasks[j] \in Callback
        /\ kind[c] = "New" /\ c \notin Settled \cup {running}
        /\ \A x \in Callback : x # c => kind'[x] = kind[x]
        /\ UNCHANGED <<cancelled, asked, Settled, running>>
    BY <2>1, <1>a DEF Poller
  <2>3. handle'[c] = i /\ \A x \in Callback : x # c => handle'[x] = handle[x]
    BY <1>0, <2>1 DEF TypeOK
  <2>4. HandlesNameSlots'
    <3>1. ASSUME NEW x \in Callback, kind'[x] = "Timeout"
          PROVE handle'[x] \in DOMAIN tasks'
      BY <3>1, <1>0, <2>2, <2>3 DEF HandlesNameSlots
    <3>2. ASSUME NEW j \in Occupied', kind'[tasks'[j]] = "Timeout"
          PROVE handle'[tasks'[j]] = j
      BY <3>2, <1>0, <2>2, <2>3 DEF HandlesNameSlots
    <3> QED
      BY <3>1, <3>2 DEF HandlesNameSlots
  <2>5. StrayCancelNeedsReuse'
    <3> SUFFICES ASSUME NEW x \in cancelled \ asked
                 PROVE \E y \in asked \cap (Settled \cup {running}) :
                         y # x /\ handle'[y] = handle'[x]
      BY <2>2 DEF StrayCancelNeedsReuse
    <3>1. PICK y \in asked \cap (Settled \cup {running}) : y # x /\ handle[y] = handle[x]
      BY <1>0 DEF StrayCancelNeedsReuse
    <3>2. x \in Settled /\ x \in Callback /\ y \in Callback
      BY <1>0 DEF Settled, TypeOK
    <3>3. x # c /\ y # c
      BY <3>2, <2>2
    <3> QED
      BY <3>1, <3>2, <3>3, <2>3
  <2> QED
    BY <2>4, <2>5 DEF Cancelling
<1>2. ASSUME NEW c \in Callback, NEW k \in {"FdRead", "FdWrite"}, FdTask(c, k)
      PROVE Cancelling'
  <2>1. PICK i \in 1 .. Len(tasks) + 1 : AddTask(c, k, i)
    BY <1>2 DEF FdTask
  <2>2. UNCHANGED handle /\ k \in Poller /\ k # "Timeout"
    BY <1>2 DEF FdTask, Poller
  <2>3. /\ tasks'[i] = c /\ DOMAIN tasks \subseteq DOMAIN tasks'
        /\ \A j \in Occupied' : j # i => j \in Occupied /\ tasks'[j] = tasks[j]
        /\ kind'[c] = k /\ \A x \in Callback : x # c => kind'[x] = kind[x]
        /\ UNCHANGED <<cancelled, asked, Settled, running>>
    BY <2>1, <2>2, <1>a
  <2> QED
    BY <2>2, <2>3, CancellingKept
<1>3. ASSUME NEW c \in Callback, NextTick(c) \/ EnqueueJob(c) PROVE Cancelling'
  <2>1. /\ UNCHANGED <<tasks, handle, cancelled, asked, Settled, running>>
        /\ \E k \in {"Tick", "Job"} : kind' = [kind EXCEPT ![c] = k]
        /\ c \notin Held
    BY <1>3, <1>0 DEF NextTick, EnqueueJob, Settled, FreshIsNowhere
  <2>2. \A x \in Callback : kind'[x] = kind[x] \/ kind'[x] # "Timeout"
    BY <2>1, <1>0 DEF TypeOK
  <2>3. Occupied' = Occupied
    BY <2>1 DEF Occupied
  <2> QED
    BY <2>1, <2>2, <2>3, CancellingKept
<1>4. ASSUME NEW c \in Callback, ClearTimeout(c) PROVE Cancelling'
  <2>0. /\ asked' = asked \cup {c} /\ UNCHANGED <<kind, handle, done, dropped, running>>
        /\ kind[c] = "Timeout"
    BY <1>4 DEF ClearTimeout
  <2>1. CASE ~TimerAt(handle[c])
    <3>1. UNCHANGED <<tasks, cancelled, Settled, Occupied>>
      BY <2>0, <2>1, <1>4 DEF ClearTimeout, Settled, Occupied
    <3>2. StrayCancelNeedsReuse'
      BY <1>0, <2>0, <3>1 DEF StrayCancelNeedsReuse
    <3> QED
      BY <1>0, <2>0, <3>1, <3>2 DEF Cancelling, HandlesNameSlots
  <2>2. CASE TimerAt(handle[c])
    <3> DEFINE i == handle[c]
               x == tasks[i]
    <3>1. /\ i \in Occupied /\ x \in Callback /\ kind[x] = "Timeout"
          /\ tasks' = Vacated(i) /\ cancelled' = cancelled \cup {x}
      BY <1>4, <2>2, FoundTimer DEF ClearTimeout
    <3>2. DOMAIN tasks' = DOMAIN tasks
          /\ \A j \in Occupied' : j \in Occupied /\ tasks'[j] = tasks[j]
      <4>1. i \in DOMAIN tasks
        BY <3>1 DEF Occupied
      <4> QED
        BY <4>1, <1>0, <3>1, VacatedTask DEF Occupied
    <3>3. HandlesNameSlots'
      BY <1>0, <2>0, <3>2 DEF HandlesNameSlots
    <3>4. Settled' = Settled \cup {x} /\ handle[x] = i
      BY <1>0, <2>0, <3>1 DEF Settled, HandlesNameSlots
    <3>5. c # x => c \in Settled \cup {running}
      <4> SUFFICES ASSUME c # x, c \notin Settled \cup {running} PROVE FALSE
        OBVIOUS
      <4>1. c \in Held
        BY <2>0 DEF IndInv, NothingLost
      <4>2. c \notin Range(jobs) /\ c \notin Range(ticks)
        BY <1>0, <2>0 DEF HeldOnce
      <4>3. PICK j \in Occupied : tasks[j] = c
        BY <4>1, <4>2 DEF Held, Occupied, Range
      <4>4. handle[c] = j
        BY <4>3, <2>0, <1>0 DEF HandlesNameSlots
      <4> QED
        BY <4>3, <4>4
    <3>6. StrayCancelNeedsReuse'
      <4> SUFFICES ASSUME NEW y \in cancelled' \ asked'
                   PROVE \E d \in asked' \cap (Settled' \cup {running'}) :
                           d # y /\ handle'[d] = handle'[y]
        BY DEF StrayCancelNeedsReuse
      <4>1. CASE y = x
        BY <4>1, <2>0, <3>4, <3>5
      <4>2. CASE y # x
        BY <4>2, <1>0, <2>0, <3>1, <3>4 DEF StrayCancelNeedsReuse
      <4> QED
        BY <4>1, <4>2
    <3> QED
      BY <3>3, <3>6 DEF Cancelling
  <2> QED
    BY <2>1, <2>2
<1>5. ASSUME \/ Return \/ JobThrows \/ Exit \/ RunJob \/ RunTick \/ EnterLoop
             \/ BeginRunOnce \/ EndTicks \/ LoopEnds \/ PollFails \/ Poll
             \/ EndBatch \/ Advance \/ UNCHANGED vars
      PROVE Cancelling'
  <2>1. UNCHANGED <<tasks, kind, handle, cancelled, asked, dropped>>
    BY <1>5 DEF Return, JobThrows, Exit, RunJob, RunTick, EnterLoop, BeginRunOnce,
                EndTicks, LoopEnds, PollFails, Poll, EndBatch, Advance, vars
  <2>2. \/ UNCHANGED <<done, running>>
        \/ running = Idle /\ UNCHANGED done
        \/ done' = done \cup ({running} \cap Callback)
    BY <1>5 DEF Return, JobThrows, Exit, FrameEnds, RunJob, RunTick, EnterLoop,
                BeginRunOnce, EndTicks, LoopEnds, PollFails, Poll, EndBatch, Advance,
                vars, At
  <2>3. \A c \in Callback : c \in Settled \cup {running} => c \in Settled' \cup {running'}
    BY <2>1, <2>2, FrameAssumption DEF Settled
  <2>4. Occupied' = Occupied
    BY <2>1 DEF Occupied
  <2> QED
    BY <2>1, <2>3, <2>4, CancellingKept
<1>6. ASSUME EventForVacant \/ EventMatches \/ EventMismatch PROVE Cancelling'
  <2>1. PICK e \in Range(batch) :
          HandleEvent(e) /\ (tasks' = tasks \/ tasks' = Vacated(e.slot))
          /\ dropped \subseteq dropped'
    BY <1>6 DEF EventForVacant, EventMatches, EventMismatch
  <2>2. UNCHANGED <<kind, handle, cancelled, asked, done>> /\ running = Idle
        /\ e.slot \in DOMAIN tasks
    BY <2>1, HeadEvent DEF HandleEvent, At
  <2>3. DOMAIN tasks' = DOMAIN tasks
        /\ \A j \in Occupied' : j \in Occupied /\ tasks'[j] = tasks[j]
    BY <1>0, <2>1, <2>2, VacatedTask DEF Occupied
  <2>4. \A c \in Callback : c \in Settled \cup {running} => c \in Settled' \cup {running'}
    BY <2>1, <2>2, FrameAssumption DEF Settled
  <2> QED
    BY <2>2, <2>3, <2>4, CancellingKept
<1> QED
  BY <1>1, <1>2, <1>3, <1>4, <1>5, <1>6
     DEF Next, ScriptStep, LoopStep, Terminated, FdRead, FdWrite

-----------------------------------------------------------------------------
(* The invariant, and the properties that follow from it. *)

\* The initial state satisfies the inductive invariant.
LEMMA IndInvInit == Init => IndInv
  BY TypeInit, PlacesInit, DisciplineInit, BatchInit, CancellingInit
     DEF IndInv, Places, BatchRight, Cancelling

\* Every step preserves the inductive invariant.
LEMMA IndInvStep == IndInv /\ [Next]_vars => IndInv'
  BY TypeStep, PlacesStep, DisciplineStep, BatchStep, CancellingStep
     DEF IndInv, Places, BatchRight, Cancelling

\* The inductive invariant holds in every reachable state.
LEMMA Invariance == Spec => []IndInv
<1>1. Init => IndInv
  BY IndInvInit
<1>2. IndInv /\ [Next]_vars => IndInv'
  BY IndInvStep
<1> QED
  BY <1>1, <1>2, PTL DEF Spec

\* Every variable keeps its type in every run, whatever the program does
\* between the calls of the loop.
THEOREM TypeCorrect == Spec => []TypeOK
<1>1. IndInv => TypeOK
  BY DEF IndInv
<1> QED
  BY <1>1, Invariance, PTL

\* No closure is ever in two queues or slots, runs while it is still queued,
\* or is settled twice: the take, pop_front and insert of IoSelector and
\* run_tick_task move it.  And none disappears without having run, been
\* cancelled or been dropped by the catch-all arm of poll.
THEOREM EachInItsPlace == Spec => []Places
<1>1. IndInv => Places
  BY DEF IndInv, Places
<1> QED
  BY <1>1, Invariance, PTL

\* js_loop blocks in poll_oneoff only with both queues empty.
THEOREM PollsIdle == Spec => []PollOnlyWhenIdle
<1>1. IndInv => PollOnlyWhenIdle
  BY DEF IndInv, LoopDiscipline, PollOnlyWhenIdle
<1> QED
  BY <1>1, Invariance, PTL

\* When js_loop returns Ok there is nothing left that could still run.
THEOREM ExitsQuiescent == Spec => []QuiescentExit
<1>1. IndInv => QuiescentExit
  BY DEF IndInv, LoopDiscipline, QuiescentExit, Over
<1> QED
  BY <1>1, Invariance, PTL

\* An event of a batch reaches the task it was reported for, except a timer
\* cancelled earlier in the same batch, although callbacks change the table
\* poll is iterating over.
THEOREM EventsReachTasks == Spec => []EventsFindTheirTask
<1>1. IndInv => EventsFindTheirTask
  BY DEF IndInv
<1> QED
  BY <1>1, Invariance, PTL

\* clearTimeout takes out a timer nobody asked it to only through a handle
\* whose own timer had already left the slot.
THEOREM StrayCancels == Spec => []StrayCancelNeedsReuse
<1>1. IndInv => StrayCancelNeedsReuse
  BY DEF IndInv
<1> QED
  BY <1>1, Invariance, PTL

\* A timer fires early only in a slot taken over, within the batch, from a
\* timer that was cancelled.
THEOREM TimersWait == Spec => EarlyOnlyInReusedSlot
<1> DEFINE A == running' # running /\ running' \in Callback
                   /\ kind[running'] = "Timeout"
                => due[running'] <= now \/ Head(batch).for \in cancelled
<1>1. IndInv /\ [Next]_vars => [A]_vars
  <2> SUFFICES ASSUME IndInv, Next, running' # running, running' \in Callback,
                      kind[running'] = "Timeout"
               PROVE  due[running'] <= now \/ Head(batch).for \in cancelled
    OBVIOUS
  <2> USE DEF loop, queues, record, history
  <2>1. ~ \/ ScriptStep \/ Return \/ JobThrows \/ Advance \/ Terminated
    BY FrameAssumption
       DEF ScriptStep, SetTimeout, FdRead, FdWrite, FdTask, AddTask, NextTick,
           EnqueueJob, ClearTimeout, Exit, Return, JobThrows, FrameEnds, Advance,
           Terminated, vars
  <2>2. ~ \/ EnterLoop \/ BeginRunOnce \/ EndTicks \/ LoopEnds \/ PollFails \/ Poll
          \/ EventForVacant \/ EventMismatch \/ EndBatch
    BY DEF EnterLoop, BeginRunOnce, EndTicks, LoopEnds, PollFails, Poll,
           EventForVacant, EventMismatch, EndBatch
  <2>3. ~(RunJob \/ RunTick)
    <3>1. ASSUME RunJob PROVE kind[running'] = "Job"
      <4>1. running' = Head(jobs) /\ jobs # <<>>
        BY <3>1 DEF RunJob
      <4>2. Head(jobs) \in Range(jobs)
        BY <4>1, TailQueue DEF IndInv, TypeOK
      <4> QED
        BY <4>1, <4>2 DEF IndInv, HeldOnce
    <3>2. ASSUME RunTick PROVE kind[running'] = "Tick"
      <4>1. running' = Head(ticks) /\ ticks # <<>>
        BY <3>2 DEF RunTick
      <4>2. Head(ticks) \in Range(ticks)
        BY <4>1, TailQueue DEF IndInv, TypeOK
      <4> QED
        BY <4>1, <4>2 DEF IndInv, HeldOnce
    <3> QED
      BY <3>1, <3>2
  <2>4. EventMatches
    BY <2>1, <2>2, <2>3 DEF Next, LoopStep
  <2>5. batch # <<>> /\ running' = tasks[Head(batch).slot]
        /\ kind[running'] = Head(batch).type
    BY <2>4 DEF EventMatches, HandleEvent
  <2>6. 1 \in DOMAIN batch /\ Head(batch) = batch[1]
    BY <2>5, HeadEvent
  <2>7. tasks[batch[1].slot] = batch[1].for \/ batch[1].for \in cancelled
    BY <2>6 DEF IndInv, EventsFindTheirTask
  <2>8. batch[1].type = "Timeout" => due[batch[1].for] <= now
    BY <2>6 DEF IndInv, BatchWellFormed
  <2> QED
    BY <2>5, <2>6, <2>7, <2>8
<1> QED
  BY <1>1, Invariance, PTL DEF Spec, EarlyOnlyInReusedSlot

-----------------------------------------------------------------------------
(* The event loop implements Scheduler. *)

Life == [c \in Callback |-> LifeOf(c)]

\* The invariant makes "waiting" and "registered, and none of the others" the
\* same.
LifeTable ==
    \A c \in Callback :
        LifeOf(c) = IF c = running THEN "running"
                    ELSE IF c \in done THEN "done"
                    ELSE IF c \in cancelled THEN "cancelled"
                    ELSE IF c \in dropped THEN "dropped"
                    ELSE IF kind[c] = "New" THEN "new" ELSE "waiting"

\* The life Scheduler sees of a callback, read off the place that holds it.
LEMMA LifeByKind == IndInv => LifeTable
<1> SUFFICES ASSUME IndInv, NEW c \in Callback
             PROVE  LifeOf(c) = IF c = running THEN "running"
                                ELSE IF c \in done THEN "done"
                                ELSE IF c \in cancelled THEN "cancelled"
                                ELSE IF c \in dropped THEN "dropped"
                                ELSE IF kind[c] = "New" THEN "new" ELSE "waiting"
  BY DEF LifeTable
<1>1. kind[c] = "New" => c \notin Held
  BY DEF IndInv, FreshIsNowhere
<1>2. kind[c] # "New" => c \in Held \cup {running} \cup Settled
  BY DEF IndInv, NothingLost
<1>3. /\ c \in Held => c # running /\ c \notin Settled
      /\ c = running => c \notin Settled
      /\ ~(c \in done /\ c \in cancelled) /\ ~(c \in done /\ c \in dropped)
      /\ ~(c \in cancelled /\ c \in dropped)
  BY DEF IndInv, HeldOnce
<1>4. CASE c \in Settled
  BY <1>3, <1>4 DEF LifeOf, Settled
<1>5. CASE c \notin Settled
  BY <1>1, <1>2, <1>3, <1>5 DEF LifeOf, Settled
<1> QED
  BY <1>4, <1>5

\* The same after a step.
LEMMA LifeByKindNext == IndInv' => LifeTable'
  BY LifeByKind, PTL

\* A callback in a queue or a slot is waiting.
LEMMA HeldIsWaiting ==
    ASSUME IndInv, NEW c \in Held
    PROVE  c \in Callback /\ LifeOf(c) = "waiting" /\ kind[c] # "New"
<1>1. c \in Callback
  BY DEF IndInv, TypeOK, Held, Range
<1>2. c # running /\ c \notin Settled
  BY DEF IndInv, HeldOnce
<1>3. kind[c] # "New"
  BY <1>1 DEF IndInv, FreshIsNowhere
<1> QED
  BY <1>1, <1>2, <1>3, LifeByKind DEF Settled, LifeTable

\* main starts in an initial state of Scheduler.
LEMMA RefineInit == Init => Abstract!Init
<1> SUFFICES ASSUME Init PROVE Abstract!Init
  OBVIOUS
<1>1. IndInv
  BY IndInvInit
<1>2. ASSUME NEW c \in Callback PROVE LifeOf(c) = "new"
  BY <1>1, <1>2, LifeByKind, FrameAssumption DEF Init, LifeTable
<1> QED
  BY <1>2 DEF Init, Abstract!Init, Process

\* A step that changes the life of no callback but c moves c only.
LEMMA OneLife ==
    ASSUME NEW c \in Callback,
           \A x \in Callback : x # c => LifeOf(x)' = LifeOf(x)
    PROVE  Life' = [Life EXCEPT ![c] = LifeOf(c)']
  BY DEF Life

\* Every step of the event loop is a step of Scheduler or changes nothing it sees.
LEMMA RefineStep ==
    ASSUME IndInv, IndInv', [Next]_vars
    PROVE  [Abstract!Next]_<<Life, running, Process>>
<1> USE DEF loop, queues, record, history
<1>0. TypeOK /\ HeldOnce
  BY DEF IndInv
<1>k. /\ \A c \in Callback :
           LifeOf(c) = IF c = running THEN "running"
                       ELSE IF c \in done THEN "done"
                       ELSE IF c \in cancelled THEN "cancelled"
                       ELSE IF c \in dropped THEN "dropped"
                       ELSE IF kind[c] = "New" THEN "new" ELSE "waiting"
      /\ \A c \in Callback :
           LifeOf(c)' = IF c = running' THEN "running"
                       ELSE IF c \in done' THEN "done"
                       ELSE IF c \in cancelled' THEN "cancelled"
                       ELSE IF c \in dropped' THEN "dropped"
                       ELSE IF kind'[c] = "New" THEN "new" ELSE "waiting"
  BY LifeByKind, LifeByKindNext DEF LifeTable
<1>l. \A c \in Callback : Life[c] = LifeOf(c)
  BY DEF Life
<1>s. ASSUME UNCHANGED <<running, done, cancelled, dropped, kind>>
      PROVE Life' = Life
  BY <1>s, <1>k DEF Life
<1>r. ASSUME NEW c \in Callback, NEW k \in Kind \ {"New"}, kind[c] = "New",
             kind' = [kind EXCEPT ![c] = k], running # Idle,
             UNCHANGED <<loop, done, cancelled, dropped>>
      PROVE Abstract!Register(c)
  <2>1. phase \notin Over /\ Process' = Process /\ Process = "live"
    BY <1>r DEF IndInv, LoopDiscipline, Process, Over
  <2>2. c # running /\ c \notin Settled
    BY <1>r DEF IndInv, FreshIsNowhere
  <2>3. LifeOf(c) = "new" /\ LifeOf(c)' = "waiting"
    BY <1>0, <1>k, <1>r, <2>2 DEF Settled, TypeOK
  <2>4. \A x \in Callback : x # c => LifeOf(x)' = LifeOf(x)
    BY <1>0, <1>k, <1>r DEF TypeOK
  <2>5. Life' = [Life EXCEPT ![c] = "waiting"]
    BY <2>3, <2>4, OneLife
  <2> QED
    BY <1>l, <1>r, <2>1, <2>3, <2>5 DEF Abstract!Register, Abstract!Moves, Life
<1>1. ASSUME NEW c \in Callback,
             \/ \E d \in Delay : SetTimeout(c, d)
             \/ FdRead(c) \/ FdWrite(c) \/ NextTick(c) \/ EnqueueJob(c)
      PROVE Abstract!Next
  <2>1. /\ kind[c] = "New" /\ running # Idle
        /\ UNCHANGED <<loop, done, cancelled, dropped>>
        /\ \E k \in Kind \ {"New"} : kind' = [kind EXCEPT ![c] = k]
    BY <1>1, FrameAssumption
       DEF SetTimeout, FdRead, FdWrite, FdTask, AddTask, NextTick, EnqueueJob,
           InScript, Kind, Poller
  <2> QED
    BY <2>1, <1>r DEF Abstract!Next
<1>2. ASSUME NEW c \in Callback, ClearTimeout(c)
      PROVE Abstract!Next \/ UNCHANGED <<Life, running, Process>>
  <2>0. /\ UNCHANGED <<phase, running, kind, done, dropped>> /\ running # Idle
        /\ kind[c] = "Timeout"
    BY <1>2, FrameAssumption DEF ClearTimeout, InScript
  <2>1. Process' = Process /\ Process = "live"
    BY <2>0 DEF IndInv, LoopDiscipline, Process, Over
  <2>2. CASE ~TimerAt(handle[c])
    BY <1>2, <1>s, <2>0, <2>1, <2>2 DEF ClearTimeout
  <2>3. CASE TimerAt(handle[c])
    <3> DEFINE x == tasks[handle[c]]
    <3>1. x \in Callback /\ handle[c] \in Occupied /\ cancelled' = cancelled \cup {x}
      BY <1>2, <2>3, FoundTimer DEF ClearTimeout
    <3> HIDE DEF x
    <3>2. x \in Held
      BY <3>1 DEF Held, Occupied, Range, x
    <3>3. LifeOf(x) = "waiting" /\ x # running /\ x \notin done
      BY <1>k, <3>2, HeldIsWaiting
    <3>4. \A y \in Callback : LifeOf(y)' = IF y = x THEN "cancelled" ELSE LifeOf(y)
      BY <1>k, <2>0, <3>1, <3>3
    <3>5. Life' = [Life EXCEPT ![x] = "cancelled"]
      BY <3>4 DEF Life
    <3> QED
      BY <1>l, <2>0, <2>1, <3>1, <3>3, <3>5
         DEF Abstract!Next, Abstract!Cancel, Abstract!Moves, Life
  <2> QED
    BY <2>2, <2>3
<1>3. ASSUME Return \/ JobThrows \/ Exit PROVE Abstract!Next
  <2>1. /\ running # Idle /\ running' = Idle
        /\ done' = done \cup ({running} \cap Callback)
        /\ UNCHANGED <<kind, cancelled, dropped>>
        /\ phase' \in {phase, "jobs", "panicked", "halted"}
    BY <1>3, FrameAssumption DEF Return, JobThrows, Exit, FrameEnds, InScript
  <2>2. phase \notin Over
    BY <2>1 DEF IndInv, LoopDiscipline
  <2>3. Process = "live" /\ Process' \in {"live", "aborted"}
    BY <2>1, <2>2 DEF Process, Over
  <2>4. CASE running = Main
    <3>1. Life' = Life
      BY <1>k, <2>1, <2>4, FrameAssumption DEF Life
    <3> QED
      BY <2>1, <2>3, <2>4, <3>1 DEF Abstract!Next, Abstract!Finish, Life
  <2>5. CASE running \in Callback
    <3>1. LifeOf(running) = "running"
      BY <1>k, <2>5
    <3>2. \A y \in Callback :
            LifeOf(y)' = IF y = running THEN "done" ELSE LifeOf(y)
      BY <1>k, <2>1, <2>5, FrameAssumption
    <3>3. Life' = [Life EXCEPT ![running] = "done"]
      BY <3>2 DEF Life
    <3> QED
      BY <1>l, <2>1, <2>3, <2>5, <3>1, <3>3
         DEF Abstract!Next, Abstract!Finish, Abstract!Moves, Life
  <2> QED
    BY <1>0, <2>1, <2>4, <2>5 DEF TypeOK
<1>4. ASSUME RunJob \/ RunTick \/ EventMatches PROVE Abstract!Next
  <2>1. /\ running = Idle /\ running' \in Held /\ phase \notin Over /\ phase' = phase
        /\ UNCHANGED <<kind, done, cancelled, dropped>>
    <3>1. CASE RunJob
      <4>1. Head(jobs) \in Range(jobs)
        BY <3>1, <1>0, TailQueue DEF RunJob, TypeOK
      <4> QED
        BY <3>1, <4>1 DEF RunJob, At, Over, Held
    <3>2. CASE RunTick
      <4>1. Head(ticks) \in Range(ticks)
        BY <3>2, <1>0, TailQueue DEF RunTick, TypeOK
      <4> QED
        BY <3>2, <4>1 DEF RunTick, At, Over, Held
    <3>3. CASE EventMatches
      <4>1. PICK e \in Range(batch) :
              /\ HandleEvent(e) /\ tasks[e.slot] # Free
              /\ running' = tasks[e.slot] /\ UNCHANGED dropped
        BY <3>3 DEF EventMatches
      <4>2. tasks[e.slot] \in Held
        BY <4>1, HeadEvent DEF HandleEvent, Held, Range
      <4> QED
        BY <4>1, <4>2 DEF HandleEvent, At, Over
    <3> QED
      BY <1>4, <3>1, <3>2, <3>3
  <2>2. running' \in Callback /\ LifeOf(running') = "waiting"
    BY <2>1, HeldIsWaiting
  <2>3. \A y \in Callback :
          LifeOf(y)' = IF y = running' THEN "running" ELSE LifeOf(y)
    BY <1>k, <2>1, <2>2, FrameAssumption
  <2>4. Life' = [Life EXCEPT ![running'] = "running"]
    BY <2>3 DEF Life
  <2>5. Process = "live" /\ Process' = "live"
    BY <2>1 DEF Process, Over
  <2>6. Abstract!Start(running')
    BY <1>l, <2>1, <2>2, <2>4, <2>5 DEF Abstract!Start, Abstract!Moves, Life
  <2> QED
    BY <2>2, <2>6 DEF Abstract!Next
<1>5. ASSUME EventMismatch PROVE Abstract!Next
  <2>1. PICK e \in Range(batch) :
          /\ HandleEvent(e) /\ tasks[e.slot] # Free
          /\ dropped' = dropped \cup {tasks[e.slot]} /\ UNCHANGED running
    BY <1>5 DEF EventMismatch
  <2> DEFINE x == tasks[e.slot]
  <2>2. /\ UNCHANGED <<kind, done, cancelled, phase, running>>
        /\ running = Idle /\ phase = "batch" /\ x \in Held
    BY <2>1, HeadEvent DEF HandleEvent, At, Held, Range
  <2>3. x \in Callback /\ LifeOf(x) = "waiting"
    BY <2>2, HeldIsWaiting
  <2>4. \A y \in Callback : LifeOf(y)' = IF y = x THEN "dropped" ELSE LifeOf(y)
    BY <1>k, <2>1, <2>2, <2>3
  <2>5. Life' = [Life EXCEPT ![x] = "dropped"]
    BY <2>4 DEF Life
  <2>6. Process = "live" /\ Process' = "live"
    BY <2>2 DEF Process
  <2>7. Abstract!Drop(x)
    BY <1>l, <2>2, <2>3, <2>5, <2>6 DEF Abstract!Drop, Abstract!Moves, Life
  <2> QED
    BY <2>3, <2>7 DEF Abstract!Next
<1>6. ASSUME LoopEnds \/ PollFails PROVE Abstract!Next
  <2>1. /\ UNCHANGED <<running, done, cancelled, dropped, kind>>
        /\ running = Idle /\ phase = "poll" /\ phase' \in {"exited", "panicked"}
    BY <1>6 DEF LoopEnds, PollFails, At
  <2>2. Life' = Life
    BY <2>1, <1>s
  <2>3. Process = "live" /\ Process' \in {"exited", "aborted"}
        /\ (Process' = "exited" => phase' = "exited")
    BY <2>1 DEF Process
  <2>4. phase' = "exited" => \A c \in Callback : LifeOf(c) # "waiting"
    <3>1. phase' = "exited" => Held' = {} /\ running' = Idle
      BY DEF IndInv, LoopDiscipline, Over
    <3>2. phase' = "exited" => \A c \in Callback : kind'[c] # "New" => c \in Settled'
      BY <3>1, FrameAssumption DEF IndInv, NothingLost
    <3> QED
      BY <3>2, <2>1, <1>k DEF Settled
  <2> QED
    BY <1>l, <2>1, <2>2, <2>3, <2>4 DEF Abstract!Next, Abstract!Stop, Life
<1>7. ASSUME \/ EnterLoop \/ BeginRunOnce \/ EndTicks \/ Poll \/ EndBatch
             \/ EventForVacant \/ Advance \/ UNCHANGED vars
      PROVE UNCHANGED <<Life, running, Process>>
  <2>1. UNCHANGED <<running, done, cancelled, dropped, kind>>
    BY <1>7 DEF EnterLoop, BeginRunOnce, EndTicks, Poll, EndBatch, EventForVacant,
                HandleEvent, Advance, vars
  <2>2. phase' = phase \/ (phase \notin Over /\ phase' \notin Over)
    <3>1. CASE EnterLoop \/ BeginRunOnce \/ EndTicks \/ Poll \/ EndBatch
      BY <3>1 DEF EnterLoop, BeginRunOnce, EndTicks, Poll, EndBatch, At, Over
    <3>2. CASE EventForVacant \/ Advance \/ UNCHANGED vars
      <4>1. UNCHANGED phase
        BY <3>2 DEF EventForVacant, HandleEvent, Advance, vars
      <4> QED
        BY <4>1
    <3> QED
      BY <1>7, <3>1, <3>2
  <2>3. Process' = Process
    BY <2>2 DEF Process, Over
  <2> QED
    BY <1>s, <2>1, <2>3
<1> QED
  BY <1>1, <1>2, <1>3, <1>4, <1>5, <1>6, <1>7
     DEF Next, ScriptStep, LoopStep, Terminated

\* The slots, queues, batches and phases of the event loop keep the promise
\* of Scheduler: one life per registration, one frame at a time, and an exit
\* only with nothing waiting.
THEOREM Implements == Spec => ImplementsScheduler
<1>1. Init => Abstract!Init
  BY RefineInit
<1>2. IndInv /\ IndInv' /\ [Next]_vars
        => [Abstract!Next]_<<Life, running, Process>>
  BY RefineStep
<1> QED
  BY <1>1, <1>2, Invariance, PTL DEF Spec, ImplementsScheduler, Abstract!Spec, Life
=============================================================================
