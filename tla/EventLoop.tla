----------------------------- MODULE EventLoop -----------------------------
(***************************************************************************)
(* The event loop of drop: src/event_loop/mod.rs (EventLoop, IoSelector),  *)
(* the timer and nextTick functions of src/modules_rs/core.rs, the promise *)
(* job loops of src/quickjs_sys/mod.rs and the main program that drives    *)
(* them (src/main.rs).                                                     *)
(*                                                                         *)
(* One thread runs everything.  A "callback" is one registration: a        *)
(* closure handed once to setTimeout, nextTick, fd_read, ... or one        *)
(* promise reaction job.  JavaScript frames are interleaved with the loop  *)
(* only at the points where the loop calls them, but while a frame runs it *)
(* may change the very table the loop is iterating over.                   *)
(***************************************************************************)
EXTENDS Integers, Sequences, FiniteSets, Functions

CONSTANTS
    Callback,   \* the registrations a program makes
    Delay,      \* the delays it passes to setTimeout
    MaxTime,    \* bound: the clock of the model stops here
    Main,       \* the frame of the entry script
    Idle,       \* no JavaScript frame is on the stack
    Free        \* None, in the task table

ASSUME FrameAssumption ==
    /\ Main \notin Callback /\ Idle \notin Callback /\ Free \notin Callback
    /\ Main # Idle

ASSUME TimeAssumption == Delay \subseteq Nat /\ MaxTime \in Nat

VARIABLES
    phase,      \* where main / js_loop / run_once / poll stand
    running,    \* the JavaScript frame (or Rust I/O callback) on the stack
    jobs,       \* QuickJS's promise job queue
    ticks,      \* EventLoop.next_tick_queue
    tasks,      \* IoSelector.tasks; slot n of the code is tasks[n + 1]
    batch,      \* the events of poll_oneoff not yet handled
    ticked,     \* run_tick_task has run something in this run_once
    now,        \* the wall clock
    kind,       \* how each callback was registered
    due,        \* TimeoutTask.timeout
    handle,     \* what setTimeout returned, as an index of tasks
    done,       \* history: callbacks that ran to their end
    cancelled,  \* history: timers clearTimeout took out of the table
    dropped,    \* history: tasks thrown away by `(_, _) => {}`
    asked       \* history: callbacks whose handle was given to clearTimeout

loop    == <<phase, running, batch, ticked>>
queues  == <<jobs, ticks, tasks>>
record  == <<kind, due, handle>>
history == <<done, cancelled, dropped, asked>>
vars    == <<loop, queues, now, record, history>>

Poller  == {"Timeout", "FdRead", "FdWrite"}
Kind    == {"New", "Job", "Tick"} \cup Poller
Over    == {"exited", "panicked", "halted"}
Phase   == {"startup", "jobs", "ticks", "poll", "batch"} \cup Over

\* An event as poll_oneoff reports it.  `for` is not in the code: it
\* remembers which task the event was reported for.
Event   == [slot : Nat \ {0}, type : Poller, for : Callback]

Init ==
    /\ phase = "startup" /\ running = Main
    /\ jobs = <<>> /\ ticks = <<>> /\ tasks = <<>> /\ batch = <<>>
    /\ ticked = FALSE /\ now = 0
    /\ kind = [c \in Callback |-> "New"]
    /\ due = [c \in Callback |-> 0]
    /\ handle = [c \in Callback |-> 0]
    /\ done = {} /\ cancelled = {} /\ dropped = {} /\ asked = {}

-----------------------------------------------------------------------------
(* What a JavaScript frame may do while it is on the stack.                 *)

\* The callbacks of fd_read and fd_write only settle a promise: they queue
\* reaction jobs and run no script.
InScript ==
    \/ running = Main
    \/ running \in Callback /\ kind[running] \notin {"FdRead", "FdWrite"}

\* Mutant: add_task always writes slot 0.
AlwaysFirstSlot(i) == i = 1

\* add_task takes the first vacant slot, or a new one at the end.
FirstVacant(i) ==
    /\ i \in 1 .. Len(tasks) + 1
    /\ \A j \in 1 .. (i - 1) : tasks[j] # Free
    /\ i <= Len(tasks) => tasks[i] = Free

Stored(i, c) ==
    IF i <= Len(tasks) THEN [tasks EXCEPT ![i] = c] ELSE Append(tasks, c)

Vacated(i) == [tasks EXCEPT ![i] = Free]

AddTask(c, k, i) ==
    /\ kind[c] = "New" /\ FirstVacant(i)
    /\ tasks' = Stored(i, c)
    /\ kind' = [kind EXCEPT ![c] = k]
    /\ UNCHANGED <<loop, jobs, ticks, now, history>>

\* Mutant: setTimeout returns the index of the last slot, as if it had pushed.
SetTimeoutLastIndex(c, d) ==
    /\ InScript
    /\ now + d <= MaxTime
    /\ \E i \in 1 .. Len(tasks) + 1 : AddTask(c, "Timeout", i)
    /\ handle' = [handle EXCEPT ![c] = Len(tasks')]
    /\ due' = [due EXCEPT ![c] = now + d]

\* setTimeout; setImmediate is setTimeout with a delay of zero.
SetTimeout(c, d) ==
    /\ InScript
    /\ now + d <= MaxTime
    /\ \E i \in 1 .. Len(tasks) + 1 :
          /\ AddTask(c, "Timeout", i)
          /\ handle' = [handle EXCEPT ![c] = i]
    /\ due' = [due EXCEPT ![c] = now + d]

FdTask(c, k) ==
    /\ InScript
    /\ \E i \in 1 .. Len(tasks) + 1 : AddTask(c, k, i)
    /\ UNCHANGED <<due, handle>>

FdRead(c)  == FdTask(c, "FdRead")
FdWrite(c) == FdTask(c, "FdWrite")

NextTick(c) ==
    /\ InScript
    /\ kind[c] = "New"
    /\ ticks' = Append(ticks, c)
    /\ kind' = [kind EXCEPT ![c] = "Tick"]
    /\ UNCHANGED <<loop, jobs, tasks, now, due, handle, history>>

\* A promise settles, or an async function awaits a settled one.
EnqueueJob(c) ==
    /\ running # Idle
    /\ kind[c] = "New"
    /\ jobs' = Append(jobs, c)
    /\ kind' = [kind EXCEPT ![c] = "Job"]
    /\ UNCHANGED <<loop, ticks, tasks, now, due, handle, history>>

\* Mutants: clear_timeout takes whatever is in the slot, vacant or not; or any
\* task, whatever its kind.
AnythingAt(i) == TRUE
AnyTaskAt(i)  == tasks[i] # Free

\* The task that clear_timeout(handle[c]) finds: whatever timer is in the
\* slot now, if there is one.
TimerAt(i) == tasks[i] # Free /\ kind[tasks[i]] = "Timeout"

ClearTimeout(c) ==
    /\ InScript
    /\ kind[c] = "Timeout"
    /\ asked' = asked \cup {c}
    /\ \/ /\ TimerAt(handle[c])
          /\ cancelled' = cancelled \cup {tasks[handle[c]]}
          /\ tasks' = Vacated(handle[c])
       \/ /\ ~TimerAt(handle[c])
          /\ UNCHANGED <<tasks, cancelled>>
    /\ UNCHANGED <<loop, jobs, ticks, now, record, done, dropped>>

FrameEnds == done' = done \cup ({running} \cap Callback) /\ running' = Idle

\* JsFunction::call ignores an exception, so returning and throwing are the
\* same to the loop.
Return ==
    /\ running # Idle
    /\ FrameEnds
    /\ UNCHANGED <<phase, batch, ticked, queues, now, record,
                   cancelled, dropped, asked>>

\* JS_ExecutePendingJob < 0: promise_loop_poll stops, js_loop gives up and
\* main's unwrap panics.
JobThrows ==
    /\ running \in Callback /\ kind[running] = "Job"
    /\ FrameEnds
    /\ phase' = IF phase = "startup" THEN "jobs" ELSE "panicked"
    /\ UNCHANGED <<batch, ticked, queues, now, record,
                   cancelled, dropped, asked>>

\* The script calls exit().
Exit ==
    /\ InScript
    /\ FrameEnds
    /\ phase' = "halted"
    /\ UNCHANGED <<batch, ticked, queues, now, record,
                   cancelled, dropped, asked>>

-----------------------------------------------------------------------------
(* The loop itself, between frames.                                         *)

At(p) == running = Idle /\ phase = p

RunJob ==
    /\ At("startup") \/ At("jobs")
    /\ jobs # <<>>
    /\ running' = Head(jobs) /\ jobs' = Tail(jobs)
    /\ UNCHANGED <<phase, batch, ticked, ticks, tasks, now, record, history>>

\* eval_module_str has drained the jobs: main calls js_loop.
EnterLoop ==
    /\ At("startup") /\ jobs = <<>>
    /\ phase' = "jobs"
    /\ UNCHANGED <<running, batch, ticked, queues, now, record, history>>

BeginRunOnce ==
    /\ At("jobs") /\ jobs = <<>>
    /\ phase' = "ticks" /\ ticked' = FALSE
    /\ UNCHANGED <<running, batch, queues, now, record, history>>

\* Mutant: run_tick_task looks at the front of the queue without popping it.
RunTickNoPop ==
    /\ At("ticks") /\ ticks # <<>>
    /\ running' = Head(ticks)
    /\ ticked' = TRUE
    /\ UNCHANGED <<phase, batch, queues, now, record, history>>

RunTick ==
    /\ At("ticks") /\ ticks # <<>>
    /\ running' = Head(ticks) /\ ticks' = Tail(ticks)
    /\ ticked' = TRUE
    /\ UNCHANGED <<phase, batch, jobs, tasks, now, record, history>>

\* Mutants: run_once polls in every turn; run_once never polls.
EndTicksAlwaysPoll ==
    /\ At("ticks") /\ ticks = <<>>
    /\ phase' = "poll"
    /\ UNCHANGED <<running, batch, ticked, queues, now, record, history>>

EndTicksNeverPoll ==
    /\ At("ticks") /\ ticks = <<>>
    /\ phase' = "jobs"
    /\ UNCHANGED <<running, batch, ticked, queues, now, record, history>>

\* run_once polls only in a turn in which no tick task ran.
EndTicks ==
    /\ At("ticks") /\ ticks = <<>>
    /\ phase' = IF ticked THEN "jobs" ELSE "poll"
    /\ UNCHANGED <<running, batch, ticked, queues, now, record, history>>

Occupied == {i \in DOMAIN tasks : tasks[i] # Free}

\* Mutant: js_loop ends when no timer is left.
LoopEndsWithoutTimers ==
    /\ At("poll") /\ \A i \in Occupied : kind[tasks[i]] # "Timeout"
    /\ phase' = "exited"
    /\ UNCHANGED <<running, batch, ticked, queues, now, record, history>>

\* No subscription: poll returns 0 and js_loop ends.
LoopEnds ==
    /\ At("poll") /\ Occupied = {}
    /\ phase' = "exited"
    /\ UNCHANGED <<running, batch, ticked, queues, now, record, history>>

\* poll_oneoff fails: run_once, js_loop and main's unwrap pass it on.
PollFails ==
    /\ At("poll") /\ Occupied # {}
    /\ phase' = "panicked"
    /\ UNCHANGED <<running, batch, ticked, queues, now, record, history>>

\* Mutant: as_subscription loses the fraction of the deadline.
DeadlineTruncated(c) == due[c] - 1

\* The absolute time as_subscription passes to poll_oneoff.
Deadline(c) == due[c]

\* The subscriptions poll_oneoff may report: a clock whose deadline has come,
\* and any descriptor.
Ready == {i \in Occupied : kind[tasks[i]] = "Timeout" => Deadline(tasks[i]) <= now}

EventAt(i) == [slot |-> i, type |-> kind[tasks[i]], for |-> tasks[i]]

\* poll_oneoff blocks until something is ready and reports some of what is,
\* in any order, each subscription at most once.
Poll ==
    /\ At("poll")
    /\ \E n \in 1 .. Len(tasks) : \E order \in [1 .. n -> Ready] :
          /\ IsInjective(order)
          /\ batch' = [k \in 1 .. n |-> EventAt(order[k])]
    /\ phase' = "batch"
    /\ UNCHANGED <<running, ticked, queues, now, record, history>>

\* The body of `for i in 0..n`: the slot is emptied first, whatever it holds.
HandleEvent(e) ==
    /\ At("batch") /\ batch # <<>> /\ e = Head(batch)
    /\ batch' = Tail(batch)
    /\ UNCHANGED <<phase, ticked, jobs, ticks, now, record, done, cancelled, asked>>

EventForVacant ==
    \E e \in Range(batch) :
        /\ HandleEvent(e)
        /\ tasks[e.slot] = Free
        /\ UNCHANGED <<running, tasks, dropped>>

\* Mutant: the task is read from its slot and not taken.
EventMatchesNoTake ==
    \E e \in Range(batch) :
        /\ HandleEvent(e)
        /\ tasks[e.slot] # Free /\ kind[tasks[e.slot]] = e.type
        /\ running' = tasks[e.slot]
        /\ UNCHANGED <<tasks, dropped>>

EventMatches ==
    \E e \in Range(batch) :
        /\ HandleEvent(e)
        /\ tasks[e.slot] # Free /\ kind[tasks[e.slot]] = e.type
        /\ running' = tasks[e.slot]
        /\ tasks' = Vacated(e.slot)
        /\ UNCHANGED dropped

EventMismatch ==
    \E e \in Range(batch) :
        /\ HandleEvent(e)
        /\ tasks[e.slot] # Free /\ kind[tasks[e.slot]] # e.type
        /\ dropped' = dropped \cup {tasks[e.slot]}
        /\ tasks' = Vacated(e.slot)
        /\ UNCHANGED running

EndBatch ==
    /\ At("batch") /\ batch = <<>>
    /\ phase' = "jobs"
    /\ UNCHANGED <<running, batch, ticked, queues, now, record, history>>

Advance ==
    /\ phase \notin Over /\ now < MaxTime
    /\ now' = now + 1
    /\ UNCHANGED <<loop, queues, record, history>>

\* The process is gone; not a deadlock.
Terminated == phase \in Over /\ UNCHANGED vars

ScriptStep ==
    \/ \E c \in Callback :
          \/ \E d \in Delay : SetTimeout(c, d)
          \/ FdRead(c) \/ FdWrite(c) \/ NextTick(c) \/ EnqueueJob(c)
          \/ ClearTimeout(c)
    \/ Exit

LoopStep ==
    \/ RunJob \/ EnterLoop \/ BeginRunOnce \/ RunTick \/ EndTicks
    \/ LoopEnds \/ PollFails \/ Poll
    \/ EventForVacant \/ EventMatches \/ EventMismatch \/ EndBatch

Next == ScriptStep \/ Return \/ JobThrows \/ LoopStep \/ Advance \/ Terminated

Fairness == WF_vars(LoopStep) /\ WF_vars(Return) /\ WF_vars(Advance)

Spec == Init /\ [][Next]_vars /\ Fairness

-----------------------------------------------------------------------------
(* Correctness.                                                             *)

Held    == Range(jobs) \cup Range(ticks) \cup (Range(tasks) \ {Free})
Settled == done \cup cancelled \cup dropped

\* Every variable keeps its type; the event loop is idle once the process is
\* gone.
TypeOK ==
    /\ phase \in Phase /\ ticked \in BOOLEAN
    /\ running \in Callback \cup {Main, Idle}
    /\ jobs \in Seq(Callback) /\ ticks \in Seq(Callback)
    /\ tasks \in Seq(Callback \cup {Free})
    /\ batch \in Seq(Event)
    /\ now \in Nat
    /\ kind \in [Callback -> Kind]
    /\ due \in [Callback -> Nat] /\ handle \in [Callback -> Nat]
    /\ done \in SUBSET Callback /\ cancelled \in SUBSET Callback
    /\ dropped \in SUBSET Callback /\ asked \in SUBSET Callback

\* A registration is in at most one place: in one queue or one slot, on the
\* stack, or settled in one way.  (The queues move their closures with
\* pop_front, take and push; a closure that stayed behind would run twice.)
HeldOnce ==
    /\ IsInjective(jobs) /\ IsInjective(ticks)
    /\ \A i, j \in Occupied : tasks[i] = tasks[j] => i = j
    /\ \A c \in Range(jobs) : kind[c] = "Job"
    /\ \A c \in Range(ticks) : kind[c] = "Tick"
    /\ \A i \in Occupied : kind[tasks[i]] \in Poller
    /\ running \notin Held /\ Held \cap Settled = {} /\ running \notin Settled
    /\ done \cap cancelled = {} /\ done \cap dropped = {}
    /\ cancelled \cap dropped = {}

\* Nothing is forgotten: a registered callback is held, running or settled.
NothingLost ==
    \A c \in Callback : kind[c] # "New" => c \in Held \cup {running} \cup Settled

\* The loop blocks in poll_oneoff only when no promise job and no tick task
\* is waiting: js_loop drains the jobs before run_once, and run_once polls
\* only after a turn in which run_tick_task found nothing.
PollOnlyWhenIdle ==
    phase = "poll" => jobs = <<>> /\ ticks = <<>>

\* When js_loop ends by itself the program has nothing left to run.
QuiescentExit == phase = "exited" => Held = {} /\ running = Idle

\* Every event still to be handled finds the task it was reported for, unless
\* that task was a timer that some callback of the same batch cancelled.  In
\* particular an event for a descriptor always finds its own task.
EventsFindTheirTask ==
    \A i \in DOMAIN batch :
        \/ tasks[batch[i].slot] = batch[i].for
        \/ batch[i].for \in cancelled /\ kind[batch[i].for] = "Timeout"

\* A timer cancelled by a clearTimeout that was not meant for it had taken
\* over the slot of a timer that had already started or been cancelled.
StrayCancelNeedsReuse ==
    \A c \in cancelled \ asked :
        \E d \in asked \cap (Settled \cup {running}) :
            d # c /\ handle[d] = handle[c]

\* A timer starts only at or after its deadline, except in a slot it took
\* over from a timer cancelled in the batch being handled.
EarlyOnlyInReusedSlot ==
    [][ running' # running /\ running' \in Callback
        /\ kind[running'] = "Timeout"
        => due[running'] <= now \/ Head(batch).for \in cancelled ]_vars

\* What these invariants rest on.  A registration not made yet is nowhere;
\* where each phase of the loop may find the queues; what the events of a
\* batch say; and which slot a handle names.
FreshIsNowhere ==
    \A c \in Callback :
        kind[c] = "New" => c \notin Held \cup {running} \cup Settled

\* Where a registration is, in every state: in one place, and in none before
\* it is made.
Places == HeldOnce /\ FreshIsNowhere /\ NothingLost

LoopDiscipline ==
    /\ phase = "poll" => jobs = <<>> /\ ticks = <<>> /\ running = Idle
    /\ phase = "ticks" /\ ~ticked => jobs = <<>> /\ running = Idle
    /\ phase \in Over => running = Idle
    /\ phase = "exited" => Held = {}

BatchWellFormed ==
    /\ \A i \in DOMAIN batch :
          /\ batch[i].slot \in DOMAIN tasks
          /\ batch[i].type = kind[batch[i].for]
          /\ batch[i].type = "Timeout" => due[batch[i].for] <= now
    /\ \A i, j \in DOMAIN batch : batch[i].slot = batch[j].slot => i = j

HandlesNameSlots ==
    /\ \A c \in Callback : kind[c] = "Timeout" => handle[c] \in DOMAIN tasks
    /\ \A i \in Occupied :
          kind[tasks[i]] = "Timeout" => handle[tasks[i]] = i

IndInv ==
    /\ TypeOK /\ HeldOnce /\ NothingLost /\ FreshIsNowhere
    /\ LoopDiscipline /\ BatchWellFormed /\ EventsFindTheirTask
    /\ HandlesNameSlots /\ StrayCancelNeedsReuse

-----------------------------------------------------------------------------
(* The life of a registration, as the abstract scheduler sees it.           *)

LifeOf(c) ==
    CASE c = running     -> "running"
      [] c \in done      -> "done"
      [] c \in cancelled -> "cancelled"
      [] c \in dropped   -> "dropped"
      [] c \in Held      -> "waiting"
      [] OTHER           -> "new"

Process ==
    CASE phase = "exited"               -> "exited"
      [] phase \in {"panicked", "halted"} -> "aborted"
      [] OTHER                          -> "live"

Abstract == INSTANCE Scheduler WITH
    status  <- [c \in Callback |-> LifeOf(c)],
    frame   <- running,
    process <- Process

\* The event loop keeps the promise of Scheduler.
ImplementsScheduler == Abstract!Spec

-----------------------------------------------------------------------------
(* Liveness. *)

\* A process that goes on running settles all it has registered and ends.
Finishes == <>(phase \in Over)
EveryCallbackSettles ==
    \A c \in Callback :
        (kind[c] # "New") ~> (c \in Settled \/ phase \in {"panicked", "halted"})
RunsToItsEnd == Finishes /\ EveryCallbackSettles

-----------------------------------------------------------------------------
(* What a program written for NodeJS relies on, and this code does not do.  *)

\* clearTimeout cancels the timer whose handle it was given, or nothing.
CancelsOnlyWhatWasAsked == cancelled \subseteq asked

\* No registered callback is thrown away.
NothingDropped == dropped = {}

=============================================================================
