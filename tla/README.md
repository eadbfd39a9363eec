# A TLA+ model of drop

drop runs JavaScript in WebAssembly: a Rust host embeds QuickJS, gives it an
event loop over WASI's `poll_oneoff`, and carries a port of the NodeJS standard
library in JavaScript. The models here are translated from the source, function
by function; `PROJECT.json` gives the lines each definition stands for. Paths in
this file are relative to the repository's root.

## 1. The system

### Components

| Component | State | Operations | What must hold |
|---|---|---|---|
| Event loop (`src/event_loop/mod.rs`) | task table of slots, nextTick queue | add and delete a task, `run_once`, `poll`, `run_tick_task` | every registration runs at most once, none is lost; no blocking while work waits; an event reaches its own task |
| Timers and ticks for scripts (`src/modules_rs/core.rs`) | handles held by scripts | `setTimeout`, `setImmediate`, `nextTick`, `clearTimeout`, `exit` | a handle names one timer; a timer waits for its deadline |
| Job loop and main (`src/quickjs_sys/mod.rs`, `src/main.rs`) | promise job queue of QuickJS | `promise_loop_poll`, `js_loop`, `event_loop_run_once`, `JsFunction::call` | jobs before ticks before poll; the loop ends only when nothing is left |
| Writable (`internal/streams/writable.js`, `destroy.js`) | `WritableState`: buffer, length, pending callbacks, some twenty flags | `write`, `cork`, `uncork`, `end`, `destroy`, the sink's answers | order of chunks, one write at a time, each callback once, `finish` after everything, `error` after its callback |
| Readable (`internal/streams/readable.js`) | `ReadableState`, flow mode, pipes | `read`, `push`, `unshift`, `pipe`, `pause`, `resume` | no chunk lost or repeated, back-pressure is lifted, `end` after the last chunk |
| Duplex and Transform (`internal/streams/transform.js`, `duplex.js`) | both of the above, a parked callback | `_transform`, `_flush`, and the calls of both sides | what comes out is what went in; the writer waits for the reader, and not for ever |
| pipeline, end-of-stream (`internal/streams/pipeline.js`, ...) | the streams of a pipeline | `pipeline`, `finished`, `compose` | every stream is destroyed on error |
| EventEmitter (`events.js`) | listener lists | `on`, `once`, `off`, `emit` | a once listener runs once; changes during `emit` do not skip a listener |
| CommonJS loader (`commonjs.js`) | module cache | `require` | each module is evaluated at most once, everyone gets the exports of its script |
| ES module resolution and transpilation (`src/quickjs_sys/resolver.rs`, ...) | none | resolve, transpile | the search order |
| File system (`src/modules_rs/fs.rs`, `internal/fs.js`) | descriptors, `Dir`, `FileHandle`, directory cookies | a WASI call per function; callback and promise forms of each | nobody meets another's descriptor, none is left open, a call is answered once, a paged directory is read once, entirely |
| cp (`internal/fs/cp/*.js`) | what its checks have seen | `cp`, `cpSync` | the copy is what `cpSync` makes; nothing else is changed |
| File streams (`internal/fs/stream.js`) | descriptor, position | `_read`, `_write`, `_destroy` | the range asked for is pushed once; each callback is called; the file is closed |
| path (`path.js`) | none | `resolve`, `relative`, `parse`, ... | they name the same file |
| Buffer, decoders (`buffer.js`, `string_decoder.js`) | memory that Buffers share; an incomplete character | `copy`, `fill`, `write`, searches, integers, encodings | no byte changes but those named; text does not depend on where chunks are cut |
| URL and domain names (`whatwg_url.js`, `punycode.js`) | the URL record and the list of its parameters | the parser, the setters, `URLSearchParams` | a URL can be written and read again; both copies of the query agree |
| Deep comparison (`internal/util/comparisons.js`) | the memory of what is being compared | `isDeepStrictEqual`, `isDeepEqual` | it ends, also on cycles, and says equal of what is equal |
| timers module (`timers.js`, `timers/promises.js`) | lists of handles | wrappers | a handle is not cleared after its timer ran |
| readline (`internal/readline/*.js`) | line buffer, escape parser, pending question | `line`, `question`, `close`, keypress | lines are not split or merged at chunk boundaries |
| npm package (`src/npm/index.ts`, `bin.ts`) | `process.argv` of the host; the chain of processes of the program | `runBusy`, `runDrop`, `exec`; restart and start | argv is what it was when the runs are over; the program restarts once |

Components call each other directly; what crosses time goes through the event
loop: a callback in a slot of the task table, in the nextTick queue or in
QuickJS's job queue. Everything runs on one thread. The hard behaviours are
therefore re-entrancy (a callback called in the middle of a handler calls back
into the same object), the order of the three queues, slot numbers used after
the slot has changed hands, and errors that arrive while something else is in
progress. The complete list of hazards, each at its line, is in `PROJECT.json`.

### What is modelled now

| Module | Stands for | Role |
|---|---|---|
| `EventLoop` | `event_loop/mod.rs`, `core.rs`, the loops of `quickjs_sys/mod.rs`, `main.rs`, `fread`/`fwrite` | detailed specification |
| `Scheduler` | what the loop promises: each registration has one life | abstract specification, implemented by `EventLoop` |
| `EventLoopProofs` | | theorems, proved by TLAPS |
| `MCEventLoop` | | symmetry for TLC |
| `Writable` | `writable.js` and the part of `destroy.js` a Writable reaches | detailed specification |
| `WritableProofs` | | theorems, proved by TLAPS |
| `MCWritable` | | the streams TLC looks at |
| `Readable` | `readable.js` and the part of `destroy.js` a Readable reaches; the destinations of its pipes abstractly | detailed specification |
| `ReadableProofs`, `ReadablePipeProofs` | | theorems, proved by TLAPS |
| `MCReadable` | | the clients TLC looks at |
| `Transform` | `transform.js`, on both halves without what a Transform has no part in | specification |
| `CommonJS` | `commonjs.js`, and what `sys.resolve` and `sys.require` do to it | specification |
| `CommonJSProofs` | | theorems, proved by TLAPS |
| `Files` | `internal/fs.js`: descriptors, `Dir`, `FileHandle`, the calls under way | specification |
| `FilesProofs` | | theorems, proved by TLAPS |
| `Directory` | `freaddir_sync` of `fs.rs`, `Dir.readSync` | specification |
| `FileTree` | the operations on paths of `internal/fs.js` and `fs.rs`; `cp`, with `cpSync` as what it must come to | specification |
| `FileStreams` | `internal/fs/stream.js` | specification |
| `Events` | `events.js` | specification, with the list of listeners as its abstract state |
| `EventsProofs` | | theorem, proved by TLAPS |
| `Path`, `Codecs`, `Buffers`, `WhatwgURL`, `Punycode`, `Comparisons` | the file of that name; `Codecs` the encodings of `buffer.js` and `string_decoder.js` | operators, checked against what they are for |
| `Runner` | `npm/index.ts` | specification |
| `Launcher` | `npm/bin.ts` | specification |
| `LibraryProofs` | | theorems about `FileStreams`, `Runner` and `Launcher`, proved by TLAPS |
| `MCLibrary` | | instances of everything from `Transform` down |

## 2. EventLoop

**State.** `tasks` is `IoSelector.tasks` (slot *n* of the code is `tasks[n+1]`,
`None` is `Free`); `ticks` is `next_tick_queue`; `jobs` is QuickJS's job queue;
`batch` holds the events `poll_oneoff` has returned and `poll` has not yet
handled; `phase` and `running` say where `main`, `js_loop`, `run_once` and
`poll` stand and which JavaScript frame is on the stack. A member of `Callback`
is one registration, so it is registered at most once; `kind`, `due` and
`handle` record how, with which deadline, and what `setTimeout` returned. `done`,
`cancelled`, `dropped` and `asked` are histories.

**Actions.** What a running frame may do: `SetTimeout` (also `setImmediate`),
`FdRead`, `FdWrite`, `NextTick`, `EnqueueJob`, `ClearTimeout`, `Exit`. How it
ends: `Return` (also when it throws: `JsFunction::call` ignores the exception)
or `JobThrows` (a promise job: `promise_loop_poll` stops quietly, `js_loop`
returns the error, which `main` unwraps). What the loop does: `RunJob`,
`EnterLoop`, `BeginRunOnce`, `RunTick`, `EndTicks`, `LoopEnds`, `PollFails`,
`Poll`, then for each event `EventForVacant`, `EventMatches` or
`EventMismatch`, and `EndBatch`. `Advance` is the clock. `Poll` reports any
non-empty selection of what is ready in any order, as `poll_oneoff` may. A frame
that runs between two events of a batch may change the table `poll` is about to
look at: that is where the hard cases are.

**What is checked** (run `event_loop`: three callbacks, two delays, clock up to
1; three is what it takes for one callback to cancel a second and register a
third in its slot within one batch): no registration is in two places or
forgotten (`Places`, which is `HeldOnce` and
`NothingLost`, with `FreshIsNowhere` for the sake of the proof); the loop polls only when no job and no
tick waits (`PollOnlyWhenIdle`) and ends only when nothing is held
(`QuiescentExit`); an event finds the task it was reported for unless that was a
timer cancelled during the batch (`EventsFindTheirTask`); a stray `clearTimeout`
needs a handle whose timer is over (`StrayCancelNeedsReuse`); a timer starts
early only in a slot reused within the batch (`EarlyOnlyInReusedSlot`); and the
whole implements `Scheduler` (`ImplementsScheduler`).

The same run checks `RunsToItsEnd`: the program ends (`Finishes`) and every
registration is settled (`EveryCallbackSettles`); for its sake the run does
without symmetry. Fairness: the loop takes its steps, a frame returns
(JavaScript that never returns blocks any event loop) and the clock advances.
Weak fairness of each is enough, since one thread runs everything. Nothing is
assumed of what frames do. The bound on the number of registrations is what
makes the program end; the bound `MaxTime` on the clock is also a bound on the
deadlines, so no timer is left with a deadline the clock does not reach.

**What is proved** (module `EventLoopProofs`, for every set of callbacks, every
set of delays and every bound on the clock): each of the safety properties
above, type correctness, and the refinement of `Scheduler`. None of the
properties is inductive alone. `FreshIsNowhere` (what is not registered is in no
queue) is what keeps `HeldOnce` when something is registered. The inductive
invariant `IndInv` adds `LoopDiscipline` (in which phases the queues are empty, from which
`PollOnlyWhenIdle` and `QuiescentExit` follow), `BatchWellFormed` (the slots of
a batch are distinct and its types are those of the tasks it was reported for,
so an event for a descriptor cannot meet another task), and `HandlesNameSlots`
(a timer in the table is in the slot its handle names, so a `clearTimeout` that
hits another timer does so through a handle that is over). The proof takes
`IndInv` part by part, each part action by action. The refinement uses it to
read the abstract status of a callback off the place that holds it. The proofs
use `FrameAssumption` (the model values are distinct) and `TimeAssumption` (delays are
natural numbers).

## 3. Writable

**State.** `w` is the `WritableState`, field by field (`stream` is what the
stream's author has implemented and what the run lets sink and client do;
`tickInfo` is `afterWriteTickInfo # null`; `destroyErr`, `onFinishCalled`,
`onDestroyCalled` and `onConstructCalled` are what the closures of `destroy.js`
and `callFinal` capture). `ticks` is what `nextTick` has been given, `owed` the
callbacks the sink has been handed and still holds. `stack` is the call stack:
a handler that calls a callback, a listener or the sink is cut there, and the
rest of it waits below on the stack. Only the top moves, so nothing can happen
between two pieces of a handler but what the handler called.

**Actions.** One per piece of a handler, named for it: `Write` is `_write` with
`writeOrBuffer`; `ClearBuffer`, `ClearBufferLoop`, `ClearBufferTest` and
`ClearBufferEnd` are `clearBuffer` cut at its call of `doWrite`; and so on. The
sink (`SinkAnswersAtOnce`, `SinkKeeps`, `SinkThrows`, `SinkAnswersLater`) and
the client (`ClientWrites`, `ClientCorks`, `ClientUncorks`, `ClientEnds`,
`ClientEndsWith`, `ClientDestroys`) are external. The client may call from the
top level or from inside any callback or listener, which is what makes
`errorBuffer` and `clearBuffer` hard.

**What is checked** (run `writable`). One run looks at six streams: one the
client corks, one whose sink may fail, one with both, one without `autoDestroy`, one with
`_construct`, `_writev` and `_final`, and one whose sink calls back twice or
throws. The client makes at most four calls (three for most of those whose sink may err) and the
sink at most one mistake; four calls are enough for a chunk being written, two in the buffer and
an `end` or `destroy` to meet, and a high-water mark of 2 lets a client be both
told to wait and not. `SpliceAfter = 1` makes `clearBuffer` take the branch that
shortens the buffer, which in the code needs more than 256 entries. The
properties: the byte count is exact, no callback is called twice, chunks reach
the sink in order, no two writes are outstanding and `writing` is set while one
is (and, with a sink that neither throws nor calls back twice, only then),
`finish` comes after every
chunk and callback, each event comes once, nothing but `close` follows `error`,
the error is emitted after the callbacks that report it, and `_destroy` waits
for `_construct`. The last five, about what the client is told, are checked
together as `TellsTheTruth`.

Most of them carry a condition without which TLC refutes them: `CallbackOnce`, and
that the counts of `TypeOK` do not become negative, exclude a client that corks a
stream whose sink may fail (`UncorksErrorBuffer`: `errorBuffer` calls the callbacks
of the buffered writes and empties the buffer only after the last; `uncork` in one
of them starts `clearBuffer` on that buffer); that `error` follows its callback is
so for one mistake of the sink; `OneWriteAtATime` excludes a sink that calls back twice (its second call ends the
write after), the count of `LengthIsOutstanding` holds until the sink makes a mistake (a callback that
`errorBuffer` calls can uncork the stream, and the entry is subtracted twice; or
write, and the chunk is counted and then wiped out), `InOrderOnceConstructed`
excludes `_construct` (see the findings), and `LastEvents` excludes `_final`
and streams without `autoDestroy`.

Run `writable_live`: if the stream does not stay corked and the sink answers,
every accepted write's callback is called (`EveryWriteSettles`), a client told
to wait hears `drain` unless the stream ends (`DrainComes`), and a callback
given to `end` is called (`EndSettles`; it and `EveryWriteSettles` are
checked together as `CallbacksCome`). Fairness: the stream's own code goes
on, callbacks return, and the sink answers what it holds. The first two are
those of the event loop; the last is the contract of `_write`, without which no
stream can settle anything. Nothing is assumed of the client.

**What is proved** (module `WritableProofs`, for every set of streams and every
bound): `OneWrite` (`OneWriteAtATime`), `DestroyWaits`
(`DestroyWaitsForConstruct`), `ChunksInOrder` (`InOrderOnceConstructed`: the
sink gets the chunks in order and once, whatever it answers, also twice, late or with
a throw, and whatever the client calls meanwhile) and `LengthCounts`
(`LengthIsOutstanding`). None is inductive. For the first
two: `writing` is tested when a `clearBuffer` is decided on and used when it runs, and
between the two the stack may hold anything. The invariant says where on the stack a piece may be. Those
that have a write in hand (`sinkWrite`, `onwrite`) and those about to start one
(`doWrite`, `clearBuffer`, `clearBufferLoop`) are never below another piece, so
what their caller saw is what they find; a write in hand means `writing` and no
callback owed, one about to start means not `writing`. Nothing of the kind is
among the ticks, and a `_destroy` on the stack, or its callback owed, means
`constructed`. Most handlers leave all this alone (`Mild`): they put pieces of
other kinds on the stack, or unwind it. The proof therefore has three lemmas for
those and one for each handler that starts, makes or ends a write, waits for
`_construct`, or belongs to the loop, the sink or the client. It uses no assumption
on the constants.

The order of the chunks needs the second invariant, `Ordered`. A loop over the buffer
(`Processing`) keeps its index in a local variable, and its own writes can run
`clearBuffer`, `destroy` and listeners above it. `Framed` says what may be there
(`Fits`): the pieces of the write the loop has made, as long as nothing has gone
wrong, and more only when `errored` is set, when a write goes to the end of the
buffer and not to the sink; there is one such loop at most, and `bufferProcessing` is
set while it is there. `Positions` are the places in the buffer the next chunk can be taken from: the index of the loop,
or `bufferedIndex` when none is at work, or nowhere when a throw has left
`bufferProcessing` set. `Line` says that the chunks the sink has had, the one in hand,
the buffer from any such place on, and the next write are in increasing order, and
that a chunk that waits although the stream is free (not writing, not corked, without
error) is one some piece on the stack is about to take (`Busy`): this is
why a write that finds the stream free may pass the buffer by. The handlers that leave the
buffer alone are `Steady`, and one lemma each deals with those that do not. The
condition on `_construct` enters through `constructed`, which is then set from the
start. Otherwise `onConstruct` sets it while chunks wait and only a tick is there to
take them, which `Line` excludes and the finding `overtaken_chunk` shows.

The count needs a third invariant, `Booked`. `length` goes up in `_write` and down in
`onwrite` and `errorBuffer`; between two handlers it is `writelen` and what is left of
the buffer, but within a handler neither `bufferedIndex` nor the buffer says what is
left, since a loop moves its own index and puts it back only at its end. `Account` is
the balance while handlers are at work: `length` is `writelen`, what `doWrite` on top
of the stack has in hand, and the buffer from where the loop has come to (`Reached`) or,
without a loop, from `bufferedIndex`. For it to hold when a callback runs within a
loop, `Nested` says what may stand above a loop: above one over the buffer
only the pieces of a write that comes to its callback at once (`Calm`); above one of
`errorBuffer` what a callback of the client can reach on a stream that is already
destroyed (`Told`), among which there is no write that is accepted and no loop that finds the
stream free. `From` and `Listed` say that the entries a loop has still to take are
chunks and not the `null` it leaves behind. As `length` is exact only until the sink's first
mistake, `Flawless` is conditional on `faults = 0`; `SoundStack`, which also
gives the second half of the property (a write under way has its callback with the sink),
needs only a sink that neither throws nor calls back twice. `clearBuffer` joins the callbacks of all buffered
chunks with `FlattenSeq`, and that what comes out is again a list of callbacks is an
induction over data. It is proved by the least counterexample (`Least`, from `WFMin` of
`WellFoundedInduction`, which takes a set and not an operator; `FlattenOf`).

Left out of `Writable`: the lengths of chunks (every chunk has length 1),
encodings, the getters and `_undestroy`, abort signals, `pipe`, the side a Duplex
shares with Readable, and an `error` event without a listener.

## 4. Readable

**State.** `r` is the `ReadableState`, field by field; `flowing` and `kPaused`
have their three values; `awaiting` and `multi` are `awaitDrainWriters` (a
destination, a set of them, or null) and `multiAwaitDrain`. `on` holds the
listeners of `data`, in order, and whether there is one of `readable`; `pipe`
has, for each destination, the variables of the closures `pipe` makes; `dest`
is a destination as the source sees it: whether it takes writes, and
`needDrain`. `stack` and `ticks` are as in `Writable`. `source` is what stands
behind `_read`.

**Actions.** One per piece of a handler: `StartRead` and `Take` are `read`
before and after its call of `_read`; `Push`, `Unshift` and `AddChunk` are
`readableAddChunk`, `onEofChunk` and `addChunk`; `EmitReadable_`,
`ReadableEmitted` and `ReadableAgain` are `emitReadable_` around its event;
`Resume_`, `Resumed` and `Flowed` are `resume_`; `Pipe` and `Piped` are `pipe`;
and so on. External are the source (answers within `_read`, from the event loop,
unasked, with no bytes, after its end), the destinations (take a chunk or refuse
it, drain, finish, close) and the client, who calls from the top level or from
inside a listener.

**What is checked** (run `readable`): six clients, each allowed three or four
calls of the methods that interfere with each other: data listeners and pauses;
readable listeners, partial reads and `unshift`; both kinds of listener; pipes
to two destinations made and broken; destinations destroyed; streams destroyed.
Three chunks against a high-water mark of 2 let the buffer be empty, full and
over-full. For all of them: what left the stream and what is in the buffer is
what was pushed (`NothingLostOrRepeated`), `end` comes last and only then
(`EndsWell`: `EndComesLast`, `EventsInOrder`), one `_read` at a time (`OneReadAtATime`), no
flow while paused and no pipe written to while it is full (`WaitsWhenAsked`:
`PausedIsQuiet`, `BackPressure`), and pipes get every chunk in order
(`PipedInOrder`).

Run `readable_live`: a data listener, a readable listener or a pipe that is left
in place comes to `end` (`DataComes`, `ReadableComes`, `PipeComes`). Fairness:
the stream's code goes on, a `_read` that was kept is answered (the contract of
`_read`), a full destination drains. Nothing is assumed of the client: a stream
somebody has paused is excluded by the properties themselves. Two chunks and
three calls are enough to lose a wake-up, as the mutants show.

TLC refutes these properties without the condition they carry, and each condition
is how the code behaves:

* `PipedInOrder`: a `data` listener that reads, or that unpipes a full destination
  (`cleanup` calls `ondrain`, which flows at once), makes the next chunk come out
  before the present one has reached the destinations behind it (`ReadsInData`).
* `BackPressure`: `pipe` resumes a stream that is paused for another, full,
  destination, which is then written to; and so does a client that reads, resumes,
  takes away a `readable` listener, or puts a chunk back from a `data` listener
  (`Overrides`).
* all liveness: a source that pushes an empty chunk before `_read` returns is
  not asked again (`maybeReadMore_` stops spinning).
* `ReadableComes`: a listener removed and added again within a tick, or a read
  between `emitReadable` and its tick, leaves `readableListening` or
  `emittedReadable` set, and the next event is skipped.

**What is proved** (modules `ReadableProofs` and, for the last, `ReadablePipeProofs`,
for every set of clients and destinations and every bound; of the names is assumed only that no destination has
that of the client's own listener, `NameAssumption`): `Types` (`TypeOK`),
`KeepsEveryChunk` (`NothingLostOrRepeated`), `EndsProperly` (`EndsWell`), `AsksOnce`
(`OneReadAtATime`), `LeavesAlone` (`WaitsWhenAsked`) and `PipesInOrder`
(`PipedInOrder`). None is inductive, as the
first holds only between two handlers and the others depend on what a suspended
handler has seen. The inductive invariant `Inv` says, as for `Writable`, what may be
below what on the stack (`Shape`): between a call of `_read` and its return run only
pieces that emit nothing, so that what `read` computed before the call is still so
after it; and a chunk that has left the source or the buffer and has not been counted
as delivered is at the top or right under `endReadable`. `Ledger` then holds in every
state: what was delivered, the chunk on its way ahead of the buffer, the buffer, and
the chunk on its way behind it are what was pushed. `Fits` says what is so while a
piece waits (a `_read` to be called means `reading`; a chunk to be pushed means that
the source has been asked), `Closing` that one `close` at most is on its way. A step
replaces the top of the stack by pieces; most steps change nothing that pieces below
depend on and go through `FreeStep` or `FlagStep`, and those that read, push, put back,
end or pipe have a proof each.

`LeavesAlone` needs a second invariant, `Waiting`, over `Inv`. That a paused stream of a
client that does not pipe is not flowing is `StaysPaused`; but a piece put on the stack
while it flowed runs later. So `Sit` and `TickSit` say what may wait on the stack and
among the ticks: a loop of `flow` only while the stream flows, pieces of a destination
only once it is piped to, and of a client that does not override a pause only what such
a client causes; and `FlowsOnTop` that a read of `flow` is always the next to run, so
that nothing pauses the stream between. For a destination that is the only one,
`Heeds(d)` says that while it is full and listens the stream does not flow, or what
stops it runs next; and of the pieces that resume the stream or write to it, where they
are (`Placed`: on top, or below only pieces that cannot fill it) and what is so while
they wait (`Bides`: it is not full). `Listeners` says that whoever listens was piped
to. Each conjunct fails to be inductive without the others.

`PipesInOrder` needs a third, `Orderly`, over both. That what a destination got is
consecutive says nothing of the chunk that comes next, so two more things are said.
What the stream delivers is itself consecutive: the source counts the chunks it makes,
and those it has pushed but that are not accepted yet wait on the stack, at most two of
them, so that what is accepted is 1, 2, 3 and so on until the source ends or fails
(`Counted`); with `Ledger` of `Inv`, the n-th chunk delivered is n. And of every
destination it is said what it got last (`FedInOrder`): what was delivered before the
chunk that is being written to it, if there is one on the stack, and otherwise the chunk
delivered last, as long as it is open and listens; one that is yet to listen has got
nothing. This holds because while a chunk is being given out only those pieces run above
it that emit none (`Hush`, which is where the condition on the client enters: a client
that reads or unpipes in a `data` listener, or puts a chunk back, breaks it), and because
the list of listeners names a destination once.

The liveness properties stay with TLC.

Left out of `Readable`: the lengths of chunks (all 1), encodings, object mode,
construction, `wrap`, `from`, the async iterator, errors of destinations, and a
second pipe to the same destination.

## 5. Transform

**State.** `t` is both halves, `t.w` and `t.r`, with the fields of `Writable` and
`Readable` a Transform uses, and between them `parked` (`this[kCallback]`, the
chunk whose callback waits for a reader), `from` (the length of the read buffer
when the chunk was given to `_transform`) and `owed` (the chunk, or the flush,
the program has not answered). `plan` is what the program does with each chunk
and at the flush. `calls` is empty between steps: the client does not call from
inside a callback here, so a call runs to completion in one step, and `Run` takes
the handlers from that list one after the other.

**Actions.** The client writes, ends, reads and destroys; the program pushes
(`ProgramPushes`) and answers later (`ProgramAnswers`), or at once within
`DoWrite`; `RunTick` takes the oldest tick. An answer is the callback or, by a
promise, the callback in a tick, and may be an error.

**What is checked** (in run `library`: two chunks, a mark of 1, six ways to treat
a chunk and four to flush; two chunks of up to two pieces let one be parked while
the other waits in the write buffer): `TransformKept` is that what comes out is
what the chunks were made into, in order and complete (`ComesOutInOrder`); a
chunk's callback comes once (`ToldOnce`); the read buffer passes its mark by what
one chunk is made into at most (`HoldsBack`); at rest a chunk waits only because
the buffer is full or the stream is destroyed (`WaitsForRoom`); and `finish`,
`end` and `close` come in order, and come (`EndsInOrder`).

Where these are weaker than one would like, the code is: `_write` decides whether
a chunk pushed something by comparing lengths (`length === rState.length`), which
is also true of one that pushed as many as were read meanwhile, so such a chunk
goes on although the buffer is full; once the writer has ended nothing is held
back at all; a stream destroyed while a callback is parked never calls it, nor
those of the buffered writes; and a destroyed stream whose write is answered
after `end` emits `finish` without having flushed.

## 6. CommonJS

**State.** `cached` is the key set of `modules`, `loaded` those with `_loaded`,
`exports` says which of a module's two exports objects it answers with: `empty`,
made by the constructor, or `own`, made by `load` for the script. `stack` are the
modules whose scripts are running: `eval` runs a script to its end inside the
`require` that loads it. `requires` is the program, chosen in the initial state:
which module may require which. `failed`, `runs` and `got` are histories.

**Actions.** `RequireCached`, `Load` (up to the call of the script),
`ScriptEnds` (the rest of `load` and of `require`), `ScriptThrows` (nothing is
taken back), `Panics` (`sys.resolve` and `sys.require` end the program). `Catch`
is whoever has called `require`.

**What is checked** (in run `library`: every program of three modules, enough for
cycles, diamonds and a failure in the middle of either): no script runs twice
(`EvaluatedOnce`); without cycles and failures everybody gets the module's own
exports (`AcyclicGetsOwn`). A program has no cycle if its modules can be ranked
so that each requires only lower ones; `MaxRank` bounds the ranks, and 2 is
enough for three modules. Modules are the paths `resolve` answers; since it
neither normalises them nor takes them relative to the requiring module, two
spellings of a path are two modules. That a script can call `require` again
after its module is loaded is covered by the empty stack, from which anything may
be required.

**What is proved** (module `CommonJSProofs`, for every set of modules, every
program and every bound on the ranks): type correctness with the account of the
cache (`TypesHold`: a cached module is loaded, has failed, or is on the stack,
once), `RunsOnce` and `OwnExports`. The inductive invariant `Inv` adds
`RunsCounted` (what is not cached has not run), `LoadedIsOwn` (a loaded module
answers with its own exports) and `RanksFall`: whatever ranking the program has,
ranks fall along the stack. Hence a module found in the cache by the top of the
stack, being of lower rank, is not on the stack; so it is loaded. The proofs use
`RankAssumption`.

## 7. The library

`MCLibrary` checks in one run the components a script uses one at a time. They
share no state, so a behaviour is about one of them: `focus` says which, and the
variables of the others stay at a value that means nothing. Each property reads
`focus = "..." => ...`, and is thus checked in the part of the state space that is
about its component; each has a mutant in that component. `CommonJS` is extended
and the others are instantiated. `ComponentTypes` joins their type invariants.

**Files** (run with two descriptor numbers, one failing system call, five kinds
of client with three to six calls). `table` says which open each number belongs
to, `objs` what a client got of each open (a number, a `Dir` or a `FileHandle`),
`calls` the callback and promise forms under way, each at its `timeout`, `then`,
`catch` or `rejected` turn. `Dir.close` and `Dir.read` have both forms
(`throws = "promise"`): a `Dir` closed with a callback counts as closed even if the
close failed, one closed for a promise does not. Anything may run between two turns, and a closed
number is given to the next open: with two numbers a call can meet its own, a
stranger's, and none. `FilesKept` is that nobody meets another's descriptor
unless a `Dir` or `FileHandle` was used while its close was on its way (or had its
number closed under it by such an object), that when all is over no descriptor is open that nobody can close but by the leaks the code
is known to have (each open remembers which), and that a call is answered once,
but for the cases listed at `AnsweredOnce`.

**What is proved** (module `FilesProofs`, for every set of clients, of descriptor
numbers and every bound): `Types` (`FilesTypeOK`), `Astray` (`StrayNeedsOverlap`),
`NothingStaysOpen` (`NothingLeftOpen`) and `EveryoneIsAnswered` (`AnsweredOnce`), which
together are all that `FilesKept` says of `Files`. The argument is about who owns a number.
An open that may still use its number (`Live`: it is not shut, or a call that opened
it for itself is under way) has it, or was `Robbed` (`Keeps`): it was used while it was
being closed, or an object of that kind closed its number. What has a number is live or
known to be left behind (`Leaves`). For `Keeps` to survive a close one must know when a
close is an overlap, so an object counts the closes under way and the count is exact
(`Counted`: the cardinality of a set of calls); and a file opened for a call belongs to
that call alone (`OneEach`). Most steps leave the table and the counts alone and go
through `Mild`; each other step through a lemma about what it does to the table: opens,
releases, or begins or ends a close. The hypothesis `FilesBounds` only says that the
clients are of the kind described and that `MaxFaults` is a natural number.

**Directory** (a page of 13 bytes, up to seven entries of two lengths: every
alignment of the entries with the end of a page, over several pages). The host's
`fd_readdir` is external. Part of `FilesKept`: the entries come in order, each
once, and only the last can be missed (`ListedOnce`); it is, when it ends exactly
where the page ends.

**FileTree** (two names, two levels, files, directories and links; one operation
of somebody else). The operations are functions on trees; `cp` is a process that
checks, waits and acts, one step for each `await`, `CpSync` the recursive function that does the same in one
turn. `TreeKept`: undisturbed, `cp` ends with the tree and the success of
`cpSync` (`CpIsCpSync`, an implementation of an atomic specification by a
sequence of steps); its source stays as it was, and without `force` so does what
was at the destination (`CpKeeps`); and `rename`, `rm` and `mkdir` touch only what
they should (`PathOperations`).

**FileStreams** (a file of four bytes, a buffer of six, every range that begins or
ends before, at or behind the end of the file, and one that begins behind its own end). What the streams around them do is
external, and is what `Readable` and `Writable` guarantee. `FileStreamsKept`: a
ReadStream pushes the range before its first end (`UpToTheEnd`), or, made without
options or with the name of an encoding, is destroyed by its first read; a WriteStream,
which fails after its first chunk, answers it once and closes its file, unless
destroyed during the write (`OneChunk`).

**What is proved** (module `LibraryProofs`, for files, buffers and ranges of any
size; `StreamsBounds` only says that they are natural numbers, with -1 for an end
that is not given and -2 for no options): both of these, and that neither stream closes a file more
often than it has opened one (`StreamsTypeOK`). A ReadStream's second read may
begin at the descriptor's own offset, which the first has not moved. It does no
harm where `UpToTheEnd` speaks, and the invariant (`Progress`) says why: until the
stream has ended, nothing has been read or everything has, since a range inside
the file is read at once or is too long for the buffer and destroys the stream, and
what the second read asks for is nothing.

**Events** (four calls, also from inside listeners). `events` and `heap` are the
emitter's structures: nothing, a function, or an array that calls under way may
still hold. `list` is what they should come to, a sequence of listeners per event,
changed by the same operations. `EmitterKept`: the structures are the list, and
`_eventsCount` counts it (`IsTheList`), a once listener runs once and no hole is
called (`OnceRunsOnce`), and `removeAllListeners` ends (`ClearingEnds`), but for
one case given there. Four calls are enough for a listener to emit while it is
removed, and for the exception to `ClearingEnds`.

**What is proved** (module `EventsProofs`, for any listeners and any number of
calls, provided `undefined` is not a listener): `EmitterHolds`, that is
`EmitterKept` as a whole. `EmitterKept` is not inductive: a removal from an array
keeps the others' lists only because no two events share an array, which the list
does not say; what a suspended `add` will append must be a listener; and that an
array under clearing stays the event's needs that an entry that leaves `events`
goes to `dropped` or is left with a hole. `Inv` adds these (`Structure`, `Fitting`)
and ties `ran` to `fired` (`Once`). The steps that leave the structures alone go
through one lemma (`StackStep`); adding, removing and clearing through `OneEvent`
(an event gets another list) and `FramesKept` (the calls under way still fit).

**Path** (all pairs of paths of up to four of `/`, `.` and a letter, which holds
every combination of `.`, `..`, roots and trailing separators that the functions
tell apart). Part of `TextsKept`: `relative` leads from one path to the other and
`normalize`, `dirname` with `basename`, and `parse` with `format` name the same
file.

**Codecs** (up to four bytes, in chunks of up to three; the bytes begin, continue
or break characters of each length). Part of `TextsKept`: the decoder fed with chunks
says what decoding the whole says, and what one side encodes the other decodes.

**WhatwgURL** and **Punycode** (fourteen URLs, ten references, two setters one
after the other with seventeen values; labels of up to four of seven code points,
on either side of each limit of the code). Each state of the parser is an
operator on the machine `m`, run to its end from `SchemeStart` or, by a setter,
from the middle. `UrlsKept`: the URL's text parses to the URL, the list of
parameters is that of the query, credentials and ports need a host; labels come
back from their encoding, and what can be decoded is the encoding of what it
decodes to, unless its only `-` comes first and is read as a digit.

**Buffers** (bytes of four values, memories of five and eight bytes, two calls,
positions before, inside, at and behind the ends). `mem` holds the memories and
`views` the Buffers over them. `BuffersKept`: each method changes the bytes it
names, by their values before the call, and nothing else: a swap turns each group
of bytes around, an integer of width 0 writes one byte, at the offset or before it.
A search finds the first or the last place (its answer is counted in halves, since
a backward search for 16-bit units answers half an index, whole or not), and what
is written as an integer of a width is read back at it.

**Comparisons** (three objects that refer to each other and to themselves, three
or four changes). `ComparisonsKept` compares the answers with the greatest
relation that no program can tell apart (`Indistinct`, a fixed point): strict
equality implies it, finds it on acyclic objects, is symmetric, implies loose
equality; and a comparison ends, but for loose Maps with a key `null` or
`undefined`.

**Runner** (three runs, each executed up to twice) and **Launcher** (four nodes,
every set of flags, four processes). `argv` is the run that set `process.argv`, or
0; `chain` the processes, each the child of the one before. `PackageKept`: whatever
order runs begin, load, fail, settle and repeat in, `process.argv` is the host's
again when no run is open, but for one case: a run puts its value back after a run
it began in has ended. Two runs are enough for that case, three and a second
execution for runs that begin between the ends of others. And the
second process starts the command, unless no flag can help, and success is told
only of the command.

**What is proved** (module `LibraryProofs`, for any number of runs and executions):
`ArgvIsKept`. The invariant (`Nested`) says that, until runs cross, both `argv` and
every value a run will put back are the host's or that of a run that was open when
it was read.
`LauncherHolds` (`LauncherKept`, for chains of any length and every node whose version
passes, `LauncherBounds`): a status 0 anywhere in the chain is the last process's, which no
process that still runs has, and from the second on a process has every flag, so that a
third is started only where no flag gives the node a module `wasi`.

At these bounds TLC's coverage shows no action of the fifteen components, and no
branch of one, that is never taken. `Events` has also been run with five calls.

## 8. What the runs found

* `stray_cancel`: a timer's handle is a slot number, reused at once. A
  `clearTimeout` after the timer has run cancels another timer.
  `emitKeypressEvents.js` and `timers.js` clear such handles.
* `dropped_task`: `poll` empties a slot before it compares the event's type with
  the task's. A descriptor task registered by a callback in the slot of a timer
  cancelled in the same batch is thrown away, and its promise never settles. In
  the same way a new timer in such a slot starts at once; this is the exception
  `EarlyOnlyInReusedSlot` makes.
* `overtaken_chunk`: `onConstruct` sets `constructed` but the buffer is cleared
  one tick later; a write in between overtakes the buffered ones.
* `lost_callback`: `errorBuffer` calls the callbacks of `end` after its loop over
  the buffer. A write made in one of them is accepted, buffered, and wiped out
  by `resetBuffer` with its callback. (Without `autoDestroy`, or before
  `destroy`, the stream still accepts writes.)
* `stuck_pipe`: a source is piped to two destinations and one is destroyed. If a
  chunk comes before its `close`, it refuses the chunk, the source pauses for
  it, and `cleanup` does not lift the pause, because a destroyed stream's
  `needDrain` is false. The other destination never gets anything again.
* `empty_exports`: `module.exports` of a module that is being loaded is not the
  object its script fills, so the second of two modules that require each other
  gets, and keeps, an object that stays empty.

Met while modelling, and stated in the models as the exception a property makes
or as the behaviour of an action; none of them contradicts a line of the
repository's own documentation:

* readline cannot be loaded: `internal/readline/interface.js:1218` names
  `SymbolAsyncIterator`, and `pipeline` and `compose` throw because
  `AbortController` (`internal/streams/pipeline.js:161`, `duplex.js:275`) is
  defined nowhere.
* `fs.js`: `Dir.close` and `FileHandle.close` called twice close a stranger's
  descriptor if the number was given out meanwhile; the `catch` of `read` (1529)
  names `err`, which is not defined; `writeFile` calls back before it closes, and
  leaves the file open when the callback throws or the data is bad (2057-2110);
  `readFile` and `readdirSync` leave it open after an error; the callback of
  `Dir.read` is called twice at the end (2468); `readdir` leaves the descriptor
  open when the close of its iterator fails (2516).
* `freaddir_sync` drops an entry that ends exactly where the page does, for good
  if it is the last one of the directory.
* `cp` acts on what it saw before it waited, and removes a link at the
  destination before it finds that it cannot replace it. `copyFile` of a file onto
  itself empties it (`fs.rs` 356).
* A WriteStream fails after its first chunk: `stream.js:85` names `bytes`, which
  is not defined. A ReadStream destroyed before its file is open leaves it open;
  one made without options is destroyed by its first read, which sets `end` on the
  string `"utf8"` (134, 187).
* `resolver.rs` 39 does not normalise a path nor take it relative to the module that
  requires it: `./a` and `a.js` are two modules, each evaluated.
* `bin.ts` on a node that has no module `wasi` restarts itself without end, and
  `hasMinimumNode16Version` compares 142103, for 14.21.3, with 16000: any node
  since 1.60 passes.
* `removeAllListeners` (`events.js` 372-375) can loop for ever when a listener to
  `removeListener` clears the event.
* `process.cwd()` is `./`, so `path.resolve` of relative paths stays relative and
  `path.relative` of two such paths loses characters.
* `string_decoder.js` 147-159 keeps the wrong bytes of a chunk that is longer than
  the lead it ends with; `utf8ToBytes` drops the second of two leads at the end.
* `buffer.js`: `copy` with `end` 0 before `start` answers a negative number; `fill`
  from a slice of what is filled spreads what it has just written; `lastIndexOf`
  in UTF-16 halves its answer, which need not be an integer then; writing an integer
  of width 0 writes a byte, big-endian the one before the offset.
* `whatwg_url.js` counts UTF-16 units where it means characters (241-244), and
  keeps the host `localhost` when the scheme is changed to `file`.
* `comparisons.js`: values under symbols are compared for arrays only; an object
  without prototype makes it throw; `memo` (461) is never assigned, so that loose
  comparison of Maps in a cycle through a key `null` overflows the stack.

## 9. What is only model-checked, and what is not modelled

Liveness is checked and not proved: the proof system does not reach it. `Codecs`,
`Comparisons`, `FileTree`, `Transform` and `WhatwgURL` declare recursive
operators, as the code they model recurses over trees, graphs and texts, and the
proof system cannot take them. The other
modules without a `Proofs` module are so far model-checked only, and so are the
properties of `Writable` other than the four above (types, `CallbackOnce`,
`TellsTheTruth`). These rest on `pendingcb`, which counts the callbacks that are still to be
called: where each of them is, over the buffer, the stack, the ticks and what the sink
holds, is a count no invariant above keeps. The properties of `MCLibrary` put
several modules together; some of their conjuncts are proved (the theorems of
`EventsProofs`, `FilesProofs` and `LibraryProofs`), the conjunctions are not.

Not modelled, and why:

* readline, `pipeline` and `compose`: they throw before they do anything.
* the legacy `url.js` and `querystring.js`: string functions without state,
  superseded by `whatwg_url.js`.
* `assert`, `inspect`, `printf` and the errors: wording and layout. What `assert`
  decides by is `Comparisons`.
* `process`, `os`, `tty`, the rest of `fs` (`stat` and its formats, times, modes):
  constants and single system calls.
* the WASI bindings, which are foreign-function declarations, the QuickJS binding
  beyond its loops, transpilation, and vendored or generated code.

Left out of what is modelled: the lengths of chunks and bytes moved by the event
loop's descriptor tasks, the values that cross the QuickJS binding, the conversion
of a JavaScript number into a delay, a descriptor given to a ReadStream
(`opts.fd`), and what each section above names.

## 10. Plan

1. An abstract write queue (chunks in order, one outstanding, each callback once)
   that `Writable` implements, proved from the invariant of `WritableProofs`.
2. The callbacks of `Writable` (`CallbackOnce`, `TellsTheTruth`): where the
   callback of each write is, and that `pendingcb` counts them. `Booked` gives the
   place of each loop and what may stand above it; to be added are the callbacks in
   the lists, the ticks and the closures, with the least counterexample as in
   `FlattenOf` in place of induction.
3. `finished` (`end-of-stream.js`) over `Readable`, `Writable` and `Transform`.
4. `Readable` over the abstract destinations replaced by `Writable` itself.
