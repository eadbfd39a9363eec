------------------------------ MODULE Readable ------------------------------
(***************************************************************************)
(* A Readable stream and its pipes: readable.js, and destroy.js where a    *)
(* Readable reaches it.                                                    *)
(*                                                                         *)
(* As in Writable, the code is sequential and re-entrant: `stack` holds    *)
(* what is still to be run, top first, and a handler that calls _read, a   *)
(* listener or a destination is cut at the call.                           *)
(*                                                                         *)
(* Every chunk has length 1, so state.length is the length of the buffer.  *)
(* The destinations of pipes are Writables, seen as the Readable sees      *)
(* them: write's answer, needDrain, 'drain', 'finish' and 'close'.  Each   *)
(* destination is piped to at most once.                                   *)
(***************************************************************************)
EXTENDS Integers, Sequences, SequencesExt, FiniteSets, Functions

CONSTANTS
    Clients,        \* the clients to look at: what they do with the stream
    Dest,           \* the destinations there are
    HighWaterMark,
    MaxChunks,      \* bound: chunks the source has
    MaxCalls        \* bound: calls made by the client

Call == {"on data", "off data", "on readable", "off readable", "read()",
         "read(1)", "pause", "resume", "unshift", "pipe", "unpipe",
         "unpipe all", "destroy", "destroy dest"}

ASSUME SizeAssumption ==
    /\ HighWaterMark \in Nat \ {0} /\ MaxChunks \in Nat /\ MaxCalls \in Nat
ASSUME ClientAssumption ==
    Clients \subseteq
        [may : SUBSET Call,                 \* the calls it makes
         calls : 0 .. MaxCalls,             \* how many
         reads : {"as it likes", "once", "until null"},
                                            \* in its 'readable' listener
         source : SUBSET {"empty", "unasked", "late"}]
                                            \* the pushes its source makes

\* The name of the client's own listener.
ASSUME NameAssumption == "user" \notin Dest

VARIABLES
    r,          \* the ReadableState
    on,         \* the listeners of 'data' and 'end', in order, and of 'readable'
    pipe,       \* the variables of each pipe's closures
    dest,       \* the destinations
    stack,      \* the call stack, top first
    ticks,      \* what nextTick has been given and has not run
    source,     \* what _read has been asked and what was pushed
    client,     \* which client this is, and its calls so far
    pushed,     \* history: the chunks push accepted
    delivered,  \* history: the chunks that left the stream, in order
    got,        \* history: the chunks written to each destination
    emitted     \* history: 'end', 'error' and 'close'

log  == <<pushed, delivered, got, emitted>>
vars == <<r, on, pipe, dest, stack, ticks, source, client, log>>

Do(f) == [fn |-> f, who |-> "", n |-> 0, m |-> 0, data |-> <<>>,
          loop |-> "", called |-> FALSE]
For(f, d) == [Do(f) EXCEPT !.who = d]

NaN     == -1
Read(n) == [Do("read") EXCEPT !.n = n]
Unset   == "null"       \* flowing and kPaused have three values

Init ==
    /\ r = [buffer |-> <<>>, pipes |-> <<>>, flowing |-> Unset, paused |-> Unset,
            ended |-> FALSE, endEmitted |-> FALSE, reading |-> FALSE,
            sync |-> TRUE, needReadable |-> FALSE, emittedReadable |-> FALSE,
            readableListening |-> FALSE, resumeScheduled |-> FALSE,
            readingMore |-> FALSE, awaiting |-> {}, multi |-> FALSE,
            destroyed |-> FALSE, errored |-> FALSE, errorEmitted |-> FALSE,
            closeEmitted |-> FALSE]
    /\ on = [data |-> <<>>, end |-> <<>>, readable |-> FALSE]
    /\ pipe = [d \in Dest |-> [used |-> FALSE, cleanedUp |-> FALSE,
                               ondrain |-> FALSE, hears |-> FALSE]]
    /\ dest = [d \in Dest |-> [status |-> "open", needDrain |-> FALSE]]
    /\ stack = <<>> /\ ticks = <<>>
    /\ source = [asked |-> FALSE, count |-> 0, eof |-> FALSE, empty |-> FALSE]
    /\ \E c \in Clients : client = [is |-> c, calls |-> 0]
    /\ pushed = <<>> /\ delivered = <<>> /\ emitted = <<>>
    /\ got = [d \in Dest |-> <<>>]

-----------------------------------------------------------------------------
(* Running code.                                                            *)

Top == Head(stack)
Runs(f)     == stack # <<>> /\ Top.fn = f
Then(calls) == stack' = calls \o Tail(stack)
Later(e)    == ticks' = Append(ticks, e)
Set(state)  == r' = state

World == <<on, pipe, dest, source, client, log>>

\* A handler that changes the ReadableState only, and goes on with calls.
Becomes(state, calls) == Set(state) /\ Then(calls) /\ UNCHANGED <<ticks, World>>

RunTick ==
    /\ stack = <<>> /\ ticks # <<>>
    /\ stack' = <<Head(ticks)>> /\ ticks' = Tail(ticks)
    /\ UNCHANGED <<r, World>>

ListenerReturns == Runs("user") /\ Becomes(r, <<>>)

Length == Len(r.buffer)
Flows  == r.flowing = "true"
Failed == r.destroyed \/ r.errored

-----------------------------------------------------------------------------
(* read.                                                                    *)

HowMuchToRead(n) ==
    IF n = 0 \/ (Length = 0 /\ r.ended) THEN 0
    ELSE IF n = NaN THEN (IF Flows /\ Length > 0 THEN 1 ELSE Length)
    ELSE IF n <= Length THEN n
    ELSE IF r.ended THEN Length ELSE 0

\* The two terms that say a read of m should call _read, and those that
\* forbid it.
WantsMore(m) == r.needReadable \/ Length = 0 \/ Length - m < HighWaterMark
\* Mutant: read calls _read while an answer is awaited.
MayCallReadAgain == ~r.ended /\ ~Failed

MayCallRead  == ~r.ended /\ ~r.reading /\ ~Failed

StartRead ==
    /\ Runs("read")
    /\ LET n  == Top.n
           m  == HowMuchToRead(n)
           r1 == [r EXCEPT !.emittedReadable = @ /\ n = 0]
       IN
       IF n = 0 /\ r.needReadable /\ (Length >= HighWaterMark \/ r.ended)
       THEN Becomes(r1, <<Do(IF Length = 0 /\ r.ended THEN "endReadable"
                             ELSE "emitReadable")>>)
       ELSE IF m = 0 /\ r.ended
       THEN Becomes(r1, IF Length = 0 THEN <<Do("endReadable")>> ELSE <<>>)
       ELSE IF MayCallRead /\ WantsMore(m)
       THEN Becomes([r1 EXCEPT !.reading = TRUE, !.sync = TRUE,
                               !.needReadable = @ \/ Length = 0],
                    <<Do("_read"),
                      [Top EXCEPT !.fn = "take", !.m = m, !.called = TRUE]>>)
       ELSE Becomes(r1, <<[Top EXCEPT !.fn = "take", !.m = m]>>)

\* What follows the call of _read.
Take ==
    /\ Runs("take")
    /\ LET m    == IF Top.called /\ ~r.reading THEN HowMuchToRead(Top.n) ELSE Top.m
           some == Length > 0 /\ m > 0
           rest == IF some THEN SubSeq(r.buffer, m + 1, Length) ELSE r.buffer
           r1   == [r EXCEPT !.sync = @ /\ ~Top.called, !.buffer = rest,
                             !.needReadable = IF some THEN @ ELSE Length <= HighWaterMark,
                             !.awaiting = IF some THEN {} ELSE @]
           over == rest = <<>> /\ r.ended /\ Top.n # (IF some THEN m ELSE 0)
       IN
       Becomes([r1 EXCEPT !.needReadable = @ \/ (rest = <<>> /\ ~r.ended)],
               (IF over THEN <<Do("endReadable")>> ELSE <<>>)
               \o (IF some THEN <<[Do("data") EXCEPT !.data = SubSeq(r.buffer, 1, m), !.loop = Top.loop]>>
                   ELSE <<>>)
               \o (IF some /\ Top.loop # "" THEN <<Do(Top.loop)>> ELSE <<>>))

\* emit('data'): the listeners are those of the moment of the call.
EmitData ==
    /\ Runs("data")
    /\ delivered' = delivered \o Top.data
    /\ Then([i \in DOMAIN on.data |->
                IF on.data[i] = "user" THEN Do("user")
                ELSE [Top EXCEPT !.fn = "ondata", !.who = on.data[i]]])
    /\ UNCHANGED <<r, ticks, on, pipe, dest, source, client, pushed, got, emitted>>

\* Mutant: the loop does not look at flowing.
FlowAnyway == Runs("flow") /\ Becomes(r, <<[Read(NaN) EXCEPT !.loop = "flow"]>>)

Flow ==
    /\ Runs("flow")
    /\ Becomes(r, IF Flows THEN <<[Read(NaN) EXCEPT !.loop = "flow"]>> ELSE <<>>)

-----------------------------------------------------------------------------
(* push, unshift and the events they cause.                                 *)

\* readableAddChunk for push: data is <<>> for null, <<0>> for no bytes.
Push ==
    /\ Runs("push")
    /\ IF Top.data = <<>>
       THEN /\ UNCHANGED <<ticks, World>>
            /\ IF r.ended
               THEN Set([r EXCEPT !.reading = FALSE]) /\ Then(<<>>)
               ELSE IF r.sync
               THEN /\ Set([r EXCEPT !.reading = FALSE, !.ended = TRUE])
                    /\ Then(<<Do("emitReadable")>>)
               ELSE /\ Set([r EXCEPT !.reading = FALSE, !.ended = TRUE,
                              !.needReadable = FALSE, !.emittedReadable = TRUE])
                    /\ Then(<<Do("emitReadable_")>>)
       ELSE IF Top.data = <<0>>
       THEN Becomes([r EXCEPT !.reading = FALSE], <<Do("maybeReadMore")>>)
       ELSE IF r.ended THEN Becomes(r, <<[Do("destroy") EXCEPT !.n = 1]>>)
       ELSE IF Failed THEN Becomes(r, <<>>)
       ELSE /\ Set([r EXCEPT !.reading = FALSE])
            /\ pushed' = pushed \o Top.data
            /\ Then(<<[Top EXCEPT !.fn = "addChunk"]>>)
            /\ UNCHANGED <<ticks, on, pipe, dest, source, client,
                           delivered, got, emitted>>

\* readableAddChunk for unshift.
Unshift ==
    /\ Runs("unshift")
    /\ IF r.endEmitted THEN Becomes(r, <<[Do("destroy") EXCEPT !.n = 1]>>)
       ELSE /\ Then(<<[Top EXCEPT !.fn = "addChunk", !.called = TRUE]>>)
            /\ delivered' = Front(delivered)
            /\ UNCHANGED <<r, ticks, on, pipe, dest, source, client,
                           pushed, got, emitted>>

\* addChunk, which emits the chunk at once or keeps it.
AddsChunk(atOnce) ==
    /\ Runs("addChunk")
    /\ IF atOnce
       THEN Becomes([r EXCEPT !.awaiting = {}],
                    <<[Top EXCEPT !.fn = "data", !.loop = "flow"], Do("maybeReadMore")>>)
       ELSE Becomes([r EXCEPT !.buffer =
                        IF Top.called THEN Top.data \o @ ELSE @ \o Top.data],
                    (IF r.needReadable THEN <<Do("emitReadable")>> ELSE <<>>)
                    \o <<Do("maybeReadMore")>>)

\* Mutant: a chunk is emitted past those in the buffer.
AddChunkPastBuffer == AddsChunk(Flows /\ ~r.sync /\ on.data # <<>>)

AddChunk == AddsChunk(Flows /\ Length = 0 /\ ~r.sync /\ on.data # <<>>)

EmitReadable ==
    /\ Runs("emitReadable") /\ Then(<<>>)
    /\ Set([r EXCEPT !.needReadable = FALSE, !.emittedReadable = TRUE])
    /\ IF r.emittedReadable THEN UNCHANGED ticks ELSE Later(Do("emitReadable_"))
    /\ UNCHANGED World

\* emitReadable_, up to and from the event; what the listener does there is
\* the client's affair.
EmitsReadable(may) ==
    /\ Runs("emitReadable_")
    /\ Becomes(r, IF ~Failed /\ may
                  THEN (IF on.readable THEN <<Do("onreadable")>> ELSE <<>>)
                       \o <<Do("readableEmitted"), Do("readableAgain")>>
                  ELSE <<Do("readableAgain")>>)

\* Mutant: the end is not announced.
EmitReadableOfChunks == EmitsReadable(Length > 0)

EmitReadable_ == EmitsReadable(Length > 0 \/ r.ended)

ReadableEmitted ==
    /\ Runs("readableEmitted")
    /\ Becomes([r EXCEPT !.emittedReadable = FALSE], <<>>)

ReadableAgain ==
    /\ Runs("readableAgain")
    /\ Becomes([r EXCEPT !.needReadable =
                    ~Flows /\ ~r.ended /\ Length <= HighWaterMark],
               <<Do("flow")>>)

MaybeReadMore ==
    /\ Runs("maybeReadMore") /\ Then(<<>>)
    /\ Set([r EXCEPT !.readingMore = TRUE])
    /\ IF r.readingMore THEN UNCHANGED ticks ELSE Later(Do("maybeReadMore_"))
    /\ UNCHANGED World

\* Mutant: readingMore is never reset.
ReadMoreOnce ==
    /\ Runs("maybeReadMore_")
    /\ IF /\ Top.called => Top.m # Length
          /\ ~r.reading /\ ~r.ended
          /\ Length < HighWaterMark \/ (Flows /\ Length = 0)
       THEN Becomes(r, <<Read(0), [Top EXCEPT !.m = Length, !.called = TRUE]>>)
       ELSE Becomes(r, <<>>)

\* The loop of maybeReadMore_; on the way back m is the length it had.
ReadMore ==
    /\ Runs("maybeReadMore_")
    /\ IF /\ Top.called => Top.m # Length
          /\ ~r.reading /\ ~r.ended
          /\ Length < HighWaterMark \/ (Flows /\ Length = 0)
       THEN Becomes(r, <<Read(0), [Top EXCEPT !.m = Length, !.called = TRUE]>>)
       ELSE Becomes([r EXCEPT !.readingMore = FALSE], <<>>)

EndReadable ==
    /\ Runs("endReadable") /\ Then(<<>>)
    /\ IF r.endEmitted THEN UNCHANGED <<r, ticks>>
       ELSE Set([r EXCEPT !.ended = TRUE]) /\ Later(Do("endReadableNT"))
    /\ UNCHANGED World

\* Emits 'end' to the pipes that listen for it, and to the client.
EmitsEnd(may) ==
    /\ Runs("endReadableNT")
    /\ IF ~may THEN Becomes(r, <<>>)
       ELSE /\ Set([r EXCEPT !.endEmitted = TRUE])
            /\ emitted' = Append(emitted, "end")
            /\ Then([i \in DOMAIN on.end |-> For("onend", on.end[i])]
                    \o <<Do("user"), Do("destroy")>>)
            /\ UNCHANGED <<ticks, on, pipe, dest, source, client,
                           pushed, delivered, got>>

Over == r.errorEmitted \/ r.closeEmitted \/ r.endEmitted

\* Mutants: 'end' though the stream has closed, or though a chunk was put back.
EndAfterClose    == EmitsEnd(~r.endEmitted /\ Length = 0)
EndWithUnshifted == EmitsEnd(~Over)

EndReadableNT == EmitsEnd(~Over /\ Length = 0)

-----------------------------------------------------------------------------
(* Flowing, pausing and listening.                                          *)

Resume ==
    /\ Runs("resume") /\ Then(<<>>)
    /\ IF Flows THEN Set([r EXCEPT !.paused = "false"]) /\ UNCHANGED ticks
       ELSE /\ Set([r EXCEPT !.flowing = IF r.readableListening THEN "false" ELSE "true",
                             !.resumeScheduled = TRUE, !.paused = "false"])
            /\ IF r.resumeScheduled THEN UNCHANGED ticks ELSE Later(Do("resume_"))
    /\ UNCHANGED World

ReadZero == IF r.reading THEN <<>> ELSE <<Read(0)>>

Resume_ ==
    /\ Runs("resume_") /\ Becomes(r, ReadZero \o <<Do("resumed")>>)

Resumed ==
    /\ Runs("resumed")
    /\ Becomes([r EXCEPT !.resumeScheduled = FALSE], <<Do("flow"), Do("flowed")>>)

Flowed ==
    /\ Runs("flowed") /\ Becomes(r, IF Flows THEN ReadZero ELSE <<>>)

Pause ==
    /\ Runs("pause")
    /\ Becomes([r EXCEPT !.flowing = "false", !.paused = "true"], <<>>)

\* Readable.prototype.on('data'), by the client or a pipe.
OnData ==
    /\ Runs("on data")
    /\ on' = [on EXCEPT !.data = Append(@, Top.who)]
    /\ Set([r EXCEPT !.readableListening = on.readable])
    /\ Then(IF r.flowing # "false" THEN <<Do("resume")>> ELSE <<>>)
    /\ UNCHANGED <<ticks, pipe, dest, source, client, log>>

OffData ==
    /\ Runs("off data")
    /\ on' = [on EXCEPT !.data = RemoveFirst(@, Top.who)]
    /\ Then(<<>>)
    /\ UNCHANGED <<r, ticks, pipe, dest, source, client, log>>

OnReadable ==
    /\ Runs("on readable")
    /\ on' = [on EXCEPT !.readable = TRUE]
    /\ IF r.endEmitted \/ r.readableListening
       THEN Then(<<>>) /\ UNCHANGED <<r, ticks>>
       ELSE /\ Set([r EXCEPT !.readableListening = TRUE, !.needReadable = TRUE,
                             !.flowing = "false", !.emittedReadable = FALSE])
            /\ Then(IF Length > 0 THEN <<Do("emitReadable")>> ELSE <<>>)
            /\ IF Length = 0 /\ ~r.reading THEN Later(Read(0)) ELSE UNCHANGED ticks
    /\ UNCHANGED <<pipe, dest, source, client, log>>

OffReadable ==
    /\ Runs("off readable")
    /\ on' = [on EXCEPT !.readable = FALSE]
    /\ Then(<<>>) /\ Later(Do("updateReadableListening"))
    /\ UNCHANGED <<r, pipe, dest, source, client, log>>

UpdateReadableListening ==
    /\ Runs("updateReadableListening")
    /\ LET r1 == [r EXCEPT !.readableListening = on.readable] IN
       IF r.resumeScheduled /\ r.paused = "false"
       THEN Becomes([r1 EXCEPT !.flowing = "true"], <<>>)
       ELSE IF on.data # <<>> THEN Becomes(r1, <<Do("resume")>>)
       ELSE Becomes([r1 EXCEPT !.flowing = IF on.readable THEN @ ELSE Unset], <<>>)

-----------------------------------------------------------------------------
(* Pipes.                                                                   *)

\* dest.writableNeedDrain
WritableNeedDrain(d) == dest[d].status = "open" /\ dest[d].needDrain

Pipes(multi) ==
    /\ Runs("pipe")
    /\ LET d == Top.who IN
       /\ Set([r EXCEPT !.multi = multi, !.pipes = Append(@, d)])
       /\ pipe' = [pipe EXCEPT ![d].used = TRUE]
       /\ IF r.endEmitted THEN Later(For("onend", d)) /\ UNCHANGED on
          ELSE on' = [on EXCEPT !.end = Append(@, d)] /\ UNCHANGED ticks
       /\ Then(<<For("on data", d), For("piped", d)>>)
    /\ UNCHANGED <<dest, source, client, log>>

\* Mutant: awaitDrainWriters stays one destination when there are two.
PipeNoSet == Pipes(r.multi)

Pipe == Pipes(r.multi \/ Len(r.pipes) = 1)

Piped ==
    /\ Runs("piped")
    /\ Becomes(r, IF WritableNeedDrain(Top.who)
                  THEN (IF Flows THEN <<For("pausePipe", Top.who)>> ELSE <<>>)
                  ELSE (IF Flows THEN <<>> ELSE <<Do("resume")>>))

\* Mutant: the source is not paused.
PausePipeOnly ==
    /\ Runs("pausePipe")
    /\ LET d == Top.who IN
       /\ pipe' = [pipe EXCEPT ![d].ondrain = TRUE, ![d].hears = @ \/ ~pipe[d].ondrain]
       /\ Set([r EXCEPT !.awaiting = @ \cup {d}])
    /\ Then(<<>>)
    /\ UNCHANGED <<ticks, on, dest, source, client, log>>

\* pause in pipe.  The drain listener is attached even after cleanup.
PausePipe ==
    /\ Runs("pausePipe")
    /\ LET d == Top.who IN
       /\ pipe' = [pipe EXCEPT ![d].ondrain = TRUE, ![d].hears = @ \/ ~pipe[d].ondrain]
       /\ IF pipe[d].cleanedUp THEN UNCHANGED r /\ Then(<<>>)
          ELSE /\ Set(IF r.pipes = <<d>>
                      THEN [r EXCEPT !.awaiting = {d}, !.multi = FALSE]
                      ELSE IF Len(r.pipes) > 1 /\ d \in Range(r.pipes)
                      THEN [r EXCEPT !.awaiting = @ \cup {d}]
                      ELSE r)
               /\ Then(<<Do("pause")>>)
    /\ UNCHANGED <<ticks, on, dest, source, client, log>>

\* ondata: dest.write(chunk), whose answer is the destination's affair.
OndataRefused ==
    /\ Runs("ondata")
    /\ \/ dest[Top.who].status # "open" /\ UNCHANGED <<dest, got>>
       \/ /\ dest[Top.who].status = "open"
          /\ dest' = [dest EXCEPT ![Top.who].needDrain = TRUE]
          /\ got' = [got EXCEPT ![Top.who] = @ \o Top.data]
    /\ Then(<<For("pausePipe", Top.who)>>)
    /\ UNCHANGED <<r, ticks, on, pipe, source, client, pushed, delivered, emitted>>

\* Mutant: a chunk for a destination that is full is not written.
OndataSkipsFull ==
    /\ Runs("ondata")
    /\ dest[Top.who].status = "open"
    /\ got' = IF dest[Top.who].needDrain THEN got
              ELSE [got EXCEPT ![Top.who] = @ \o Top.data]
    /\ Then(<<>>)
    /\ UNCHANGED <<r, ticks, on, pipe, dest, source, client, pushed, delivered, emitted>>

OndataTaken ==
    /\ Runs("ondata")
    /\ dest[Top.who].status = "open"
    /\ got' = [got EXCEPT ![Top.who] = @ \o Top.data]
    /\ Then(<<>>)
    /\ UNCHANGED <<r, ticks, on, pipe, dest, source, client, pushed, delivered, emitted>>

\* pipeOnDrain.
PipeOnDrain ==
    /\ Runs("ondrain")
    /\ LET left == r.awaiting \ {Top.who}
           goes == left = {} /\ on.data # <<>>
       IN Becomes([r EXCEPT !.awaiting = left,
                            !.flowing = IF goes THEN "true" ELSE @],
                  IF goes THEN <<Do("flow")>> ELSE <<>>)

Unpipe ==
    /\ Runs("unpipe")
    /\ LET d == Top.who  left == RemoveFirst(r.pipes, d) IN
       IF d \notin Range(r.pipes) THEN Becomes(r, <<>>)
       ELSE Becomes([r EXCEPT !.pipes = left],
                    (IF left = <<>> THEN <<Do("pause")>> ELSE <<>>)
                    \o <<For("cleanup", d)>>)

UnpipeAll ==
    /\ Runs("unpipe all")
    /\ IF r.pipes = <<>> THEN Becomes(r, <<>>)
       ELSE Becomes([r EXCEPT !.pipes = <<>>],
                    <<Do("pause")>> \o
                    [i \in DOMAIN r.pipes |-> For("cleanup", r.pipes[i])])

\* onunpipe and cleanup, which may call ondrain.
CleansUp(ondrain) ==
    /\ Runs("cleanup")
    /\ LET d == Top.who IN
       /\ on' = [on EXCEPT !.data = RemoveFirst(@, d), !.end = RemoveFirst(@, d)]
       /\ pipe' = [pipe EXCEPT ![d].hears = FALSE, ![d].cleanedUp = TRUE]
       /\ Then(IF ondrain THEN <<For("ondrain", d)>> ELSE <<>>)
    /\ UNCHANGED <<r, ticks, dest, source, client, log>>

\* Mutant: it never does.
CleanupOnly == CleansUp(FALSE)

\* `awaitDrainWriters` is true when it is a set, even an empty one.
Cleanup ==
    CleansUp(/\ pipe[Top.who].ondrain /\ dest[Top.who].needDrain
             /\ r.multi \/ r.awaiting # {})

\* onend of a pipe.
Onend ==
    /\ Runs("onend")
    /\ dest' = [dest EXCEPT ![Top.who].status = IF @ = "open" THEN "ending" ELSE @]
    /\ Then(<<>>)
    /\ UNCHANGED <<r, ticks, on, pipe, source, client, log>>

-----------------------------------------------------------------------------
(* destroy.                                                                 *)

\* destroy and the default _destroy, which calls back at once; n says if
\* there is an error.
Destroy ==
    /\ Runs("destroy") /\ Then(<<>>)
    /\ IF r.destroyed THEN UNCHANGED <<r, ticks>>
       ELSE /\ Set([r EXCEPT !.destroyed = TRUE, !.errored = @ \/ Top.n = 1])
            /\ Later([Do("emitCloseNT") EXCEPT !.n = Top.n])
    /\ UNCHANGED World

\* emitErrorCloseNT and emitCloseNT.
EmitClose ==
    /\ Runs("emitCloseNT")
    /\ LET error == Top.n = 1 /\ ~r.errorEmitted IN
       /\ Set([r EXCEPT !.errorEmitted = @ \/ error, !.closeEmitted = TRUE])
       /\ emitted' = emitted \o (IF error THEN <<"error", "close">> ELSE <<"close">>)
    /\ Then(<<>>)
    /\ UNCHANGED <<ticks, on, pipe, dest, source, client, pushed, delivered, got>>

-----------------------------------------------------------------------------
(* The source: _read, and push.                                             *)

PushOf(c) == [Do("push") EXCEPT !.data = c]

\* k chunks and then the end, or not; when it is neither, a chunk of no
\* bytes, which not every source pushes.
Pushes(k, end) ==
    [i \in 1 .. k |-> PushOf(<<source.count + i>>)]
    \o (IF end THEN <<PushOf(<<>>)>> ELSE <<>>)
    \o (IF k = 0 /\ ~end THEN <<PushOf(<<0>>)>> ELSE <<>>)

Gives(k, end) ==
    /\ ~source.eof /\ source.count + k <= MaxChunks
    /\ k = 0 /\ ~end => "empty" \in client.is.source /\ ~source.empty    \* only once
    /\ source' = [source EXCEPT !.asked = FALSE, !.count = @ + k, !.eof = end,
                                !.empty = @ \/ (k = 0 /\ ~end)]
    /\ UNCHANGED <<r, on, pipe, dest, ticks, client, log>>

\* _read pushes before it returns.
SourceAnswersAtOnce ==
    /\ Runs("_read")
    /\ \E k \in 0 .. 2, end \in BOOLEAN : Gives(k, end) /\ Then(Pushes(k, end))

SourceKeeps ==
    /\ Runs("_read")
    /\ source' = [source EXCEPT !.asked = TRUE]
    /\ Then(<<>>)
    /\ UNCHANGED <<r, on, pipe, dest, ticks, client, log>>

\* The answer comes from the event loop.
SourceAnswersLater ==
    /\ stack = <<>> /\ source.asked
    /\ \E k \in 0 .. 1, end \in BOOLEAN : Gives(k, end) /\ stack' = Pushes(k, end)

\* A source that pushes when it has something, asked or not.
SourcePushesUnasked ==
    /\ stack = <<>> /\ ~source.asked /\ "unasked" \in client.is.source
    /\ \E end \in BOOLEAN :
          LET k == IF end THEN 0 ELSE 1 IN Gives(k, end) /\ stack' = Pushes(k, end)

\* A source that pushes a chunk after the end.
SourcePushesLate ==
    /\ stack = <<>> /\ source.eof /\ "late" \in client.is.source
    /\ source.count < MaxChunks
    /\ source' = [source EXCEPT !.count = @ + 1]
    /\ stack' = <<PushOf(<<source.count + 1>>)>>
    /\ UNCHANGED <<r, on, pipe, dest, ticks, client, log>>

-----------------------------------------------------------------------------
(* The destinations.                                                        *)

Elsewhere == UNCHANGED <<r, on, pipe, ticks, source, client, log>>

DestDrains(d) ==
    /\ stack = <<>> /\ WritableNeedDrain(d)
    /\ dest' = [dest EXCEPT ![d].needDrain = FALSE]
    /\ stack' = IF pipe[d].hears THEN <<For("ondrain", d)>> ELSE <<>>
    /\ Elsewhere

\* 'finish' after end, and 'close' a tick after destroy: onfinish, onclose.
DestFinishes(d) ==
    /\ stack = <<>> /\ dest[d].status = "ending"
    /\ dest' = [dest EXCEPT ![d].status = "finished"]
    /\ stack' = <<For("unpipe", d)>>
    /\ Elsewhere

DestCloses ==
    /\ Runs("dest closes")
    /\ Becomes(r, <<For("unpipe", Top.who)>>)

-----------------------------------------------------------------------------
(* The client: from the top level, or from a listener.                      *)

\* Its 'readable' listener.
Onreadable ==
    /\ Runs("onreadable")
    /\ Becomes(r, CASE client.is.reads = "as it likes" -> <<Do("user")>>
                    [] client.is.reads = "once"        -> <<Read(NaN)>>
                    [] OTHER -> <<[Read(NaN) EXCEPT !.loop = "onreadable"]>>)

MayCall(call) ==
    /\ stack = <<>> \/ Runs("user")
    /\ call \in client.is.may /\ client.calls < client.is.calls

Calls(call, frame) ==
    /\ MayCall(call)
    /\ client' = [client EXCEPT !.calls = @ + 1]
    /\ stack' = <<frame>> \o stack
    /\ UNCHANGED <<r, on, pipe, ticks, source, log>>

ClientListens ==
    /\ \/ "user" \notin Range(on.data) /\ Calls("on data", For("on data", "user"))
       \/ "user" \in Range(on.data) /\ Calls("off data", For("off data", "user"))
       \/ ~on.readable /\ Calls("on readable", Do("on readable"))
       \/ on.readable /\ Calls("off readable", Do("off readable"))
    /\ UNCHANGED dest

ClientReads ==
    /\ \/ Calls("read()", Read(NaN))
       \/ Calls("read(1)", Read(1))
       \/ delivered # <<>> /\ Calls("unshift", [Do("unshift") EXCEPT !.data = <<Last(delivered)>>])
    /\ UNCHANGED dest

ClientPauses ==
    /\ \E call \in {"pause", "resume"} : Calls(call, Do(call))
    /\ UNCHANGED dest

ClientPipes ==
    /\ \/ \E d \in Dest :
             \/ ~pipe[d].used /\ dest[d].status = "open" /\ Calls("pipe", For("pipe", d))
             \/ d \in Range(r.pipes) /\ Calls("unpipe", For("unpipe", d))
       \/ r.pipes # <<>> /\ Calls("unpipe all", Do("unpipe all"))
    /\ UNCHANGED dest

ClientDestroys ==
    /\ \E n \in {0, 1} : Calls("destroy", [Do("destroy") EXCEPT !.n = n])
    /\ UNCHANGED dest

\* Something destroys a destination; its 'close' follows in a tick.
ClientDestroysDest ==
    \E d \in Dest :
        /\ MayCall("destroy dest") /\ dest[d].status = "open" /\ pipe[d].used
        /\ client' = [client EXCEPT !.calls = @ + 1]
        /\ dest' = [dest EXCEPT ![d].status = "destroyed"]
        /\ Later(For("dest closes", d))
        /\ UNCHANGED <<r, on, pipe, stack, source, log>>

-----------------------------------------------------------------------------

StreamStep ==
    \/ RunTick \/ ListenerReturns \/ Onreadable
    \/ StartRead \/ Take \/ EmitData \/ Flow
    \/ Push \/ Unshift \/ AddChunk
    \/ EmitReadable \/ EmitReadable_ \/ ReadableEmitted \/ ReadableAgain
    \/ MaybeReadMore \/ ReadMore \/ EndReadable \/ EndReadableNT
    \/ Resume \/ Resume_ \/ Resumed \/ Flowed \/ Pause
    \/ OnData \/ OffData \/ OnReadable \/ OffReadable \/ UpdateReadableListening
    \/ Pipe \/ Piped \/ PausePipe \/ OndataRefused \/ OndataTaken \/ PipeOnDrain
    \/ Unpipe \/ UnpipeAll \/ Cleanup \/ Onend
    \/ Destroy \/ EmitClose \/ DestCloses
    \/ SourceAnswersAtOnce \/ SourceKeeps

Outside ==
    \/ SourceAnswersLater \/ SourcePushesUnasked \/ SourcePushesLate
    \/ \E d \in Dest : DestDrains(d) \/ DestFinishes(d)

ClientStep ==
    \/ ClientListens \/ ClientReads \/ ClientPauses \/ ClientPipes
    \/ ClientDestroys \/ ClientDestroysDest

\* Nothing left to run; not a deadlock.
Rest == stack = <<>> /\ ticks = <<>> /\ UNCHANGED vars

Next == StreamStep \/ Outside \/ ClientStep \/ Rest

Fairness ==
    /\ WF_vars(StreamStep) /\ WF_vars(SourceAnswersLater)
    /\ \A d \in Dest : WF_vars(DestDrains(d))

Spec == Init /\ [][Next]_vars /\ Fairness

-----------------------------------------------------------------------------
(* Correctness.                                                             *)

Pieces == {"read", "_read", "take", "data", "flow", "push", "unshift", "addChunk",
           "emitReadable", "emitReadable_", "onreadable", "readableEmitted",
           "readableAgain", "maybeReadMore", "maybeReadMore_", "endReadable",
           "endReadableNT", "user", "resume", "resume_", "resumed", "flowed", "pause",
           "on data", "off data", "on readable", "off readable",
           "updateReadableListening", "pipe", "piped", "pausePipe", "ondata",
           "ondrain", "unpipe", "unpipe all", "cleanup", "onend", "dest closes",
           "destroy", "emitCloseNT"}

Frame == [fn : Pieces, who : Dest \cup {"", "user"}, n : -1 .. 1, m : Nat,
          data : Seq(Nat), loop : {"", "flow", "onreadable"}, called : BOOLEAN]

\* Types; a destination is in pipes at most once, and awaitDrainWriters names
\* destinations.
TypeOK ==
    /\ Range(stack) \cup Range(ticks) \subseteq Frame
    /\ r.flowing \in {Unset, "true", "false"} /\ r.paused \in {Unset, "true", "false"}
    /\ IsInjective(r.pipes) /\ Range(r.pipes) \subseteq Dest
    /\ r.awaiting \subseteq Dest /\ (~r.multi => Cardinality(r.awaiting) <= 1)

\* Between two handlers every chunk accepted has left the stream, once and in
\* order, or is in the buffer behind those that have: whatever the mixture of
\* flowing, reading, unshifting, pausing and piping.
NothingLostOrRepeated == stack = <<>> => delivered \o r.buffer = pushed

\* 'end' comes after the source's end and after every chunk; nothing is
\* delivered afterwards, and no unshift slips in between.
EndComesLast ==
    r.endEmitted => source.eof /\ r.buffer = <<>> /\ delivered = pushed

\* 'end', 'error' and 'close' come at most once, 'close' is the last, and
\* 'end' never follows 'error'.
EventsInOrder ==
    \A i, j \in DOMAIN emitted : i < j =>
        emitted[i] # "close" /\ emitted[i] # emitted[j] /\ emitted[j] # "end"

\* _read is not called again before it has answered.
OneReadAtATime ==
    "unasked" \notin client.is.source => (Runs("_read") => ~source.asked)

\* A client that has paused the stream and does not pipe it gets no chunk it
\* did not ask for with read.
PausedIsQuiet ==
    "pipe" \notin client.is.may =>
        (Runs("data") /\ Top.loop = "flow" => r.paused # "true")

\* A client that makes the stream emit chunks from its own 'data' listener,
\* while the chunk before is still being given out: it reads, or unpipes a
\* destination (cleanup then calls ondrain, which flows).
ReadsInData ==
    /\ "on data" \in client.is.may
    /\ client.is.may \cap {"read()", "read(1)", "unpipe", "unpipe all"} # {}

\* A destination gets consecutive chunks from the moment it is piped to, if
\* no chunk is put back and none is emitted within the emission of another.
PipedInOrder ==
    ~ReadsInData /\ "unshift" \notin client.is.may =>
        \A d \in Dest : \A i \in DOMAIN got[d] : i > 1 => got[d][i] = got[d][i - 1] + 1

\* A client that makes a paused stream emit chunks: it reads, it resumes, it
\* has updateReadableListening resume, or its 'data' listener puts back the
\* chunk it was given.
Overrides ==
    \/ client.is.may \cap {"read()", "read(1)", "resume", "off readable"} # {}
    \/ client.is.reads # "as it likes"
    \/ {"on data", "unshift"} \subseteq client.is.may

\* A destination that has answered false is not written to before it drains,
\* when it is the only one (to pipe to another resumes the stream) and the
\* client leaves the stream to the pipe.
BackPressure ==
    \A d \in Dest :
        Runs("ondata") /\ Top.who = d /\ WritableNeedDrain(d) /\ ~Overrides =>
            \E e \in Dest \ {d} : pipe[e].used

\* 'end', 'error' and 'close' say what is so.
EndsWell == EndComesLast /\ EventsInOrder

\* Whoever has asked the stream to wait is left alone.
WaitsWhenAsked == PausedIsQuiet /\ BackPressure

\* A 'data' listener that is left in place, on a stream nobody has paused,
\* gets everything.  (This and the next two are not true of a source that
\* pushes no bytes before _read returns: maybeReadMore_ then gives up, and
\* nobody calls _read again.)
Listening == "user" \in Range(on.data) /\ ~on.readable /\ r.paused # "true" /\ ~r.destroyed

DataComes == <>[]Listening => <>r.endEmitted

\* So does a 'readable' listener that reads when it is called: it is called
\* again as long as there is something.  (Not true if it is removed and added
\* again before updateReadableListening runs, or if the client reads between
\* emitReadable and its tick, which then leaves emittedReadable set.)
ReadsInListener ==
    /\ client.is.reads # "as it likes"
    /\ client.is.may \cap {"off readable", "read()", "read(1)"} = {}

Reading == on.readable /\ ReadsInListener /\ ~r.destroyed

ReadableComes == <>[]Reading => <>r.endEmitted

\* And so does a destination that stays piped to, drains when it is full and
\* shares the stream with none that is destroyed.
Piping(d) == d \in Range(r.pipes) /\ ~r.destroyed

PipingAmongOpen(d) == Piping(d) /\ \A e \in Dest : dest[e].status # "destroyed"

PipeComes == \A d \in Dest : <>[]PipingAmongOpen(d) => <>r.endEmitted

\* cleanup: "If the reader is waiting for a drain event from this specific
\* writer, then it would cause it to never start flowing again."
NeverStuck == \A d \in Dest : <>[]Piping(d) => <>r.endEmitted
=============================================================================
