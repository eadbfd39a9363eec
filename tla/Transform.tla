----------------------------- MODULE Transform -----------------------------
(***************************************************************************)
(* transform.js over both halves of a Duplex: a chunk written is given to    *)
(* _transform, which pushes what it makes of it into the read buffer; when   *)
(* that is full the chunk's callback is parked until somebody reads.         *)
(*                                                                          *)
(* The halves are those of Writable and Readable without what a Transform    *)
(* has no part in: corks, _writev, construction, unshift, pipes, flowing.    *)
(* Both are in object mode, and the client does not call from within their   *)
(* callbacks, so whatever a call does until it returns is one step.          *)
(***************************************************************************)
EXTENDS Integers, Sequences, FiniteSets, SequencesExt

CONSTANTS Kinds,     \* what _transform may do with a chunk
          Flushes,   \* what _flush may do
          MaxChunks, \* bound: chunks written
          MaxTicks,  \* bound: ticks that a reader lets pile up
          HighWaterMark

VARIABLE t  \* both halves, what the program does with each chunk written and at
            \* the flush, and what the client has seen

Chunks == 1..MaxChunks
Flushing == MaxChunks + 1 \* stands for the flush among the chunks
Outs(s, i) == [k \in 1..s.plan[i].outs |-> <<i, k>>]

TransformInit == \E f \in Flushes : t =
    [w |-> [writing |-> 0, length |-> 0, buffered |-> <<>>, processing |-> FALSE, sync |-> TRUE,
            needDrain |-> FALSE, pendingcb |-> 0, ending |-> FALSE, ended |-> FALSE,
            finalCalled |-> FALSE, prefinished |-> FALSE, finished |-> FALSE],
     r |-> [buffer |-> <<>>, reading |-> FALSE, sync |-> FALSE, needReadable |-> FALSE,
            emittedReadable |-> FALSE, readingMore |-> FALSE, ended |-> FALSE, endEmitted |-> FALSE],
     parked |-> 0, from |-> 0, given |-> 0, owed |-> 0, destroyed |-> FALSE, errored |-> FALSE, calls |-> <<>>,
     ticks |-> <<>>, plan |-> [i \in Chunks \cup {Flushing} |-> f], written |-> 0,
     told |-> <<>>, events |-> <<>>, got |-> <<>>]

\* What is to be run, now or in a tick; Then puts calls before what is left of
\* the handlers that are being run, so that the first is run next.
Call(fn, arg)  == [fn |-> fn, arg |-> arg, later |-> FALSE]
Queue(fn, arg) == [fn |-> fn, arg |-> arg, later |-> TRUE]
Then(s, calls) == [s EXCEPT !.calls = calls \o @]
NextTick(s, fn, arg) == [s EXCEPT !.ticks = Append(@, Call(fn, arg))]
Emit(s, event) == [s EXCEPT !.events = Append(@, event)]
Tell(s, i, how) == [s EXCEPT !.told = Append(@, [chunk |-> i, how |-> how])]
Has(s, event) == event \in Range(s.events)
Destroy(s, failed) ==
    IF s.destroyed THEN s
    ELSE NextTick([s EXCEPT !.destroyed = TRUE, !.errored = @ \/ failed],
                  IF failed THEN "error, close" ELSE "close", 0)
ErrorClose(s, failed) ==
    Emit(IF failed /\ ~Has(s, "error") THEN Emit(s, "error") ELSE s, "close")

(***************************************************************************)
(* The readable half.                                                       *)
(***************************************************************************)
Length(s) == Len(s.r.buffer)
EmitReadable(s) ==
    LET u == [s EXCEPT !.r.needReadable = FALSE, !.r.emittedReadable = TRUE]
    IN  IF s.r.emittedReadable THEN u ELSE NextTick(u, "emitReadable_", 0)
EmitReadable_(s) ==
    [s EXCEPT !.r.emittedReadable =
                  @ /\ (s.destroyed \/ s.errored \/ (Length(s) = 0 /\ ~s.r.ended)),
              !.r.needReadable = ~s.r.ended /\ Length(s) <= HighWaterMark]
MaybeReadMore(s) ==
    IF s.r.readingMore THEN s
    ELSE NextTick([s EXCEPT !.r.readingMore = TRUE], "maybeReadMore_", 0)
EndReadable(s) ==
    IF s.r.endEmitted THEN s ELSE NextTick([s EXCEPT !.r.ended = TRUE], "endReadableNT", 0)
EndReadableNT(s) ==
    IF Has(s, "error") \/ Has(s, "close") \/ Has(s, "end") \/ Length(s) > 0 THEN s
    ELSE LET u == Emit([s EXCEPT !.r.endEmitted = TRUE], "end")
         IN  IF s.w.finished THEN Destroy(u, FALSE) ELSE u

Push(s, out) ==
    IF s.r.ended THEN Destroy(s, TRUE)
    ELSE IF s.destroyed \/ s.errored THEN s
    ELSE LET u == [s EXCEPT !.r.reading = FALSE, !.r.buffer = Append(@, out)]
         IN  MaybeReadMore(IF s.r.needReadable THEN EmitReadable(u) ELSE u)
Pushes(outs) == [k \in DOMAIN outs |-> Call("push", outs[k])]
PushNull(s) ==
    LET u == [s EXCEPT !.r.reading = FALSE, !.r.ended = TRUE]
    IN  IF s.r.ended THEN u
        ELSE IF s.r.sync THEN EmitReadable(u)
        ELSE EmitReadable_([u EXCEPT !.r.emittedReadable = TRUE])

\* read(0) and read(), up to the call of _read, and after it.
Read(s, n) ==
    LET s0 == IF n = 0 THEN s ELSE [s EXCEPT !.r.emittedReadable = FALSE]
        none == Length(s) = 0 /\ s.r.ended
        asks == /\ s.r.needReadable \/ Length(s) - n < HighWaterMark
                /\ ~(s.r.ended \/ s.r.reading \/ s.destroyed \/ s.errored)
    IN  IF n = 0 /\ s.r.needReadable /\ (Length(s) >= HighWaterMark \/ s.r.ended)
        THEN IF none THEN EndReadable(s) ELSE EmitReadable(s)
        ELSE IF none THEN EndReadable(s0)
        ELSE IF n = 0 /\ s.r.ended THEN s0
        ELSE IF ~asks THEN Then(s0, <<Call("take", n)>>)
        ELSE Then([s0 EXCEPT !.r.reading = TRUE, !.r.sync = TRUE,
                             !.r.needReadable = @ \/ Length(s) = 0],
                  <<Call("_read", 0), Call("read returns", 0), Call("take", n)>>)
Take(s, n) ==
    LET some == n # 0 /\ Length(s) > 0
        left == IF some THEN Length(s) - 1 ELSE Length(s)
        need == \/ IF some THEN s.r.needReadable ELSE Length(s) <= HighWaterMark
                \/ left = 0 /\ ~s.r.ended
        u == [s EXCEPT !.r.needReadable = need,
                       !.r.buffer = IF some THEN Tail(@) ELSE @,
                       !.got = IF some THEN Append(@, Head(s.r.buffer)) ELSE @]
    IN  IF left = 0 /\ n # 0 /\ s.r.ended THEN EndReadable(u) ELSE u
ReadMore(s) ==
    IF s.r.reading \/ s.r.ended \/ Length(s) >= HighWaterMark
    THEN [s EXCEPT !.r.readingMore = FALSE]
    ELSE Then(s, <<Call("read", 0), Call("read more?", Length(s))>>)
ReadMoreIf(s, len) ==
    IF Length(s) = len THEN [s EXCEPT !.r.readingMore = FALSE]
    ELSE Then(s, <<Call("maybeReadMore_", 0)>>)

(***************************************************************************)
(* The writable half, and _final, which flushes.                            *)
(***************************************************************************)
NeedFinish(s) ==
    /\ s.w.ending /\ s.w.length = 0 /\ s.w.buffered = <<>> /\ s.w.writing = 0
    /\ ~s.errored /\ ~s.w.finished /\ ~Has(s, "error") /\ ~Has(s, "close")
Finish(s) ==
    LET u == Emit([s EXCEPT !.w.pendingcb = @ - 1, !.w.finished = TRUE], "finish")
    IN  IF s.r.endEmitted THEN Destroy(u, FALSE) ELSE u
OnFinish(s, failed) ==
    LET u == [s EXCEPT !.w.pendingcb = @ - 1]
    IN  IF failed THEN Destroy(u, TRUE)
        ELSE IF ~NeedFinish(s) THEN u
        ELSE NextTick([u EXCEPT !.w.prefinished = TRUE, !.w.pendingcb = @ + 1], "finish", 0)
Flushed(s) == \* the callback of _flush, or of the promise it returns
    LET plan == s.plan[Flushing]
        back(fn) == IF plan.how = "then" THEN Queue(fn, Flushing) ELSE Call(fn, Flushing)
    IN  Then(s, IF plan.ok THEN Pushes(Outs(s, Flushing)) \o <<Call("push null", 0), back("onFinish")>>
                ELSE <<back("onFinish error")>>)
Final(s) ==
    LET how == IF s.destroyed THEN "none" ELSE s.plan[Flushing].how
    IN  Then([s EXCEPT !.w.sync = TRUE, !.w.pendingcb = @ + 1, !.w.finalCalled = TRUE,
                       !.owed = IF how \in {"none", "now"} THEN @ ELSE Flushing],
             CASE how = "none" -> <<Call("push null", 0), Call("onFinish", 0), Call("sync over", 0)>>
               [] how = "now"  -> <<Call("flushed", 0), Call("sync over", 0)>>
               [] OTHER        -> <<Call("sync over", 0)>>)
FinishMaybe(s, sync) ==
    LET called == ~s.w.prefinished /\ ~s.w.finalCalled
    IN  IF ~NeedFinish(s) THEN s
        ELSE Then([s EXCEPT !.w.prefinished = @ \/ (called /\ s.destroyed)],
                  (IF called /\ ~s.destroyed THEN <<Call("final", 0)>> ELSE <<>>)
                  \o <<Call("finish if settled", sync)>>)
FinishIfSettled(s, sync) ==
    IF s.w.pendingcb # 0 \/ ~NeedFinish(s) THEN s
    ELSE Then([s EXCEPT !.w.pendingcb = 1],
              <<IF sync THEN Queue("finish", 0) ELSE Call("finish", 0)>>)

ErrorBuffer(s) ==
    IF s.w.writing # 0 THEN s
    ELSE [FoldLeft(LAMBDA u, i : Tell(u, i, "destroyed"), s, s.w.buffered)
            EXCEPT !.w.buffered = <<>>, !.w.length = @ - Len(s.w.buffered)]
AfterWrite(s, i) ==
    LET drains == ~s.w.ending /\ ~s.destroyed /\ s.w.length = 0 /\ s.w.needDrain
        u == IF drains THEN Emit([s EXCEPT !.w.needDrain = FALSE], "drain") ELSE s
    IN  Then(Tell([u EXCEPT !.w.pendingcb = @ - 1], i, "ok"),
             (IF s.destroyed THEN <<Call("errorBuffer", 0)>> ELSE <<>>)
             \o <<Call("finishMaybe", FALSE)>>)
OnwriteError(s, i) ==
    Then(Tell([s EXCEPT !.w.pendingcb = @ - 1], i, "error"),
         <<Call("errorBuffer", 0), Call("destroy", TRUE)>>)

\* kCallback: the chunk's callback is called at once when there is room, or
\* when nothing was pushed for it.  Mutant: it is always called at once.
GoesOnAlways(s) == TRUE
GoesOn(s) == s.w.ended \/ s.from = Length(s) \/ Length(s) < HighWaterMark \/ Length(s) = 0

Answer(s, i) == \* the callback given to _transform, or the promise it returned
    LET fails == IF s.plan[i].how = "then" THEN Queue("onwrite", TRUE) ELSE Call("onwrite", TRUE)
    IN  Then(s, IF s.plan[i].ok
                THEN Pushes(SubSeq(Outs(s, i), s.given + 1, s.plan[i].outs)) \o <<Call("answered", i)>>
                ELSE <<fails>>)
Answered(s, i) ==
    IF ~GoesOn(s) THEN [s EXCEPT !.parked = i]
    ELSE Then(s, <<IF s.plan[i].how = "then" THEN Queue("onwrite", FALSE) ELSE Call("onwrite", FALSE)>>)
DoWrite(s, i) ==
    LET now == s.plan[i].how = "now"
    IN  Then([s EXCEPT !.w.writing = i, !.w.sync = TRUE, !.from = Length(s), !.given = 0,
                       !.owed = IF now THEN @ ELSE i],
             (IF now THEN <<Call("answer", i)>> ELSE <<>>) \o <<Call("sync over", 0)>>)
ClearBuffer(s) ==
    IF s.w.buffered = <<>> \/ s.w.writing # 0 THEN [s EXCEPT !.w.processing = FALSE]
    ELSE Then([s EXCEPT !.w.buffered = Tail(@)],
              <<Call("doWrite", Head(s.w.buffered)), Call("clearBuffer", 0)>>)
Onwrite(s, failed) ==
    LET clears == ~s.w.processing /\ ~s.destroyed /\ ~failed
        fn == IF failed THEN "onwriteError" ELSE "afterWrite"
    IN  Then([s EXCEPT !.w.writing = 0, !.w.length = @ - 1, !.errored = @ \/ failed,
                       !.w.processing = @ \/ clears],
             (IF clears THEN <<Call("clearBuffer", 0)>> ELSE <<>>)
             \o <<IF s.w.sync THEN Queue(fn, s.w.writing) ELSE Call(fn, s.w.writing)>>)

Write(s, i) ==
    LET u == [s EXCEPT !.w.pendingcb = @ + 1, !.w.length = @ + 1,
                       !.w.needDrain = @ \/ s.w.length + 1 >= HighWaterMark]
    IN  IF s.w.writing # 0 \/ s.errored THEN [u EXCEPT !.w.buffered = Append(@, i)]
        ELSE Then(u, <<Call("doWrite", i)>>)
End(s) == Then([s EXCEPT !.w.ending = TRUE], <<Call("finishMaybe", TRUE), Call("ended", 0)>>)

\* _read lets the parked callback go.
_Read(s) ==
    IF s.parked = 0 THEN s ELSE Then([s EXCEPT !.parked = 0], <<Call("onwrite", FALSE)>>)

-----------------------------------------------------------------------------
(***************************************************************************)
(* Running a call, and all that it calls.                                   *)
(***************************************************************************)
Handled(s, fn, arg) ==
    CASE fn = "push"              -> Push(s, arg)
      [] fn = "push null"         -> PushNull(s)
      [] fn = "emitReadable_"     -> EmitReadable_(s)
      [] fn = "maybeReadMore_"    -> ReadMore(s)
      [] fn = "read more?"        -> ReadMoreIf(s, arg)
      [] fn = "endReadableNT"     -> EndReadableNT(s)
      [] fn = "read"              -> Read(s, arg)
      [] fn = "_read"             -> _Read(s)
      [] fn = "read returns"      -> [s EXCEPT !.r.sync = FALSE]
      [] fn = "take"              -> Take(s, arg)
      [] fn = "write"             -> Write(s, arg)
      [] fn = "doWrite"           -> DoWrite(s, arg)
      [] fn = "sync over"         -> [s EXCEPT !.w.sync = FALSE]
      [] fn = "answer"            -> Answer(s, arg)
      [] fn = "answered"          -> Answered(s, arg)
      [] fn = "onwrite"           -> Onwrite(s, arg)
      [] fn = "clearBuffer"       -> ClearBuffer(s)
      [] fn = "afterWrite"        -> AfterWrite(s, arg)
      [] fn = "onwriteError"      -> OnwriteError(s, arg)
      [] fn = "errorBuffer"       -> ErrorBuffer(s)
      [] fn = "end"               -> End(s)
      [] fn = "ended"             -> [s EXCEPT !.w.ended = TRUE]
      [] fn = "finishMaybe"       -> FinishMaybe(s, arg)
      [] fn = "final"             -> Final(s)
      [] fn = "flushed"           -> Flushed(s)
      [] fn = "onFinish"          -> OnFinish(s, FALSE)
      [] fn = "onFinish error"    -> OnFinish(s, TRUE)
      [] fn = "finish if settled" -> FinishIfSettled(s, arg)
      [] fn = "finish"            -> Finish(s)
      [] fn = "destroy"           -> Destroy(s, arg)
      [] fn = "close"             -> ErrorClose(s, FALSE)
      [] fn = "error, close"      -> ErrorClose(s, TRUE)
Step(s, call) == IF call.later THEN NextTick(s, call.fn, call.arg) ELSE Handled(s, call.fn, call.arg)
RECURSIVE Run(_)
Run(s) == IF s.calls = <<>> THEN s
          ELSE Run(Step([s EXCEPT !.calls = Tail(@)], Head(s.calls)))
Runs(s, fn, arg) == t' = Run(Then(s, <<Call(fn, arg)>>))

(***************************************************************************)
(* The client, the program's _transform and _flush, and the ticks.          *)
(***************************************************************************)
ClientWrites ==
    /\ ~t.w.ending /\ ~t.destroyed /\ t.written < MaxChunks
    /\ \E kind \in Kinds :
          Runs([t EXCEPT !.written = @ + 1, !.plan[t.written + 1] = kind], "write", t.written + 1)
ClientEnds == ~t.w.ending /\ ~t.errored /\ Runs(t, "end", 0)
ClientReads == ~t.r.endEmitted /\ Len(t.ticks) < MaxTicks /\ Runs(t, "read", 1)
ClientDestroys == ~t.destroyed /\ Runs(t, "destroy", FALSE)

\* _transform may push before it calls its callback, or the promise resolves.
ProgramPushes ==
    /\ t.owed \in Chunks /\ t.given < t.plan[t.owed].outs
    /\ Runs([t EXCEPT !.given = @ + 1], "push", <<t.owed, t.given + 1>>)
ProgramAnswers ==
    /\ t.owed # 0
    /\ Runs([t EXCEPT !.owed = 0], IF t.owed = Flushing THEN "flushed" ELSE "answer", t.owed)

RunTick ==
    /\ t.ticks # <<>>
    /\ Runs([t EXCEPT !.ticks = Tail(@)], Head(t.ticks).fn, Head(t.ticks).arg)

TransformNext == \/ ClientWrites \/ ClientEnds \/ ClientReads \/ ClientDestroys
                 \/ ProgramPushes \/ ProgramAnswers \/ RunTick
TransformSpec == TransformInit /\ [][TransformNext]_t

(***************************************************************************)
(* Properties.                                                              *)
(***************************************************************************)
TransformTypeOK == /\ t.w.pendingcb \in Nat /\ t.w.length \in 0..MaxChunks
                   /\ t.parked # 0 => t.parked = t.w.writing /\ t.owed # t.parked

\* What comes out is what the chunks were made into, in their order, and all
\* of it when a chunk's callback has been called without an error.
Before(a, b) == a[1] < b[1] \/ (a[1] = b[1] /\ a[2] < b[2])
ComesOutInOrder ==
    LET out == t.got \o t.r.buffer
        ok  == { t.told[k].chunk : k \in { j \in DOMAIN t.told : t.told[j].how = "ok" } }
    IN  /\ \A j, k \in DOMAIN out : j < k => Before(out[j], out[k])
        /\ ~t.destroyed /\ ~t.errored => \A i \in ok : Range(Outs(t, i)) \subseteq Range(out)

\* A chunk's callback is called once, and an error is told of one chunk only.
ToldOnce == \A j, k \in DOMAIN t.told :
    j # k => /\ t.told[j].chunk # t.told[k].chunk
             /\ t.told[j].how # "error" \/ t.told[k].how # "error"

\* Until the writer has ended, the buffer passes its mark by no more than one
\* chunk is made into.  (It can by that much: a read lets the next chunk go on
\* before it takes its own, and a chunk that pushed as many as were read
\* meanwhile looks as if it had pushed none.)
MostOuts == 2
HoldsBack == ~t.w.ended => Length(t) <= HighWaterMark + MostOuts

\* When nothing is on its way, a chunk that was written still waits only
\* because the buffer is full, or for ever because the stream was destroyed.
AtRest == t.ticks = <<>> /\ t.owed = 0
WaitsForRoom ==
    AtRest /\ Len(t.told) < t.written =>
        t.parked # 0 /\ (Length(t) >= HighWaterMark \/ t.destroyed)

\* 'finish' comes after the flush and every callback, 'end' after everything
\* was read, and 'close' last.  A stream that has ended, finished and rested
\* is closed.
EndsInOrder ==
    /\ Has(t, "finish") => (t.r.ended \/ t.destroyed) /\ Len(t.told) = t.written /\ t.owed = 0
    /\ Has(t, "end") /\ ~t.errored => t.r.buffer = <<>> /\ t.w.ended
    /\ AtRest /\ Has(t, "finish") /\ Has(t, "end") => Has(t, "close")
    /\ AtRest /\ t.w.ending /\ ~t.destroyed /\ Len(t.told) = t.written => Has(t, "finish")

TransformKept ==
    ComesOutInOrder /\ ToldOnce /\ HoldsBack /\ WaitsForRoom /\ EndsInOrder
=============================================================================
