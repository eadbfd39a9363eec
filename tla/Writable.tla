------------------------------ MODULE Writable ------------------------------
(***************************************************************************)
(* A Writable stream: src/modules_js/internal/streams/writable.js and the  *)
(* parts of destroy.js a Writable reaches.                                 *)
(*                                                                         *)
(* The code is sequential but re-entrant: a write callback or an event     *)
(* listener runs in the middle of the handler that called it and may call  *)
(* write, uncork, end or destroy again.  `stack` is therefore the call     *)
(* stack, as a sequence of what is still to be run; a handler that calls   *)
(* out is cut at the call, and what follows the call waits below it on the *)
(* stack.  Only the top of the stack moves, so nothing can come between    *)
(* the pieces of a handler but what the handler called.                    *)
(*                                                                         *)
(* The sink is the stream's implementation (_write, _writev, _final,       *)
(* _construct, _destroy).  It answers at once, later, with an error, twice *)
(* or by throwing; it does not call the stream's own methods from inside.  *)
(* Every chunk has length 1.                                               *)
(***************************************************************************)
EXTENDS Integers, Sequences, SequencesExt, FiniteSets

CONSTANTS
    Streams,        \* the streams to look at: what the sink implements and
                    \* may do wrong, and what the client does
    HighWaterMark,  \* in chunks
    SpliceAfter,    \* 256 in the code
    MaxOps,         \* bound: calls made by the client
    MaxFaults       \* bound: misbehaviours of the sink

ASSUME SizeAssumption == {HighWaterMark, SpliceAfter, MaxOps, MaxFaults} \subseteq Nat
ASSUME StreamAssumption ==
    Streams \subseteq
        [writev : BOOLEAN, final : BOOLEAN, construct : BOOLEAN,
         autoDestroy : BOOLEAN,
         faults : SUBSET {"error", "twice", "throw"},
         corks : BOOLEAN,           \* does the client cork the stream?
         calls : 0 .. MaxOps]       \* how many calls does it make?

VARIABLES
    w,          \* the WritableState
    stack,      \* the call stack, top first
    ticks,      \* what nextTick has been given and has not run
    owed,       \* the sink's callbacks it has been handed and not called
    faults,     \* misbehaviours of the sink so far
    ops,        \* calls of the client so far; each call's number is its id
    accepted,   \* history: the writes that were not refused, in order
    consumed,   \* history: ids of the chunks handed to the sink, in order
    outcome,    \* history: what each call's callback has been called with
    emitted     \* history: the events emitted, in order

client == <<ops, accepted>>
log    == <<consumed, outcome, emitted>>
vars   == <<w, stack, ticks, owed, faults, client, log>>

None   == "none"        \* no error
Errors == {None, "sink", "client", "multiple", "destroyed", "afterEnd",
           "finished", "stream"}

\* A piece of code to be run.  `cb` is a callback as the list of the client
\* callbacks it calls (nop is <<>>), `ids` the chunks concerned, `err` the
\* error passed, `n` an index.
Do(f)       == [fn |-> f, cb |-> <<>>, ids |-> <<>>, err |-> None, n |-> 0]
Err(f, er)  == [Do(f) EXCEPT !.err = er]
Callback(cb, er) == [Do("callback") EXCEPT !.cb = cb, !.err = er]

NoCallback == <<0>>     \* writecb = null; no id is 0
Null == [id |-> 0, cb |-> NoCallback]   \* an entry of buffered set to null

InitFor(stream) ==
    /\ w = [stream |-> stream, length |-> 0, writing |-> FALSE, corked |-> 0, sync |-> TRUE,
            bufferProcessing |-> FALSE, writecb |-> NoCallback, writelen |-> 0,
            tickInfo |-> FALSE, buffered |-> <<>>, bufferedIndex |-> 0,
            pendingcb |-> 0, constructed |-> ~stream.construct,
            prefinished |-> FALSE, finalCalled |-> FALSE, needDrain |-> FALSE,
            ending |-> FALSE, ended |-> FALSE, finished |-> FALSE,
            destroyed |-> FALSE, destroyErr |-> None, errored |-> None,
            errorEmitted |-> FALSE, closed |-> FALSE, closeEmitted |-> FALSE,
            onFinished |-> <<>>, onFinishCalled |-> FALSE,
            onDestroyCalled |-> FALSE, onConstructCalled |-> FALSE]
    /\ stack = <<>>
    /\ ticks = IF stream.construct THEN <<Do("constructNT")>> ELSE <<>>
    /\ owed = {} /\ faults = 0 /\ ops = 0
    /\ accepted = <<>> /\ consumed = <<>> /\ emitted = <<>>
    /\ outcome = [i \in 1 .. MaxOps |-> <<>>]

Init == \E stream \in Streams : InitFor(stream)

-----------------------------------------------------------------------------
(* Running code.                                                            *)

Top == Head(stack)

\* The top of the stack is a piece of f; the step replaces it by `calls`.
Runs(f)     == stack # <<>> /\ Top.fn = f
Then(calls) == stack' = calls \o Tail(stack)
Later(e)    == ticks' = Append(ticks, e)

\* A listener or callback of the client, and an event with listeners.
User     == Do("user")
Emit(ev) == [Do("emit") EXCEPT !.err = ev]

EmitEvent ==
    /\ Runs("emit")
    /\ emitted' = Append(emitted, Top.err)
    /\ Then(<<User>>)
    /\ UNCHANGED <<w, ticks, owed, faults, client, consumed, outcome>>

\* Call one client callback after the other.
RunCallback ==
    /\ Runs("callback")
    /\ IF Top.cb = <<>>
       THEN Then(<<>>) /\ UNCHANGED outcome
       ELSE /\ outcome' = [outcome EXCEPT ![Head(Top.cb)] = Append(@, Top.err)]
            /\ Then(<<User, Callback(Tail(Top.cb), Top.err)>>)
    /\ UNCHANGED <<w, ticks, owed, faults, client, consumed, emitted>>

UserReturns ==
    /\ Runs("user") /\ Then(<<>>)
    /\ UNCHANGED <<w, ticks, owed, faults, client, log>>

RunTick ==
    /\ stack = <<>> /\ ticks # <<>>
    /\ stack' = <<Head(ticks)>> /\ ticks' = Tail(ticks)
    /\ UNCHANGED <<w, owed, faults, client, log>>

Set(record)  == w' = record
Quiet        == UNCHANGED <<owed, faults, client, log>>
Continue(calls) == Then(calls) /\ UNCHANGED ticks /\ Quiet

-----------------------------------------------------------------------------
(* write, cork and uncork.                                                  *)

\* writeOrBuffer's test; the mutants forget one of its terms.
MustBufferCorked  == w.writing \/ w.errored # None \/ ~w.constructed
MustBufferWriting == w.corked > 0 \/ w.errored # None \/ ~w.constructed
MustBuffer == w.writing \/ w.corked > 0 \/ w.errored # None \/ ~w.constructed

\* _write and writeOrBuffer.
Write ==
    /\ Runs("write")
    /\ IF w.ending \/ w.destroyed
       THEN LET er == IF w.ending THEN "afterEnd" ELSE "destroyed" IN
            /\ Later(Callback(Top.cb, er))
            /\ Then(<<Err("errorOrDestroySync", er)>>)
            /\ UNCHANGED <<w, accepted>>
       ELSE LET entry == [id |-> Top.ids[1], cb |-> Top.cb]
                taken == [w EXCEPT
                    !.pendingcb = @ + 1, !.length = @ + 1,
                    !.needDrain = @ \/ ~(w.length + 1 < HighWaterMark)]
            IN
            /\ accepted' = Append(accepted, entry)
            /\ UNCHANGED ticks
            /\ IF MustBuffer
               THEN /\ Set([taken EXCEPT !.buffered = Append(@, entry)])
                    /\ Then(<<>>)
               ELSE /\ Set([taken EXCEPT !.writelen = 1, !.writecb = Top.cb,
                              !.writing = TRUE, !.sync = TRUE])
                    /\ Then(<<[Do("sinkWrite") EXCEPT !.ids = Top.ids],
                              Do("syncFalse")>>)
    /\ UNCHANGED <<owed, faults, ops, log>>

SyncFalse ==
    /\ Runs("syncFalse")
    /\ Set([w EXCEPT !.sync = FALSE]) /\ Continue(<<>>)

DoWrite ==
    /\ Runs("doWrite")
    /\ Set([w EXCEPT !.writelen = Top.n, !.writecb = Top.cb,
                     !.writing = TRUE, !.sync = TRUE])
    /\ Continue(<<IF w.destroyed THEN Err("onwrite", "destroyed")
                  ELSE [Do("sinkWrite") EXCEPT !.ids = Top.ids],
                  Do("syncFalse")>>)

Cork ==
    /\ Runs("cork")
    /\ Set([w EXCEPT !.corked = @ + 1]) /\ Continue(<<>>)

Uncork ==
    /\ Runs("uncork")
    /\ Set([w EXCEPT !.corked = IF @ > 0 THEN @ - 1 ELSE 0])
    /\ Continue(IF w.corked > 0 /\ ~w.writing THEN <<Do("clearBuffer")>> ELSE <<>>)

\* buffered from bufferedIndex on.
Waiting(state) == SubSeq(state.buffered, state.bufferedIndex + 1, Len(state.buffered))
Reset(state)   == [state EXCEPT !.buffered = <<>>, !.bufferedIndex = 0]
Ids(entries)   == [i \in DOMAIN entries |-> entries[i].id]
Cbs(entries)   == FlattenSeq([i \in DOMAIN entries |-> entries[i].cb])

\* What a single _writev takes off pendingcb; the mutant is off by one.
CallbacksSavedAll == Len(Waiting(w))
CallbacksSaved    == Len(Waiting(w)) - 1

ClearBuffer ==
    /\ Runs("clearBuffer")
    /\ IF \/ w.corked > 0 \/ w.bufferProcessing \/ w.destroyed \/ ~w.constructed
          \/ Waiting(w) = <<>>
       THEN UNCHANGED w /\ Continue(<<>>)
       ELSE IF w.stream.writev /\ Len(Waiting(w)) > 1
       THEN /\ Set([w EXCEPT !.bufferProcessing = TRUE,
                             !.pendingcb = @ - CallbacksSaved])
            /\ Continue(<<[Do("doWrite") EXCEPT !.n = w.length,
                              !.ids = Ids(Waiting(w)), !.cb = Cbs(Waiting(w))],
                          Do("clearBufferEnd")>>)
       ELSE /\ Set([w EXCEPT !.bufferProcessing = TRUE])
            /\ Continue(<<[Do("clearBufferLoop") EXCEPT !.n = w.bufferedIndex]>>)

\* One turn of `do { ... } while (i < buffered.length && !state.writing)`.
ClearBufferLoop ==
    /\ Runs("clearBufferLoop")
    /\ LET i == Top.n + 1  first == w.buffered[i] IN
       /\ Set([w EXCEPT !.buffered[i] = Null])
       /\ Continue(<<[Do("doWrite") EXCEPT !.n = 1, !.ids = <<first.id>>,
                                           !.cb = first.cb],
                     [Do("clearBufferTest") EXCEPT !.n = i]>>)

ClearBufferTest ==
    /\ Runs("clearBufferTest")
    /\ IF Top.n < Len(w.buffered) /\ ~w.writing
       THEN UNCHANGED w /\ Continue(<<[Do("clearBufferLoop") EXCEPT !.n = Top.n]>>)
       ELSE /\ Set([(IF Top.n = Len(w.buffered) THEN Reset(w)
                     ELSE IF Top.n > SpliceAfter
                     THEN [w EXCEPT !.buffered = SubSeq(@, Top.n + 1, Len(@)),
                                    !.bufferedIndex = 0]
                     ELSE [w EXCEPT !.bufferedIndex = Top.n])
                    EXCEPT !.bufferProcessing = FALSE])
            /\ Continue(<<>>)

ClearBufferEnd ==
    /\ Runs("clearBufferEnd")
    /\ Set([Reset(w) EXCEPT !.bufferProcessing = FALSE]) /\ Continue(<<>>)

-----------------------------------------------------------------------------
(* The sink's answer to _write, and the callbacks of the client.            *)

Onwrite ==
    /\ Runs("onwrite")
    /\ LET er == Top.err
           back == [w EXCEPT !.writing = FALSE, !.writecb = NoCallback,
                             !.length = @ - w.writelen, !.writelen = 0]
           failed == [Err("onwriteError", er) EXCEPT !.cb = w.writecb]
       IN
       IF w.writecb = NoCallback
       THEN UNCHANGED w /\ Continue(<<Err("errorOrDestroy", "multiple")>>)
       ELSE IF er # None
       THEN /\ Set([back EXCEPT !.errored = IF @ = None THEN er ELSE @])
            /\ Quiet
            /\ IF w.sync THEN Later(failed) /\ Then(<<>>)
                         ELSE Then(<<failed>>) /\ UNCHANGED ticks
       ELSE /\ Set(back)
            /\ Continue(
                 (IF Len(w.buffered) > w.bufferedIndex THEN <<Do("clearBuffer")>> ELSE <<>>)
                 \o <<[Do(IF w.sync THEN "onwriteSync" ELSE "afterWrite")
                         EXCEPT !.cb = w.writecb, !.n = 1]>>)

\* afterWriteTickInfo, when not null, is the last afterWriteTick queued.
LastTick == CHOOSE i \in DOMAIN ticks :
                /\ ticks[i].fn = "afterWriteTick"
                /\ \A j \in DOMAIN ticks : j > i => ticks[j].fn # "afterWriteTick"

OnwriteSync ==
    /\ Runs("onwriteSync") /\ Then(<<>>) /\ Quiet
    /\ IF w.tickInfo /\ ticks[LastTick].cb = Top.cb
       THEN ticks' = [ticks EXCEPT ![LastTick].n = @ + 1] /\ UNCHANGED w
       ELSE /\ Later([Do("afterWriteTick") EXCEPT !.cb = Top.cb, !.n = 1])
            /\ Set([w EXCEPT !.tickInfo = TRUE])

AfterWriteTick ==
    /\ Runs("afterWriteTick")
    /\ Set([w EXCEPT !.tickInfo = FALSE])
    /\ Continue(<<[Top EXCEPT !.fn = "afterWrite"]>>)

\* One mutant drains a destroyed stream, the other one whose callbacks have
\* all been called.
DrainsDestroyed == ~w.ending /\ w.length = 0 /\ w.needDrain
DrainsSettled   == ~w.ending /\ ~w.destroyed /\ w.pendingcb = 0 /\ w.needDrain
Drains == ~w.ending /\ ~w.destroyed /\ w.length = 0 /\ w.needDrain

AfterWrite ==
    /\ Runs("afterWrite")
    /\ Set([w EXCEPT !.needDrain = @ /\ ~Drains])
    /\ Continue((IF Drains THEN <<Emit("drain")>> ELSE <<>>)
                \o [i \in 1 .. Top.n |-> [Top EXCEPT !.fn = "settleWrite"]]
                \o <<Do("afterWriteEnd")>>)

SettleWrite ==
    /\ Runs("settleWrite")
    /\ Set([w EXCEPT !.pendingcb = @ - 1])
    /\ Continue(<<Callback(Top.cb, None)>>)

AfterWriteEndForgets ==
    /\ Runs("afterWriteEnd") /\ UNCHANGED w
    /\ Continue(<<Do("finishMaybe")>>)

AfterWriteEnd ==
    /\ Runs("afterWriteEnd") /\ UNCHANGED w
    /\ Continue((IF w.destroyed THEN <<Do("errorBuffer")>> ELSE <<>>)
                \o <<Do("finishMaybe")>>)

OnwriteErrorEmitsFirst ==
    /\ Runs("onwriteError")
    /\ Set([w EXCEPT !.pendingcb = @ - 1])
    /\ Continue(<<Err("errorOrDestroy", Top.err), Callback(Top.cb, Top.err),
                  Do("errorBuffer")>>)

OnwriteError ==
    /\ Runs("onwriteError")
    /\ Set([w EXCEPT !.pendingcb = @ - 1])
    /\ Continue(<<Callback(Top.cb, Top.err), Do("errorBuffer"),
                  Err("errorOrDestroy", Top.err)>>)

ErrorBuffer ==
    /\ Runs("errorBuffer") /\ UNCHANGED w
    /\ Continue(IF w.writing THEN <<>>
                ELSE <<[Do("errorBufferLoop") EXCEPT !.n = w.bufferedIndex]>>)

\* What errorBuffer takes off length for a chunk; the mutant nothing.
ErroredLengthNone == 0
ErroredLength     == 1

\* One turn of the loop over buffered, or what follows the loop.  An entry
\* that clearBuffer has set to null makes it throw.
ErrorBufferLoop ==
    /\ Runs("errorBufferLoop")
    /\ IF Top.n < Len(w.buffered) /\ w.buffered[Top.n + 1] = Null
       THEN stack' = <<>> /\ UNCHANGED <<w, ticks>> /\ Quiet
       ELSE IF Top.n < Len(w.buffered)
       THEN /\ Set([w EXCEPT !.length = @ - ErroredLength])
            /\ Continue(<<Callback(w.buffered[Top.n + 1].cb, "destroyed"),
                          [Top EXCEPT !.n = @ + 1]>>)
       ELSE /\ Set([w EXCEPT !.onFinished = <<>>])
            /\ Continue(<<Callback(w.onFinished, "destroyed"), Do("resetBuffer")>>)

ResetBufferForgets ==
    /\ Runs("resetBuffer") /\ Set([w EXCEPT !.bufferedIndex = 0]) /\ Continue(<<>>)

ResetBuffer ==
    /\ Runs("resetBuffer") /\ Set(Reset(w)) /\ Continue(<<>>)

-----------------------------------------------------------------------------
(* end, _final and finish.                                                  *)

\* `err` is what the write of end(chunk) returned.
End ==
    /\ Runs("end")
    /\ Set([w EXCEPT !.corked = 0])
    /\ Continue((IF w.corked > 0 /\ ~w.writing THEN <<Do("clearBuffer")>> ELSE <<>>)
                \o <<[Top EXCEPT !.fn = "endOnce"]>>)

EndOnce ==
    /\ Runs("endOnce")
    /\ LET rest(er) == [Top EXCEPT !.fn = "endCallback", !.err = er] IN
       IF Top.err = None /\ w.errored = None /\ ~w.ending
       THEN /\ Set([w EXCEPT !.ending = TRUE])
            /\ Continue(<<Do("finishMaybeSync"), Do("ended"), rest(None)>>)
       ELSE /\ UNCHANGED w
            /\ Continue(<<rest(IF Top.err # None THEN Top.err
                               ELSE IF w.finished THEN "finished"
                               ELSE IF w.destroyed THEN "destroyed" ELSE None)>>)

Ended ==
    /\ Runs("ended") /\ Set([w EXCEPT !.ended = TRUE]) /\ Continue(<<>>)

EndCallback ==
    /\ Runs("endCallback") /\ Then(<<>>) /\ Quiet
    /\ IF Top.cb # <<>> /\ (Top.err # None \/ w.finished)
       THEN Later(Callback(Top.cb, Top.err)) /\ UNCHANGED w
       ELSE /\ Set([w EXCEPT !.onFinished = @ \o Top.cb]) /\ UNCHANGED ticks

NeedFinish(state) ==
    /\ state.ending /\ state.constructed /\ state.length = 0
    /\ state.errored = None /\ state.buffered = <<>>
    /\ ~state.finished /\ ~state.writing
    /\ ~state.errorEmitted /\ ~state.closeEmitted

FinishMaybe ==
    /\ Runs("finishMaybe") \/ Runs("finishMaybeSync")
    /\ UNCHANGED w
    /\ Continue(IF NeedFinish(w)
                THEN <<Do("prefinish"), Err("finishIfSettled", Top.fn)>> ELSE <<>>)

\* The mutant does not wait for the callbacks.
NoWait  == TRUE
AllBack == w.pendingcb = 0

FinishIfSettled ==
    /\ Runs("finishIfSettled")
    /\ IF AllBack /\ NeedFinish(w)
       THEN /\ Set([w EXCEPT !.pendingcb = 1])
            /\ Quiet
            /\ IF Top.err = "finishMaybeSync"
               THEN Later(Do("finish")) /\ Then(<<>>)
               ELSE Then(<<Do("finish")>>) /\ UNCHANGED ticks
       ELSE UNCHANGED w /\ Continue(<<>>)

\* prefinish and the call of callFinal.
Prefinish ==
    /\ Runs("prefinish")
    /\ IF w.prefinished \/ w.finalCalled
       THEN UNCHANGED w /\ Continue(<<>>)
       ELSE IF w.stream.final /\ ~w.destroyed
       THEN /\ Set([w EXCEPT !.finalCalled = TRUE, !.sync = TRUE,
                             !.pendingcb = @ + 1])
            /\ Continue(<<Do("sinkFinal"), Do("syncFalse")>>)
       ELSE /\ Set([w EXCEPT !.prefinished = TRUE])
            /\ Continue(<<Emit("prefinish")>>)

\* onFinish in callFinal.  The second call without an error throws a
\* TypeError: ERR_MULTIPLE_CALLBACK is a class and is called without new.
OnFinish ==
    /\ Runs("onFinish")
    /\ LET er == Top.err IN
       IF w.onFinishCalled
       THEN /\ UNCHANGED w
            /\ IF er # None THEN Continue(<<Err("errorOrDestroy", er)>>)
               ELSE stack' = <<>> /\ UNCHANGED ticks /\ Quiet
       ELSE LET once == [w EXCEPT !.onFinishCalled = TRUE, !.pendingcb = @ - 1] IN
            IF er # None
            THEN /\ Set([once EXCEPT !.onFinished = <<>>])
                 /\ Continue(<<Callback(w.onFinished, er), Err("errorOrDestroy?", er)>>)
            ELSE IF NeedFinish(once)
            THEN /\ Set([once EXCEPT !.prefinished = TRUE])
                 /\ Continue(<<Emit("prefinish"), Do("finishLater")>>)
            ELSE Set(once) /\ Continue(<<>>)

\* errorOrDestroy(stream, err, state.sync)
ErrorOrDestroyIfSync ==
    /\ Runs("errorOrDestroy?") /\ UNCHANGED w
    /\ Continue(<<Err(IF w.sync THEN "errorOrDestroySync" ELSE "errorOrDestroy",
                      Top.err)>>)

FinishLater ==
    /\ Runs("finishLater") /\ Then(<<>>) /\ Quiet
    /\ Set([w EXCEPT !.pendingcb = @ + 1]) /\ Later(Do("finish"))

Finish ==
    /\ Runs("finish")
    /\ Set([w EXCEPT !.pendingcb = @ - 1, !.finished = TRUE, !.onFinished = <<>>])
    /\ Continue(<<Callback(w.onFinished, None), Emit("finish")>>
                \o IF w.stream.autoDestroy THEN <<Do("destroy")>> ELSE <<>>)

-----------------------------------------------------------------------------
(* Construction, errors and destruction.                                    *)

\* onConstruct in constructNT; destroy may have been called meanwhile.
OnConstruct ==
    /\ Runs("onConstruct")
    /\ LET er == Top.err IN
       IF w.onConstructCalled
       THEN /\ UNCHANGED w
            /\ Continue(<<Err("errorOrDestroy", IF er = None THEN "multiple" ELSE er)>>)
       ELSE /\ Set([w EXCEPT !.onConstructCalled = TRUE, !.constructed = TRUE])
            /\ Quiet
            /\ IF w.destroyed
               THEN /\ Then(<<Err("_destroy", IF er # None THEN er ELSE w.destroyErr)>>)
                    /\ UNCHANGED ticks
               ELSE IF er # None
               THEN Then(<<Err("errorOrDestroySync", er)>>) /\ UNCHANGED ticks
               ELSE Then(<<>>) /\ Later(Do("emitConstructNT"))

\* The listener the constructor of Writable installs.
EmitConstruct ==
    /\ Runs("emitConstructNT") /\ UNCHANGED w
    /\ Continue((IF w.writing THEN <<>> ELSE <<Do("clearBuffer")>>)
                \o <<Do("finishMaybe")>>)

ErrorOrDestroy ==
    /\ Runs("errorOrDestroy") \/ Runs("errorOrDestroySync")
    /\ LET er == Top.err IN
       IF w.destroyed THEN UNCHANGED w /\ Continue(<<>>)
       ELSE IF w.stream.autoDestroy THEN UNCHANGED w /\ Continue(<<Err("destroy", er)>>)
       ELSE /\ Set([w EXCEPT !.errored = IF @ = None THEN er ELSE @])
            /\ Quiet
            /\ IF Top.fn = "errorOrDestroySync"
               THEN Later(Err("emitErrorNT", er)) /\ Then(<<>>)
               ELSE Then(<<Err("emitErrorNT", er)>>) /\ UNCHANGED ticks

WithError(state, er) == [state EXCEPT !.errored = IF @ = None THEN er ELSE @]

\* Is there a callback errorBuffer must call?  The mutant forgets end's.
PendingWrites == Waiting(w) # <<>>
Pending       == Waiting(w) # <<>> \/ w.onFinished # <<>>

\* The call of _destroy, which waits for the construction to end; the mutant
\* does not wait.
DestroyNow(er)  == <<Err("_destroy", er)>>
DestroyWhen(er) == IF w.constructed THEN <<Err("_destroy", er)>> ELSE <<>>

\* Writable.prototype.destroy and destroy in destroy.js.
Destroy ==
    /\ Runs("destroy") /\ Quiet
    /\ IF w.destroyed THEN UNCHANGED <<w, ticks>> /\ Then(<<>>)
       ELSE /\ IF Pending THEN Later(Do("errorBuffer")) ELSE UNCHANGED ticks
            /\ Set([WithError(w, Top.err) EXCEPT !.destroyed = TRUE,
                                                 !.destroyErr = Top.err])
            /\ Then(DestroyWhen(Top.err))

\* `called` in _destroy; the mutant forgets to set it.
NeverCalled == FALSE
Called      == w.onDestroyCalled

\* onDestroy in _destroy.
OnDestroy ==
    /\ Runs("onDestroy") /\ Then(<<>>) /\ Quiet
    /\ IF Called THEN UNCHANGED <<w, ticks>>
       ELSE /\ Set([WithError(w, Top.err) EXCEPT !.onDestroyCalled = TRUE,
                                                 !.closed = TRUE])
            /\ Later(IF Top.err # None THEN Err("emitErrorCloseNT", Top.err)
                     ELSE Do("emitCloseNT"))

EmitErrorClose ==
    /\ Runs("emitErrorCloseNT") /\ UNCHANGED w
    /\ Continue(<<Err("emitErrorNT", Top.err), Do("emitCloseNT")>>)

EmitError ==
    /\ Runs("emitErrorNT")
    /\ Set([w EXCEPT !.errorEmitted = TRUE])
    /\ Continue(IF w.errorEmitted THEN <<>> ELSE <<Emit("error")>>)

EmitClose ==
    /\ Runs("emitCloseNT")
    /\ Set([w EXCEPT !.closeEmitted = TRUE])
    /\ Continue(<<Emit("close")>>)

-----------------------------------------------------------------------------
(* The sink.                                                                *)

\* The callback each method of the sink is handed.
Answer == [sinkWrite |-> "onwrite", sinkFinal |-> "onFinish",
           constructNT |-> "onConstruct", _destroy |-> "onDestroy"]
Calls == DOMAIN Answer

\* _destroy passes on the error it was given unless it fails itself.
Passes(e) == IF e.fn = "_destroy" THEN e.err ELSE None

Fault(kind) == kind \in w.stream.faults /\ faults < MaxFaults /\ faults' = faults + 1

Received(e) == consumed' = consumed \o e.ids

\* A second call of onFinish throws (see OnFinish), which callFinal catches
\* and answers with onFinish(stream, ...).
Again(f) == Err(Answer[f], IF f = "sinkFinal" THEN "stream" ELSE None)

\* The method calls back before it returns, once or twice.
SinkAnswersAtOnce ==
    \E f \in Calls :
        /\ Runs(f) /\ Received(Top)
        /\ \/ Then(<<Err(Answer[f], Passes(Top))>>) /\ UNCHANGED faults
           \/ Then(<<Err(Answer[f], "sink")>>) /\ Fault("error")
           \/ Then(<<Do(Answer[f]), Again(f)>>) /\ Fault("twice")
        /\ UNCHANGED <<w, ticks, owed, client, outcome, emitted>>

\* The method keeps the callback.  (owed remembers what it was given.)
SinkKeeps ==
    \E f \in Calls :
        /\ Runs(f) /\ Received(Top)
        /\ owed' = owed \cup {[Top EXCEPT !.fn = Answer[f], !.err = Passes(Top)]}
        /\ Then(<<>>)
        /\ UNCHANGED <<w, ticks, faults, client, outcome, emitted>>

\* The method throws: _destroy, _construct and _final are called in a try;
\* onFinish then gets the stream as its error.  From _write the exception
\* unwinds everything up to the loop, which ignores it.
SinkThrows ==
    \E f \in Calls :
        /\ Runs(f) /\ Received(Top) /\ Fault("throw")
        /\ IF f = "sinkWrite" THEN stack' = <<>>
           ELSE Then(<<Err(Answer[f], IF f = "sinkFinal" THEN "stream" ELSE "sink")>>)
        /\ UNCHANGED <<w, ticks, owed, client, outcome, emitted>>

\* A kept callback is called from the event loop; a faulty sink keeps it to
\* call it again.
SinkAnswersLater ==
    /\ stack = <<>>
    /\ \E a \in owed :
          \/ stack' = <<a>> /\ owed' = owed \ {a} /\ UNCHANGED faults
          \/ stack' = <<Err(a.fn, "sink")>> /\ owed' = owed \ {a} /\ Fault("error")
          \/ stack' = <<a>> /\ UNCHANGED owed /\ Fault("twice")
    /\ UNCHANGED <<w, ticks, client, log>>

-----------------------------------------------------------------------------
(* The client: from the top level, or from a callback or listener.          *)

Id == ops + 1

ClientMay == (stack = <<>> \/ Runs("user")) /\ ops < w.stream.calls

ClientCalls(calls) ==
    /\ ClientMay
    /\ ops' = Id
    /\ stack' = calls \o stack
    /\ UNCHANGED <<w, ticks, owed, faults, accepted, log>>

WriteOf(cb) == [Do("write") EXCEPT !.ids = <<Id>>, !.cb = cb]
EndOf(cb)   == [Do("end") EXCEPT !.cb = cb]

ClientWrites   == \E cb \in {<<>>, <<Id>>} : ClientCalls(<<WriteOf(cb)>>)
ClientCorks    == w.stream.corks /\ ClientCalls(<<Do("cork")>>)
ClientUncorks  == w.corked > 0 /\ ClientCalls(<<Do("uncork")>>)
ClientEnds     == ClientCalls(<<EndOf(<<Id>>)>>)
ClientDestroys == \E er \in {None, "client"} : ClientCalls(<<Err("destroy", er)>>)

\* end(chunk): the write first; end looks at the error it returned.
ClientEndsWith ==
    ClientCalls(<<WriteOf(<<>>),
                  [EndOf(<<Id>>) EXCEPT !.err =
                      IF w.ending THEN "afterEnd"
                      ELSE IF w.destroyed THEN "destroyed" ELSE None]>>)

-----------------------------------------------------------------------------

StreamStep ==
    \/ EmitEvent \/ RunCallback \/ RunTick
    \/ Write \/ SyncFalse \/ DoWrite \/ Cork \/ Uncork
    \/ ClearBuffer \/ ClearBufferLoop \/ ClearBufferTest \/ ClearBufferEnd
    \/ Onwrite \/ OnwriteSync \/ AfterWriteTick \/ AfterWrite \/ SettleWrite
    \/ AfterWriteEnd \/ OnwriteError \/ ErrorBuffer \/ ErrorBufferLoop \/ ResetBuffer
    \/ End \/ EndOnce \/ Ended \/ EndCallback
    \/ FinishMaybe \/ FinishIfSettled \/ Prefinish \/ OnFinish \/ ErrorOrDestroyIfSync
    \/ FinishLater \/ Finish
    \/ OnConstruct \/ EmitConstruct
    \/ ErrorOrDestroy \/ Destroy \/ OnDestroy
    \/ EmitErrorClose \/ EmitError \/ EmitClose

SinkStep == SinkAnswersAtOnce \/ SinkKeeps \/ SinkThrows \/ SinkAnswersLater

ClientStep ==
    \/ ClientWrites \/ ClientCorks \/ ClientUncorks \/ ClientEnds \/ ClientEndsWith
    \/ ClientDestroys

\* Nothing left to run, to answer or to ask for.
Rest == stack = <<>> /\ ticks = <<>> /\ owed = {} /\ UNCHANGED vars

Next == StreamStep \/ UserReturns \/ SinkStep \/ ClientStep \/ Rest

Fairness ==
    /\ WF_vars(StreamStep) /\ WF_vars(UserReturns) /\ WF_vars(SinkStep)

Spec == Init /\ [][Next]_vars /\ Fairness

-----------------------------------------------------------------------------
(* Correctness.                                                             *)

Frame == [fn : STRING, cb : Seq(Nat), ids : Seq(Nat), err : STRING, n : Nat]

\* When a write fails, errorBuffer calls the callbacks of the buffered writes
\* one by one and empties the buffer after the last.  A client that uncorks the
\* stream from one of them starts clearBuffer on that very buffer, unless the
\* stream is destroyed already: the chunks go to the sink, are counted down
\* and called back a second time.  It takes a sink that fails and a client
\* that corks.
UncorksErrorBuffer == w.stream.corks /\ "error" \in w.stream.faults

\* Types; in particular pendingcb and length, from which several places
\* subtract, never become negative (unless errorBuffer is uncorked, see above).
TypeOK ==
    /\ UncorksErrorBuffer \/ (w.length \in Nat /\ w.pendingcb \in Nat)
    /\ w.corked \in Nat
    /\ w.bufferedIndex \in 0 .. Len(w.buffered)
    /\ w.errored \in Errors
    /\ Range(stack) \cup Range(ticks) \cup owed \subseteq Frame

\* writable.js:105 calls length "a measurement of how much we're waiting to
\* get pushed": between two handlers it counts the chunk being written and
\* the ones still in the buffer, no others, as long as the sink does nothing
\* wrong.  (After an error, errorBuffer counts the buffer down while the
\* callbacks it calls still write to it and uncork it.)  A chunk is being
\* written as long as the sink has its callback; one that throws never lets go.
LengthIsOutstanding ==
    stack = <<>> =>
        /\ faults = 0 => w.length = w.writelen + Len(Waiting(w))
        /\ w.writing /\ w.stream.faults \cap {"twice", "throw"} = {}
              => \E a \in owed : a.fn = "onwrite"

\* No callback given to write or end is called twice, by whichever of
\* afterWrite, onwriteError, errorBuffer, finish and onFinish gets to it,
\* unless errorBuffer is uncorked.
CallbackOnce == UncorksErrorBuffer \/ \A i \in DOMAIN outcome : Len(outcome[i]) <= 1

\* Chunks reach the sink in the order of the writes, each at most once,
\* whether written at once, from the buffer or by _writev (writable.js:354:
\* "put this in the queue, and wait our turn").
InOrder == \A i, j \in DOMAIN consumed : i < j => consumed[i] < consumed[j]

\* So it is when there is no _construct to wait for.  (A write made between
\* the answer of _construct and the next tick overtakes the buffered ones.)
InOrderOnceConstructed == ~w.stream.construct => InOrder

\* The sink has at most one write outstanding, and `writing` says so while it
\* has one (writable.js:122, "so that we don't end up in an overlapped
\* onwrite situation"), whatever the client calls from inside callbacks.  Only
\* a sink that calls back twice can break it.
OneWriteAtATime == "twice" \notin w.stream.faults =>
    /\ Cardinality({a \in owed : a.fn = "onwrite"}) <= 1
    /\ \A a \in owed : a.fn = "onwrite" => w.writing

\* Once 'finish' is emitted every accepted chunk has been handed to the sink
\* and every write callback called, without an error (writable.js:142: pending
\* callbacks "must be 0 before 'finish' can be emitted").  With _final nothing
\* compares pendingcb with 0: it is the order of the ticks that ensures it.
FinishMeansDone ==
    "finish" \in Range(emitted) =>
        \A i \in DOMAIN accepted :
            /\ accepted[i].id \in Range(consumed)
            /\ accepted[i].cb # <<>> => outcome[accepted[i].id] = <<None>>

\* 'prefinish', 'finish', 'error' and 'close' are emitted at most once each,
\* however often the sink calls back.
EventsOnce == \A i, j \in DOMAIN emitted :
    emitted[i] = emitted[j] /\ emitted[i] # "drain" => i = j

\* With autoDestroy and without _final only 'close' follows 'error', and only
\* 'prefinish' and 'finish' may follow 'close' (a destroy between end and the
\* tick of finish).
LastEvents == w.stream.autoDestroy /\ ~w.stream.final => \A i, j \in DOMAIN emitted : i < j =>
    /\ emitted[i] = "error" => emitted[j] = "close"
    /\ emitted[i] = "close" => emitted[j] \in {"prefinish", "finish"}

\* When the sink's error is emitted, no callback that is to get it is still
\* to be called (writable.js:415: "error must always follow cb").  Of two
\* writes that fail, one at once and the next later, the error of the second
\* may be emitted before the callback of the first is called.
ErrorFollowsCallback ==
    Runs("emitErrorNT") /\ Top.err = "sink" /\ ~w.errorEmitted /\ faults <= 1 =>
        \A frame \in Range(stack) \cup Range(ticks) :
            frame.err = "sink" /\ frame.cb # <<>> =>
                frame.fn \notin {"onwriteError", "callback"}

\* _destroy is called only when _construct has answered (writable.js:146:
\* "cannot be destroyed until construction finished or failed").
DestroyWaitsForConstruct ==
    Runs("_destroy") \/ (\E a \in owed : a.fn = "onDestroy") => w.constructed

\* What the stream tells its client, and when: the events come in order, each
\* once, and say what is so; and _destroy waits for _construct.
TellsTheTruth ==
    FinishMeansDone /\ EventsOnce /\ LastEvents /\ ErrorFollowsCallback /\ DestroyWaitsForConstruct

StaysUncorked == <>[](w.corked = 0)
Settled(i)    == outcome[i] # <<>>

\* Every write that is accepted with a callback gets it called, if the stream
\* does not stay corked and the sink answers: by the sink's answer, or by
\* errorBuffer when the stream is destroyed first.
EveryWriteSettles ==
    StaysUncorked => \A i \in 1 .. MaxOps :
        (\E k \in DOMAIN accepted : accepted[k] = [id |-> i, cb |-> <<i>>])
            ~> Settled(i)

\* A client told to wait (needDrain) hears 'drain', unless the stream is
\* ended or destroyed meanwhile (writable.js:356).
DrainComes ==
    StaysUncorked => (w.needDrain ~> (~w.needDrain \/ w.ending \/ w.destroyed))

\* A callback given to end on a stream not destroyed is called, if the stream
\* does not stay corked, whatever becomes of it: finish, an error or destroy.
\* (Given to end on a destroyed stream it may never be: end only looks at
\* destroyed when it has been called before.)
EndSettles ==
    StaysUncorked => \A i \in 1 .. MaxOps :
        (~w.destroyed /\ \E k \in DOMAIN w.onFinished : w.onFinished[k] = i)
            ~> Settled(i)

\* Every callback the client has given is called in the end.
CallbacksCome == EveryWriteSettles /\ EndSettles
=============================================================================
