--------------------------- MODULE ReadableProofs ---------------------------
(***************************************************************************)
(* Proofs about Readable: types, that no chunk is lost, repeated or out of  *)
(* order, that 'end', 'error' and 'close' say what is so, that _read is not *)
(* called before it has answered, and that whoever asked the stream to wait *)
(* is left alone, for every client, any set of destinations and every bound. *)
(*                                                                          *)
(* As for Writable, the argument is about what can be below what on the     *)
(* stack.  Between a call of _read and its return only a few pieces run,    *)
(* none of which emits anything: what read has computed before the call is  *)
(* still so after it.  A chunk on its way, which is neither in the buffer   *)
(* nor counted as delivered, is on top of the stack.                        *)
(*                                                                          *)
(* Waiting, the last part, is about why a stream flows: what waits on the   *)
(* stack and would make it flow, or write to a destination, is where no     *)
(* step can have made it wrong since it was put there.                      *)
(***************************************************************************)
EXTENDS Readable, FiniteSetTheorems, SequenceTheorems, WellFoundedInduction, TLAPS

\* The pieces that are never below another one.
TopOnly == {"_read", "addChunk", "unshift", "pipe", "emitCloseNT"}
\* The pieces that run between a call of _read and its return.
Quick == {"_read", "push", "addChunk", "emitReadable", "maybeReadMore", "destroy"}
\* The pieces that are about a destination.
OfDest == {"pipe", "piped", "pausePipe", "ondata", "ondrain", "unpipe", "cleanup",
           "onend", "dest closes"}
\* What nextTick is given.
InTicks == {"read", "emitReadable_", "maybeReadMore_", "endReadableNT", "resume_",
            "updateReadableListening", "onend", "emitCloseNT", "dest closes"}

IsChunk(f) == f.fn = "push" /\ f.data # <<>>
IsEnd(f)   == f.fn = "push" /\ f.data = <<>>

\* What may be below what: read waits for _read, a chunk for those before it.
Shape(s, sync) ==
    /\ s \in Seq(Frame)
    /\ \A i \in DOMAIN s : i # 1 =>
          /\ s[i].fn \notin TopOnly
          /\ s[i].fn = "data" => i = 2 /\ s[1].fn = "endReadable"
          /\ s[i].fn = "take" => sync /\ \A j \in 1 .. i - 1 : s[j].fn \in Quick
          /\ IsChunk(s[i]) => sync /\ \A j \in 1 .. i - 1 : s[j].fn \in Quick \ {"_read"}

Unasked == "unasked" \in client.is.source

\* What the pieces of the stack depend on.
View == [r |-> r, source |-> source, pipe |-> pipe, delivered |-> delivered,
         unasked |-> Unasked]

\* What is so while a piece waits to be run.
Fits(f, v) ==
    /\ f.fn \in OfDest => f.who \in Dest
    /\ f.fn = "on data" => f.who \in Dest \cup {"user"}
    /\ f.fn \in {"endReadable", "endReadableNT"} => v.r.ended
    /\ f.fn = "push" => ~f.called
    /\ IsEnd(f) => v.source.eof
    /\ f.fn = "pipe" => ~v.pipe[f.who].used
    /\ f.fn = "unshift" => v.delivered # <<>> /\ f.data = <<Last(v.delivered)>>
    /\ f.fn \in {"data", "addChunk"} => ~v.r.endEmitted
    /\ f.fn = "take" => f.m <= Len(v.r.buffer)
    /\ f.fn = "_read" => v.r.reading /\ v.r.sync /\ ~v.r.ended /\ (v.unasked \/ ~v.source.asked)
    /\ IsChunk(f) => v.unasked \/ ~v.source.asked \/ v.r.ended

Stacked(s, v) == Shape(s, v.r.sync) /\ \A i \in DOMAIN s : Fits(s[i], v)

TickFits(f, ended) ==
    /\ f \in Frame /\ f.fn \in InTicks
    /\ f.fn \in OfDest => f.who \in Dest
    /\ f.fn = "endReadableNT" => ended
TicksFit(t, ended) == t \in Seq(Frame) /\ \A i \in DOMAIN t : TickFits(t[i], ended)

\* The chunk on its way: ahead of those in the buffer, or behind them.
Ahead(s) == IF s # <<>> /\ (s[1].fn = "data" \/ (s[1].fn = "addChunk" /\ s[1].called))
            THEN s[1].data
            ELSE IF Len(s) > 1 /\ s[2].fn = "data" THEN s[2].data ELSE <<>>
Behind(s) == IF s # <<>> /\ s[1].fn = "addChunk" /\ ~s[1].called THEN s[1].data ELSE <<>>
Ledger == delivered \o Ahead(stack) \o r.buffer \o Behind(stack) = pushed

Fields ==
    /\ {"buffer", "pipes", "flowing", "paused", "ended", "endEmitted", "reading", "sync",
        "needReadable", "emittedReadable", "readableListening", "resumeScheduled",
        "readingMore", "awaiting", "multi", "destroyed", "errored", "errorEmitted",
        "closeEmitted"} \subseteq DOMAIN r
    /\ r.flowing \in {Unset, "true", "false"} /\ r.paused \in {Unset, "true", "false"}
    /\ r.buffer \in Seq(Nat) /\ r.pipes \in Seq(Dest)
Heard ==
    /\ {"data", "end", "readable"} \subseteq DOMAIN on
    /\ on.data \in Seq(Dest \cup {"user"}) /\ on.end \in Seq(Dest)
Others ==
    /\ {"asked", "count", "eof", "empty"} \subseteq DOMAIN source /\ source.count \in Nat
    /\ {"is", "calls"} \subseteq DOMAIN client
    /\ pushed \in Seq(Nat) /\ delivered \in Seq(Nat)
    /\ emitted \in Seq({"end", "error", "close"})

PipesFit ==
    /\ DOMAIN pipe = Dest
    /\ \A d \in Dest : {"used", "cleanedUp", "ondrain", "hears"} \subseteq DOMAIN pipe[d]
    /\ IsInjective(r.pipes) /\ \A i \in DOMAIN r.pipes : pipe[r.pipes[i]].used
    /\ r.awaiting \subseteq Dest
    /\ Len(r.pipes) > 1 => r.multi
    /\ r.multi \/ r.awaiting = {} \/ \E d \in Dest : r.awaiting = {d}

\* A stream that has ended has a source that has.  It does not know yet while
\* the push that says so waits.
HasEnd(s) == \E i \in DOMAIN s : IsEnd(s[i])
SourceFits ==
    /\ r.ended => source.eof
    /\ source.eof => r.ended \/ HasEnd(stack)
    /\ Unasked \/ ~source.asked \/ r.reading \/ r.ended

EndFits ==
    /\ r.endEmitted => r.ended /\ r.buffer = <<>>
    /\ "end" \in Range(emitted) => r.endEmitted
    /\ "error" \in Range(emitted) => r.errorEmitted
    /\ "close" \in Range(emitted) => r.closeEmitted
    /\ EventsInOrder

Closes(f) == f.fn = "emitCloseNT"
ClosesNow == stack # <<>> /\ Closes(stack[1])
ClosesOnce ==
    /\ r.closeEmitted => r.destroyed
    /\ \A i \in DOMAIN ticks : Closes(ticks[i]) =>
          /\ r.destroyed /\ ~r.closeEmitted
          /\ \A j \in DOMAIN ticks : Closes(ticks[j]) => i = j
Closing ==
    /\ ClosesOnce
    /\ ClosesNow => r.destroyed /\ ~r.closeEmitted /\ \A j \in DOMAIN ticks : ~Closes(ticks[j])

Inv ==
    /\ Fields /\ Heard /\ Others /\ PipesFit /\ SourceFits /\ EndFits /\ Closing
    /\ Stacked(stack, View) /\ TicksFit(ticks, r.ended) /\ Ledger

-----------------------------------------------------------------------------
(* Sequences.                                                               *)

LEMMA OfElements ==
    ASSUME NEW S, NEW s \in Seq(S), NEW T, \A i \in DOMAIN s : s[i] \in T
    PROVE  s \in Seq(T)
<1>1. /\ s \in [1 .. Len(s) -> S] /\ Len(s) \in Nat /\ DOMAIN s = 1 .. Len(s)
  BY LenProperties
<1>2. s \in [1 .. Len(s) -> T]
  BY <1>1
<1>3. Seq(T) = UNION {[1 .. n -> T] : n \in Nat}
  BY SeqDef
<1> QED
  BY <1>1, <1>2, <1>3

LEMMA Mapped == ASSUME NEW S, NEW n \in Nat, NEW s \in [1 .. n -> S] PROVE s \in Seq(S) /\ Len(s) = n
<1>1. s \in Seq(S)
  BY SeqDef
<1>2. DOMAIN s = 1 .. Len(s) /\ Len(s) \in Nat /\ DOMAIN s = 1 .. n
  BY <1>1, LenProperties
<1> QED
  BY <1>1, <1>2

LEMMA Below ==
    ASSUME NEW S, NEW s \in Seq(S), s # <<>>
    PROVE  /\ Tail(s) \in Seq(S) /\ Head(s) = s[1] /\ Head(s) \in S
           /\ Len(s) \in Nat \ {0} /\ DOMAIN s = 1 .. Len(s) /\ DOMAIN Tail(s) = 1 .. Len(s) - 1
           /\ \A i \in 1 .. Len(s) - 1 : Tail(s)[i] = s[i + 1]
<1>1. Tail(s) \in Seq(S) /\ Len(Tail(s)) = Len(s) - 1 /\ \A i \in 1 .. Len(Tail(s)) : Tail(s)[i] = s[i + 1]
  BY HeadTailProperties
<1>2. Len(s) \in Nat \ {0} /\ DOMAIN s = 1 .. Len(s) /\ DOMAIN Tail(s) = 1 .. Len(Tail(s))
  BY <1>1, LenProperties, EmptySeq
<1>3. Head(s) = s[1] /\ Head(s) \in S
  BY HeadTailProperties, ElementOfSeq, <1>2
<1> QED
  BY <1>1, <1>2, <1>3

LEMMA OnTop ==
    ASSUME NEW S, NEW c \in Seq(S), NEW u \in Seq(S), NEW t, t = c \o u
    PROVE  /\ t \in Seq(S) /\ Len(c) \in Nat /\ Len(u) \in Nat
           /\ DOMAIN t = 1 .. Len(c) + Len(u) /\ DOMAIN c = 1 .. Len(c) /\ DOMAIN u = 1 .. Len(u)
           /\ Len(t) = Len(c) + Len(u)
           /\ \A i \in 1 .. Len(c) : t[i] = c[i]
           /\ \A i \in Len(c) + 1 .. Len(c) + Len(u) : t[i] = u[i - Len(c)]
<1>1. Len(c) \in Nat /\ Len(u) \in Nat /\ DOMAIN c = 1 .. Len(c) /\ DOMAIN u = 1 .. Len(u)
  BY LenProperties
<1>2. /\ t \in Seq(S) /\ Len(t) = Len(c) + Len(u)
      /\ \A i \in 1 .. Len(c) + Len(u) : t[i] = IF i <= Len(c) THEN c[i] ELSE u[i - Len(c)]
  BY ConcatProperties
<1>3. DOMAIN t = 1 .. Len(c) + Len(u)
  BY <1>2, LenProperties
<1>4. \A i \in 1 .. Len(c) : t[i] = c[i]
  BY <1>1, <1>2
<1>5. \A i \in Len(c) + 1 .. Len(c) + Len(u) : t[i] = u[i - Len(c)]
  BY <1>1, <1>2
<1> QED
  BY <1>1, <1>2, <1>3, <1>4, <1>5

-----------------------------------------------------------------------------
(* Pieces on the stack.                                                     *)

\* What may be below others; quick says that these are such as run between a
\* call of _read and its return.
Under(u, quick, sync) ==
    /\ u \in Seq(Frame)
    /\ \A i \in DOMAIN u :
          /\ u[i].fn \notin TopOnly \cup {"data"}
          /\ u[i].fn = "take" => quick /\ sync /\ \A j \in 1 .. i - 1 : u[j].fn \in Quick
          /\ IsChunk(u[i]) => quick /\ sync /\ \A j \in 1 .. i - 1 : u[j].fn \in Quick \ {"_read"}

LEMMA TailIsUnder ==
    ASSUME NEW s, NEW v, Stacked(s, v), s # <<>>, s[1].fn # "endReadable"
    PROVE  /\ Under(Tail(s), s[1].fn \in Quick, v.r.sync)
           /\ \A i \in DOMAIN Tail(s) : Fits(Tail(s)[i], v)
           /\ \A i \in DOMAIN Tail(s) : IsChunk(Tail(s)[i]) => s[1].fn # "_read"
           /\ Ahead(s) = IF s[1].fn = "data" \/ (s[1].fn = "addChunk" /\ s[1].called)
                         THEN s[1].data ELSE <<>>
           /\ HasEnd(s) => IsEnd(s[1]) \/ HasEnd(Tail(s))
<1> DEFINE u == Tail(s)
<1>1. s \in Seq(Frame)
  BY DEF Stacked, Shape
<1>2. /\ u \in Seq(Frame) /\ Len(s) \in Nat \ {0} /\ DOMAIN s = 1 .. Len(s)
      /\ DOMAIN u = 1 .. Len(s) - 1 /\ \A i \in 1 .. Len(s) - 1 : u[i] = s[i + 1]
  <2>1. u \in Seq(Frame)
    BY <1>1, Below
  <2>2. Len(s) \in Nat \ {0} /\ DOMAIN s = 1 .. Len(s)
    BY <1>1, Below
  <2>3. DOMAIN u = 1 .. Len(s) - 1 /\ \A i \in 1 .. Len(s) - 1 : u[i] = s[i + 1]
    BY <1>1, Below
  <2> QED
    BY <2>1, <2>2, <2>3
<1> HIDE DEF u
<1>3. ASSUME NEW i \in DOMAIN u
      PROVE  /\ u[i].fn \notin TopOnly \cup {"data"}
             /\ u[i].fn = "take" => /\ s[1].fn \in Quick /\ v.r.sync
                                    /\ \A j \in 1 .. i - 1 : u[j].fn \in Quick
             /\ IsChunk(u[i]) => /\ s[1].fn \in Quick \ {"_read"} /\ v.r.sync
                                 /\ \A j \in 1 .. i - 1 : u[j].fn \in Quick \ {"_read"}
             /\ Fits(u[i], v)
  <2> DEFINE k == i + 1
  <2>1. k \in DOMAIN s /\ k # 1 /\ u[i] = s[k] /\ 1 \in 1 .. k - 1
    BY <1>2
  <2>2. \A j \in 1 .. i - 1 : u[j] = s[j + 1] /\ j + 1 \in 1 .. k - 1
    BY <1>2
  <2> HIDE DEF k
  <2>3. s[k].fn \notin TopOnly \cup {"data"}
    BY <2>1 DEF Stacked, Shape
  <2>4. s[k].fn = "take" => v.r.sync /\ \A j \in 1 .. k - 1 : s[j].fn \in Quick
    BY <2>1 DEF Stacked, Shape
  <2>5. IsChunk(s[k]) => v.r.sync /\ \A j \in 1 .. k - 1 : s[j].fn \in Quick \ {"_read"}
    BY <2>1 DEF Stacked, Shape
  <2>6. Fits(s[k], v)
    BY <2>1 DEF Stacked
  <2> QED
    BY <2>1, <2>2, <2>3, <2>4, <2>5, <2>6
<1>4. Under(u, s[1].fn \in Quick, v.r.sync)
  BY <1>2, <1>3 DEF Under
<1>5. Ahead(s) = IF s[1].fn = "data" \/ (s[1].fn = "addChunk" /\ s[1].called)
                 THEN s[1].data ELSE <<>>
  <2>1. Len(s) > 1 => s[2].fn # "data"
    BY <1>2 DEF Stacked, Shape
  <2> QED
    BY <2>1 DEF Ahead
<1>6. HasEnd(s) => IsEnd(s[1]) \/ HasEnd(u)
  <2> SUFFICES ASSUME NEW i \in DOMAIN s, IsEnd(s[i]), i # 1 PROVE HasEnd(u)
    BY DEF HasEnd
  <2>1. i - 1 \in DOMAIN u /\ u[i - 1] = s[i]
    BY <1>2
  <2> QED
    BY <2>1 DEF HasEnd
<1> QED
  BY <1>3, <1>4, <1>5, <1>6 DEF u

\* New pieces over others.
LEMMA Joined ==
    ASSUME NEW c, NEW u, NEW t, NEW v, NEW quick, t = c \o u, Stacked(c, v),
           Under(u, quick, v.r.sync), \A i \in DOMAIN u : Fits(u[i], v),
           quick => \A i \in DOMAIN c : c[i].fn \in Quick \ {"_read"}
    PROVE  /\ Stacked(t, v)
           /\ Ahead(t) = Ahead(c) /\ Behind(t) = Behind(c)
           /\ HasEnd(u) \/ HasEnd(c) => HasEnd(t)
           /\ t # <<>> /\ Closes(t[1]) => c # <<>> /\ Closes(c[1])
<1>1. c \in Seq(Frame) /\ u \in Seq(Frame)
  BY DEF Stacked, Shape, Under
<1>2. /\ t \in Seq(Frame) /\ Len(c) \in Nat /\ Len(u) \in Nat
      /\ DOMAIN t = 1 .. Len(c) + Len(u) /\ DOMAIN c = 1 .. Len(c) /\ DOMAIN u = 1 .. Len(u)
      /\ Len(t) = Len(c) + Len(u)
  BY <1>1, OnTop
<1>3. /\ \A i \in 1 .. Len(c) : t[i] = c[i]
      /\ \A i \in Len(c) + 1 .. Len(c) + Len(u) : t[i] = u[i - Len(c)]
  BY <1>1, OnTop
<1>4. ASSUME NEW i \in DOMAIN t
      PROVE  \/ i \in DOMAIN c /\ t[i] = c[i] /\ \A j \in 1 .. i - 1 : j \in DOMAIN c /\ t[j] = c[j]
             \/ /\ i \notin DOMAIN c /\ i - Len(c) \in DOMAIN u /\ t[i] = u[i - Len(c)]
                /\ \A j \in 1 .. i - 1 : \/ j \in DOMAIN c /\ t[j] = c[j]
                                         \/ j - Len(c) \in 1 .. i - Len(c) - 1 /\ t[j] = u[j - Len(c)]
  <2>1. CASE i <= Len(c)
    BY <1>2, <1>3, <2>1
  <2>2. CASE ~(i <= Len(c))
    <3>1. i \in Len(c) + 1 .. Len(c) + Len(u) /\ i - Len(c) \in DOMAIN u /\ i \notin DOMAIN c
      BY <1>2, <2>2
    <3>2. ASSUME NEW j \in 1 .. i - 1
          PROVE  \/ j \in DOMAIN c /\ t[j] = c[j]
                 \/ j - Len(c) \in 1 .. i - Len(c) - 1 /\ t[j] = u[j - Len(c)]
      <4>1. CASE j <= Len(c)
        BY <1>2, <1>3, <4>1
      <4>2. CASE ~(j <= Len(c))
        BY <1>2, <1>3, <3>1, <4>2
      <4> QED
        BY <4>1, <4>2
    <3> QED
      BY <1>3, <3>1, <3>2
  <2> QED
    BY <2>1, <2>2
<1>5. ASSUME NEW i \in DOMAIN t PROVE Fits(t[i], v)
  BY <1>4 DEF Stacked
<1>6. ASSUME NEW i \in DOMAIN t, i # 1
      PROVE  /\ t[i].fn \notin TopOnly
             /\ t[i].fn = "data" => i = 2 /\ t[1].fn = "endReadable"
             /\ t[i].fn = "take" => v.r.sync /\ \A j \in 1 .. i - 1 : t[j].fn \in Quick
             /\ IsChunk(t[i]) => v.r.sync /\ \A j \in 1 .. i - 1 : t[j].fn \in Quick \ {"_read"}
  <2>1. CASE i \in DOMAIN c /\ t[i] = c[i] /\ \A j \in 1 .. i - 1 : j \in DOMAIN c /\ t[j] = c[j]
    <3>1. 1 \in 1 .. i - 1
      BY <1>2, <1>6
    <3> QED
      BY <1>6, <2>1, <3>1 DEF Stacked, Shape
  <2>2. CASE /\ i \notin DOMAIN c /\ i - Len(c) \in DOMAIN u /\ t[i] = u[i - Len(c)]
             /\ \A j \in 1 .. i - 1 : \/ j \in DOMAIN c /\ t[j] = c[j]
                                      \/ j - Len(c) \in 1 .. i - Len(c) - 1 /\ t[j] = u[j - Len(c)]
    BY <2>2 DEF Under
  <2> QED
    BY <1>4, <2>1, <2>2
<1>7. Stacked(t, v)
  BY <1>2, <1>5, <1>6 DEF Stacked, Shape
<1>8. HasEnd(u) \/ HasEnd(c) => HasEnd(t)
  <2>1. \A i \in DOMAIN c : i \in DOMAIN t /\ t[i] = c[i]
    BY <1>2, <1>3
  <2>2. ASSUME NEW i \in DOMAIN u PROVE i + Len(c) \in DOMAIN t /\ t[i + Len(c)] = u[i]
    <3>1. i + Len(c) \in Len(c) + 1 .. Len(c) + Len(u) /\ (i + Len(c)) - Len(c) = i
      BY <1>2
    <3> QED
      BY <1>2, <1>3, <3>1
  <2> QED
    BY <2>1, <2>2 DEF HasEnd
<1>9. ASSUME c = <<>>
      PROVE  /\ Ahead(t) = Ahead(c) /\ Behind(t) = Behind(c)
             /\ t # <<>> /\ Closes(t[1]) => c # <<>> /\ Closes(c[1])
  <2>1. Len(c) = 0
    BY <1>9
  <2>2. ASSUME NEW i \in DOMAIN t PROVE i \in DOMAIN u /\ t[i] = u[i]
    BY <1>2, <1>3, <2>1
  <2>3. t # <<>> => t[1].fn \notin {"data", "addChunk", "emitCloseNT"}
    <3>1. t # <<>> => 1 \in DOMAIN t
      BY <1>2, EmptySeq
    <3> QED
      BY <2>2, <3>1 DEF Under, TopOnly
  <2>4. Len(t) > 1 => t[2].fn # "data"
    <3>1. Len(t) > 1 => 2 \in DOMAIN t
      BY <1>2
    <3> QED
      BY <2>2, <3>1 DEF Under
  <2>5. Ahead(c) = <<>> /\ Behind(c) = <<>>
    BY <1>9, <2>1 DEF Ahead, Behind
  <2>6. Ahead(t) = <<>> /\ Behind(t) = <<>>
    BY <2>3, <2>4 DEF Ahead, Behind
  <2> QED
    BY <2>3, <2>5, <2>6 DEF Closes
<1>10. ASSUME c # <<>>
       PROVE  /\ Ahead(t) = Ahead(c) /\ Behind(t) = Behind(c)
              /\ t # <<>> /\ Closes(t[1]) => c # <<>> /\ Closes(c[1])
  <2>1. Len(c) > 0 /\ t # <<>> /\ t[1] = c[1]
    BY <1>1, <1>2, <1>3, <1>10, EmptySeq
  <2>2. (Len(t) > 1 /\ t[2].fn = "data") <=> (Len(c) > 1 /\ c[2].fn = "data")
    <3>1. CASE Len(c) > 1
      BY <1>2, <1>3, <3>1
    <3>2. CASE Len(c) = 1
      <4>1. Len(t) > 1 => 1 \in DOMAIN u /\ t[2] = u[1]
        BY <1>2, <1>3, <3>2
      <4> QED
        BY <3>2, <4>1 DEF Under
    <3> QED
      BY <1>2, <2>1, <3>1, <3>2
  <2>3. Len(c) > 1 => t[2] = c[2]
    BY <1>2, <1>3
  <2>4. Ahead(t) = Ahead(c) /\ Behind(t) = Behind(c)
    BY <1>10, <2>1, <2>2, <2>3 DEF Ahead, Behind
  <2> QED
    BY <1>10, <2>1, <2>4
<1>11. Ahead(t) = Ahead(c)
  BY <1>9, <1>10
<1>12. Behind(t) = Behind(c)
  BY <1>9, <1>10
<1>13. t # <<>> /\ Closes(t[1]) => c # <<>> /\ Closes(c[1])
  BY <1>9, <1>10
<1> QED
  BY <1>7, <1>8, <1>11, <1>12, <1>13

\* The pieces there are.
LEMMA FrameKept ==
    ASSUME NEW g \in Frame
    PROVE  /\ \A x \in Pieces : [g EXCEPT !.fn = x] \in Frame /\ [g EXCEPT !.fn = x].fn = x
           /\ \A x \in Dest \cup {"", "user"} : [g EXCEPT !.who = x] \in Frame
           /\ \A x \in -1 .. 1 : [g EXCEPT !.n = x] \in Frame
           /\ \A x \in Nat : [g EXCEPT !.m = x] \in Frame
           /\ \A x \in Seq(Nat) : [g EXCEPT !.data = x] \in Frame
           /\ \A x \in {"", "flow", "onreadable"} : [g EXCEPT !.loop = x] \in Frame
           /\ \A x \in BOOLEAN : [g EXCEPT !.called = x] \in Frame
<1>1. \A x \in Pieces : [g EXCEPT !.fn = x] \in Frame /\ [g EXCEPT !.fn = x].fn = x
  BY Zenon DEF Frame
<1>2. \A x \in Dest \cup {"", "user"} : [g EXCEPT !.who = x] \in Frame
  BY Zenon DEF Frame
<1>3. \A x \in -1 .. 1 : [g EXCEPT !.n = x] \in Frame
  BY Zenon DEF Frame
<1>4. \A x \in Nat : [g EXCEPT !.m = x] \in Frame
  BY Zenon DEF Frame
<1>5. \A x \in Seq(Nat) : [g EXCEPT !.data = x] \in Frame
  BY Zenon DEF Frame
<1>6. \A x \in {"", "flow", "onreadable"} : [g EXCEPT !.loop = x] \in Frame
  BY Zenon DEF Frame
<1>7. \A x \in BOOLEAN : [g EXCEPT !.called = x] \in Frame
  BY Zenon DEF Frame
<1> QED
  BY <1>1, <1>2, <1>3, <1>4, <1>5, <1>6, <1>7

LEMMA FrameFor ==
    ASSUME NEW f \in Pieces, NEW d \in Dest \cup {"user"}
    PROVE  For(f, d) \in Frame /\ For(f, d).fn = f /\ For(f, d).who = d
<1>1. Do(f) \in Frame
  <2>1. <<>> \in Seq(Nat) /\ 0 \in Nat /\ 0 \in -1 .. 1
    BY EmptySeq
  <2> QED
    BY <2>1, Zenon DEF Do, Frame
<1>2. d \in Dest \cup {"", "user"}
  OBVIOUS
<1>3. For(f, d) \in Frame
  BY <1>1, <1>2, FrameKept DEF For
<1> QED
  BY <1>3 DEF For, Do

LEMMA Frames ==
    /\ \A f \in Pieces : /\ Do(f) \in Frame /\ Do(f).fn = f /\ Do(f).who = "" /\ Do(f).data = <<>>
                         /\ Do(f).n = 0 /\ Do(f).m = 0 /\ ~Do(f).called
    /\ \A n \in -1 .. 1 : Read(n) \in Frame /\ Read(n).fn = "read"
    /\ \A f \in Pieces, n \in {0, 1} :
          [Do(f) EXCEPT !.n = n] \in Frame /\ [Do(f) EXCEPT !.n = n].fn = f
    /\ \A f \in Pieces, c \in Seq(Nat) :
          /\ [Do(f) EXCEPT !.data = c] \in Frame /\ [Do(f) EXCEPT !.data = c].fn = f
          /\ [Do(f) EXCEPT !.data = c].data = c /\ ~[Do(f) EXCEPT !.data = c].called
    /\ \A l \in {"", "flow", "onreadable"} :
          [Read(NaN) EXCEPT !.loop = l] \in Frame /\ [Read(NaN) EXCEPT !.loop = l].fn = "read"
<1>1. <<>> \in Seq(Nat) /\ 0 \in Nat /\ 0 \in -1 .. 1 /\ 1 \in -1 .. 1 /\ -1 \in -1 .. 1 /\ "read" \in Pieces
  BY EmptySeq DEF Pieces
<1>2. ASSUME NEW f \in Pieces PROVE Do(f) \in Frame
  BY <1>1, <1>2, Zenon DEF Do, Frame
<1>3. ASSUME NEW f \in Pieces
      PROVE  /\ Do(f).fn = f /\ Do(f).who = "" /\ Do(f).data = <<>>
             /\ Do(f).n = 0 /\ Do(f).m = 0 /\ ~Do(f).called
  BY DEF Do
<1>4. ASSUME NEW n \in -1 .. 1 PROVE Read(n) \in Frame /\ Read(n).fn = "read"
  <2>1. Read(n) \in Frame
    BY <1>1, <1>2, <1>4, FrameKept DEF Read
  <2> QED
    BY <2>1 DEF Read, Do
<1>5. ASSUME NEW f \in Pieces, NEW n \in {0, 1}
      PROVE  [Do(f) EXCEPT !.n = n] \in Frame /\ [Do(f) EXCEPT !.n = n].fn = f
  <2>1. n \in -1 .. 1
    OBVIOUS
  <2>2. [Do(f) EXCEPT !.n = n] \in Frame
    BY <1>2, <1>5, <2>1, FrameKept
  <2> QED
    BY <2>2 DEF Do
<1>6. ASSUME NEW f \in Pieces, NEW c \in Seq(Nat)
      PROVE  /\ [Do(f) EXCEPT !.data = c] \in Frame /\ [Do(f) EXCEPT !.data = c].fn = f
             /\ [Do(f) EXCEPT !.data = c].data = c /\ ~[Do(f) EXCEPT !.data = c].called
  <2>1. [Do(f) EXCEPT !.data = c] \in Frame
    BY <1>2, <1>6, FrameKept
  <2> QED
    BY <2>1 DEF Do
<1>7. ASSUME NEW l \in {"", "flow", "onreadable"}
      PROVE  [Read(NaN) EXCEPT !.loop = l] \in Frame /\ [Read(NaN) EXCEPT !.loop = l].fn = "read"
  <2>1. Read(NaN) \in Frame
    BY <1>1, <1>4 DEF NaN
  <2>2. [Read(NaN) EXCEPT !.loop = l] \in Frame
    BY <1>7, <2>1, FrameKept
  <2> QED
    BY <2>2 DEF Read, Do
<1> QED
  BY <1>2, <1>3, <1>4, <1>5, <1>6, <1>7

\* Pieces that fit anywhere.
Free(f) ==
    /\ f \in Frame
    /\ f.fn \notin TopOnly \cup {"data", "take", "push", "endReadable", "endReadableNT"}
    /\ f.fn \in OfDest => f.who \in Dest
    /\ f.fn = "on data" => f.who \in Dest \cup {"user"}
AllFree(c) == c \in Seq(Frame) /\ \A i \in DOMAIN c : Free(c[i])

LEMMA FreeFits == ASSUME NEW f, NEW v, Free(f) PROVE Fits(f, v)
  BY DEF Free, Fits, TopOnly, IsEnd, IsChunk

LEMMA FreeStacked ==
    ASSUME NEW c, NEW v, AllFree(c)
    PROVE  /\ Stacked(c, v) /\ Ahead(c) = <<>> /\ Behind(c) = <<>>
           /\ c # <<>> => ~Closes(c[1])
<1>1. c \in Seq(Frame) /\ \A i \in DOMAIN c : Free(c[i])
  BY DEF AllFree
<1>2. Len(c) \in Nat /\ DOMAIN c = 1 .. Len(c) /\ (c # <<>> => 1 \in DOMAIN c)
  BY <1>1, LenProperties, EmptySeq
<1>3. Stacked(c, v)
  BY <1>1, FreeFits DEF Stacked, Shape, Free, IsChunk
<1>4. /\ c # <<>> => c[1].fn \notin {"data", "addChunk", "emitCloseNT"}
      /\ Len(c) > 1 => c[2].fn # "data"
  <2>1. Len(c) > 1 => 2 \in DOMAIN c
    BY <1>2
  <2> QED
    BY <1>1, <1>2, <2>1 DEF Free, TopOnly
<1>5. Ahead(c) = <<>> /\ Behind(c) = <<>>
  BY <1>4 DEF Ahead, Behind
<1> QED
  BY <1>3, <1>4, <1>5 DEF Closes

LEMMA Short ==
    /\ AllFree(<<>>)
    /\ \A a : Free(a) => AllFree(<<a>>)
    /\ \A a, b : Free(a) /\ Free(b) => AllFree(<<a, b>>)
    /\ \A a, b, c : Free(a) /\ Free(b) /\ Free(c) => AllFree(<<a, b, c>>)
<1>1. AllFree(<<>>)
  BY EmptySeq DEF AllFree
<1>2. \A a : Free(a) => AllFree(<<a>>)
  <2> SUFFICES ASSUME NEW a, Free(a) PROVE AllFree(<<a>>)
    OBVIOUS
  <2>1. a \in Frame
    BY DEF Free
  <2>2. <<a>> \in Seq(Frame) /\ \A i \in DOMAIN <<a>> : <<a>>[i] = a
    BY <2>1
  <2> QED
    BY <2>2 DEF AllFree
<1>3. \A a, b : Free(a) /\ Free(b) => AllFree(<<a, b>>)
  <2> SUFFICES ASSUME NEW a, NEW b, Free(a), Free(b) PROVE AllFree(<<a, b>>)
    OBVIOUS
  <2>1. a \in Frame /\ b \in Frame
    BY DEF Free
  <2>2. <<a, b>> \in Seq(Frame)
    BY <2>1
  <2>3. \A i \in DOMAIN <<a, b>> : <<a, b>>[i] \in {a, b}
    OBVIOUS
  <2> QED
    BY <2>2, <2>3 DEF AllFree
<1>4. \A a, b, c : Free(a) /\ Free(b) /\ Free(c) => AllFree(<<a, b, c>>)
  <2> SUFFICES ASSUME NEW a, NEW b, NEW c, Free(a), Free(b), Free(c) PROVE AllFree(<<a, b, c>>)
    OBVIOUS
  <2>1. a \in Frame /\ b \in Frame /\ c \in Frame
    BY DEF Free
  <2>2. <<a, b, c>> \in Seq(Frame)
    BY <2>1
  <2>3. \A i \in DOMAIN <<a, b, c>> : <<a, b, c>>[i] \in {a, b, c}
    OBVIOUS
  <2> QED
    BY <2>2, <2>3 DEF AllFree
<1> QED
  BY <1>1, <1>2, <1>3, <1>4

LEMMA FreeConcat == ASSUME NEW a, NEW b, AllFree(a), AllFree(b) PROVE AllFree(a \o b)
<1> DEFINE t == a \o b
<1>1. a \in Seq(Frame) /\ b \in Seq(Frame)
  BY DEF AllFree
<1>2. t \in Seq(Frame) /\ DOMAIN t = 1 .. Len(a) + Len(b) /\ DOMAIN a = 1 .. Len(a)
      /\ DOMAIN b = 1 .. Len(b) /\ Len(a) \in Nat /\ Len(b) \in Nat
  BY <1>1, OnTop
<1>3. /\ \A i \in 1 .. Len(a) : t[i] = a[i]
      /\ \A i \in Len(a) + 1 .. Len(a) + Len(b) : t[i] = b[i - Len(a)]
  BY <1>1, OnTop
<1> HIDE DEF t
<1>4. ASSUME NEW i \in DOMAIN t PROVE Free(t[i])
  <2>1. CASE i <= Len(a)
    BY <1>2, <1>3, <2>1 DEF AllFree
  <2>2. CASE ~(i <= Len(a))
    <3>1. i - Len(a) \in DOMAIN b /\ i \in Len(a) + 1 .. Len(a) + Len(b)
      BY <1>2, <2>2
    <3> QED
      BY <1>3, <3>1 DEF AllFree
  <2> QED
    BY <2>1, <2>2
<1>5. AllFree(t)
  BY <1>2, <1>4 DEF AllFree
<1> QED
  BY <1>5 DEF t

-----------------------------------------------------------------------------
(* Steps.                                                                   *)

\* What no step takes back.
Onward == (r.ended => r'.ended) /\ (source.eof => source'.eof) /\ client'.is = client.is

\* A piece that runs between a call of _read and its return leaves what read
\* has computed true.
ReadWaits(c) ==
    Top.fn \in Quick /\ r.sync =>
        /\ r'.sync /\ Len(r.buffer) <= Len(r'.buffer)
        /\ \A i \in DOMAIN c : c[i].fn \in Quick \ {"_read"}
        /\ Top.fn = "_read" \/ ~source'.asked \/ source.asked

LEMMA StackStep ==
    ASSUME Inv, stack # <<>>, Top.fn # "endReadable",
           NEW c, stack' = c \o Tail(stack), Stacked(c, View'), Onward, ReadWaits(c)
    PROVE  /\ Stacked(stack', View')
           /\ Ahead(stack') = Ahead(c) /\ Behind(stack') = Behind(c)
           /\ HasEnd(c) \/ (HasEnd(stack) /\ ~IsEnd(Top)) => HasEnd(stack')
           /\ stack' # <<>> /\ Closes(stack'[1]) => c # <<>> /\ Closes(c[1])
<1> DEFINE u == Tail(stack)
           q == Top.fn \in Quick /\ r.sync
<1>1. /\ Stacked(stack, View) /\ View.r = r /\ View'.r = r' /\ View.source = source /\ View'.source = source'
      /\ View.unasked = Unasked /\ View'.unasked = Unasked /\ stack \in Seq(Frame) /\ Top = stack[1]
  <2>1. Stacked(stack, View) /\ stack \in Seq(Frame)
    BY DEF Inv, Stacked, Shape
  <2>2. Top = stack[1]
    BY <2>1, Below DEF Top
  <2> QED
    BY <2>1, <2>2 DEF View, Unasked, Onward
<1>2. /\ Under(u, Top.fn \in Quick, r.sync) /\ \A i \in DOMAIN u : Fits(u[i], View)
      /\ \A i \in DOMAIN u : IsChunk(u[i]) => Top.fn # "_read"
      /\ HasEnd(stack) => IsEnd(Top) \/ HasEnd(u)
  <2>1. \A v : Stacked(stack, v) =>
            /\ Under(u, stack[1].fn \in Quick, v.r.sync) /\ \A i \in DOMAIN u : Fits(u[i], v)
            /\ \A i \in DOMAIN u : IsChunk(u[i]) => stack[1].fn # "_read"
            /\ HasEnd(stack) => IsEnd(stack[1]) \/ HasEnd(u)
    BY <1>1, TailIsUnder
  <2> HIDE DEF u
  <2>2. /\ Under(u, stack[1].fn \in Quick, View.r.sync) /\ \A i \in DOMAIN u : Fits(u[i], View)
        /\ \A i \in DOMAIN u : IsChunk(u[i]) => stack[1].fn # "_read"
        /\ HasEnd(stack) => IsEnd(stack[1]) \/ HasEnd(u)
    BY <1>1, <2>1
  <2> QED
    BY <1>1, <2>2
<1> HIDE DEF u
<1>3. Under(u, q, View'.r.sync)
  BY <1>1, <1>2 DEF Under, ReadWaits
<1>4. ASSUME NEW i \in DOMAIN u PROVE Fits(u[i], View')
  <2>1. u[i].fn \notin TopOnly \cup {"data"} /\ Fits(u[i], View)
    BY <1>2 DEF Under
  <2>2. u[i].fn = "take" => Len(r.buffer) <= Len(r'.buffer) /\ u[i].m <= Len(r.buffer)
    BY <1>1, <1>2, <1>3, <2>1 DEF Under, ReadWaits, Fits
  <2>3. u[i].fn = "take" => u[i].m <= Len(r'.buffer)
    <3>1. u[i] \in Frame /\ r.buffer \in Seq(Nat) /\ r'.buffer = r'.buffer
      BY <1>2 DEF Under, Inv, Fields
    <3>2. Len(r.buffer) \in Nat /\ u[i].m \in Nat
      BY <3>1, LenProperties DEF Frame
    <3> QED
      BY <2>2, <3>2
  <2>4. IsChunk(u[i]) => Unasked \/ ~source'.asked \/ r'.ended
    BY <1>1, <1>2, <1>3, <2>1 DEF Under, ReadWaits, Fits, Onward
  <2> QED
    BY <1>1, <2>1, <2>3, <2>4 DEF Fits, TopOnly, Onward
<1>5. q => \A i \in DOMAIN c : c[i].fn \in Quick \ {"_read"}
  BY DEF ReadWaits
<1>6. stack' = c \o u
  BY DEF u
<1> HIDE DEF q
<1>7. /\ Stacked(stack', View')
      /\ Ahead(stack') = Ahead(c) /\ Behind(stack') = Behind(c)
      /\ HasEnd(u) \/ HasEnd(c) => HasEnd(stack')
      /\ stack' # <<>> /\ Closes(stack'[1]) => c # <<>> /\ Closes(c[1])
  BY <1>3, <1>4, <1>5, <1>6, Joined
<1> QED
  BY <1>2, <1>7

\* A step that puts c in the place of the top.
LEMMA Step ==
    ASSUME Inv, stack # <<>>, Top.fn # "endReadable",
           NEW c, stack' = c \o Tail(stack), Stacked(c, View'), c # <<>> => ~Closes(c[1]),
           Onward, ReadWaits(c),
           Fields', Heard', Others', PipesFit', EndFits', ClosesOnce', TicksFit(ticks', r'.ended),
           r'.ended => source'.eof, Unasked \/ ~source'.asked \/ r'.reading \/ r'.ended,
           source'.eof => r'.ended \/ HasEnd(c) \/ (source.eof /\ ~IsEnd(Top)),
           delivered' \o Ahead(c) \o r'.buffer \o Behind(c) = pushed'
    PROVE  Inv'
<1>1. /\ Stacked(stack', View')
      /\ Ahead(stack') = Ahead(c) /\ Behind(stack') = Behind(c)
      /\ HasEnd(c) \/ (HasEnd(stack) /\ ~IsEnd(Top)) => HasEnd(stack')
      /\ stack' # <<>> /\ Closes(stack'[1]) => c # <<>> /\ Closes(c[1])
  BY StackStep
<1>2. Unasked' = Unasked
  BY DEF Unasked, Onward
<1>3. SourceFits'
  <2>1. source'.eof => r'.ended \/ HasEnd(stack')
    BY <1>1 DEF Inv, SourceFits, Onward
  <2> QED
    BY <1>2, <2>1 DEF SourceFits
<1>4. Ledger'
  BY <1>1 DEF Ledger
<1>5. Closing'
  BY <1>1 DEF Closing, ClosesNow
<1> QED
  BY <1>1, <1>3, <1>4, <1>5 DEF Inv

\* What nextTick is given.
TicksMore ==
    \/ ticks' = ticks
    \/ \E e : TickFits(e, FALSE) /\ ~Closes(e) /\ ticks' = Append(ticks, e)

TicksMay ==
    \/ ticks' = ticks
    \/ \E e : TickFits(e, r'.ended) /\ ~Closes(e) /\ ticks' = Append(ticks, e)

LEMMA MoreMay == ASSUME TicksMore PROVE TicksMay
  BY DEF TicksMore, TicksMay, TickFits

LEMMA TicksStep ==
    ASSUME Inv, TicksMay, r.ended => r'.ended,
           r'.destroyed = r.destroyed, r'.closeEmitted = r.closeEmitted
    PROVE  TicksFit(ticks', r'.ended) /\ ClosesOnce'
<1>1. /\ ticks \in Seq(Frame) /\ \A i \in DOMAIN ticks : TickFits(ticks[i], r'.ended)
  BY DEF Inv, TicksFit, TickFits
<1>2. CASE ticks' = ticks
  BY <1>1, <1>2 DEF Inv, TicksFit, Closing, ClosesOnce
<1>3. ASSUME NEW e, TickFits(e, r'.ended), ~Closes(e), ticks' = Append(ticks, e)
      PROVE  TicksFit(ticks', r'.ended) /\ ClosesOnce'
  <2>1. e \in Frame
    BY <1>3 DEF TickFits
  <2>2. /\ ticks' \in Seq(Frame) /\ Len(ticks') = Len(ticks) + 1 /\ Len(ticks) \in Nat
        /\ DOMAIN ticks = 1 .. Len(ticks) /\ DOMAIN ticks' = 1 .. Len(ticks')
        /\ ticks'[Len(ticks) + 1] = e /\ \A i \in 1 .. Len(ticks) : ticks'[i] = ticks[i]
    BY <1>1, <1>3, <2>1, AppendProperties, LenProperties
  <2>3. ASSUME NEW i \in DOMAIN ticks'
        PROVE  (i \in DOMAIN ticks /\ ticks'[i] = ticks[i]) \/ ticks'[i] = e
    BY <2>2
  <2>4. TicksFit(ticks', r'.ended)
    BY <1>1, <1>3, <2>2, <2>3 DEF TicksFit
  <2>5. ClosesOnce'
    BY <1>3, <2>3 DEF Inv, Closing, ClosesOnce
  <2> QED
    BY <2>4, <2>5
<1> QED
  BY <1>2, <1>3 DEF TicksMay

LEMMA Topmost ==
    ASSUME Inv, stack # <<>>
    PROVE  /\ Top = stack[1] /\ 1 \in DOMAIN stack /\ stack \in Seq(Frame) /\ Tail(stack) \in Seq(Frame)
           /\ Top \in Frame /\ Fits(Top, View)
<1>1. stack \in Seq(Frame) /\ \A i \in DOMAIN stack : Fits(stack[i], View)
  BY DEF Inv, Stacked, Shape
<1>2. Top = stack[1] /\ Top \in Frame /\ Tail(stack) \in Seq(Frame)
  BY <1>1, Below DEF Top
<1>3. 1 \in DOMAIN stack
  BY <1>1, Below
<1> QED
  BY <1>1, <1>2, <1>3

LEMMA NothingOnItsWay ==
    ASSUME Inv, stack # <<>>, Top.fn \notin {"data", "addChunk", "endReadable"}
    PROVE  Ahead(stack) = <<>> /\ Behind(stack) = <<>> /\ delivered \o r.buffer = pushed
<1>1. /\ Stacked(stack, View) /\ Top = stack[1]
      /\ delivered \in Seq(Nat) /\ r.buffer \in Seq(Nat)
  BY Topmost DEF Inv, Fields, Others
<1>2. Ahead(stack) = <<>>
  BY <1>1, TailIsUnder
<1>3. Behind(stack) = <<>>
  BY <1>1 DEF Behind
<1>4. delivered \o <<>> \o r.buffer \o <<>> = pushed
  BY <1>2, <1>3 DEF Inv, Ledger
<1>5. delivered \o <<>> = delivered /\ delivered \o r.buffer \in Seq(Nat)
  BY <1>1, ConcatEmptySeq, ConcatProperties
<1>6. (delivered \o r.buffer) \o <<>> = delivered \o r.buffer
  BY <1>5, ConcatEmptySeq
<1> QED
  BY <1>2, <1>3, <1>4, <1>5, <1>6

LEMMA LedgerOf ==
    ASSUME NEW d \in Seq(Nat), NEW b \in Seq(Nat)
    PROVE  d \o <<>> \o b \o <<>> = d \o b
<1>1. d \o <<>> = d /\ d \o b \in Seq(Nat)
  BY ConcatEmptySeq, ConcatProperties
<1>2. (d \o b) \o <<>> = d \o b
  BY <1>1, ConcatEmptySeq
<1> QED
  BY <1>1, <1>2

\* Most steps: pieces that fit anywhere in the place of one that carries
\* nothing, while the chunks and the end are left alone.
Quiet ==
    /\ r'.buffer = r.buffer /\ r'.ended = r.ended /\ r'.endEmitted = r.endEmitted
    /\ r'.reading = r.reading /\ r'.sync = r.sync /\ r'.destroyed = r.destroyed
    /\ r'.errorEmitted = r.errorEmitted /\ r'.closeEmitted = r.closeEmitted
    /\ UNCHANGED <<source, client, pushed, delivered, emitted>>

LEMMA FreeStep ==
    ASSUME Inv, stack # <<>>, Top.fn \notin {"data", "addChunk", "endReadable", "_read", "push"},
           NEW c, stack' = c \o Tail(stack), AllFree(c), Top.fn \in Quick => c = <<>>,
           Quiet, Fields', Heard', PipesFit', TicksMore
    PROVE  Inv'
<1>1. /\ Stacked(c, View') /\ Ahead(c) = <<>> /\ Behind(c) = <<>>
      /\ c # <<>> => ~Closes(c[1])
  BY FreeStacked
<1>2. Onward /\ Unasked' = Unasked
  BY DEF Quiet, Onward, Unasked
<1>3. ReadWaits(c)
  <2>1. Len(r.buffer) \in Nat
    BY LenProperties DEF Inv, Fields
  <2>2. c = <<>> => DOMAIN c = {}
    OBVIOUS
  <2>3. Len(r.buffer) <= Len(r'.buffer) /\ source'.asked = source.asked
    BY <2>1 DEF Quiet
  <2> QED
    BY <2>2, <2>3 DEF ReadWaits, Quiet
<1>4. TicksFit(ticks', r'.ended) /\ ClosesOnce'
  BY MoreMay, TicksStep DEF Quiet
<1>5. Others' /\ EndFits'
  BY DEF Inv, Others, EndFits, Quiet, EventsInOrder
<1>6. ~IsEnd(Top)
  BY DEF IsEnd
<1>7. /\ r'.ended => source'.eof
      /\ Unasked \/ ~source'.asked \/ r'.reading \/ r'.ended
      /\ source'.eof => r'.ended \/ HasEnd(c) \/ (source.eof /\ ~IsEnd(Top))
  BY <1>6 DEF Inv, SourceFits, Quiet
<1>8. delivered' \o Ahead(c) \o r'.buffer \o Behind(c) = pushed'
  <2>1. delivered \o r.buffer = pushed
    BY NothingOnItsWay
  <2>2. delivered \o <<>> \o r.buffer \o <<>> = pushed
    BY <2>1, LedgerOf DEF Inv, Fields, Others
  <2> QED
    BY <1>1, <2>2 DEF Quiet
<1> QED
  BY <1>1, <1>2, <1>3, <1>4, <1>5, <1>7, <1>8, Step

\* The steps that change flags only.
Flags ==
    /\ Quiet /\ Fields' /\ TicksMore
    /\ UNCHANGED <<on, pipe>>
    /\ r'.pipes = r.pipes /\ r'.awaiting = r.awaiting /\ r'.multi = r.multi

LEMMA FlagStep ==
    ASSUME Inv, stack # <<>>, Top.fn \notin {"data", "addChunk", "endReadable", "_read", "push"},
           NEW c, stack' = c \o Tail(stack), AllFree(c), Top.fn \in Quick => c = <<>>, Flags
    PROVE  Inv'
<1>1. Quiet /\ Fields' /\ TicksMore
  BY DEF Flags
<1>2. Heard' /\ PipesFit'
  BY DEF Inv, Flags, Heard, PipesFit
<1> QED
  BY <1>1, <1>2, FreeStep

\* Pieces that fit anywhere.
Calm == {"read", "flow", "emitReadable", "emitReadable_", "onreadable", "readableEmitted",
         "readableAgain", "maybeReadMore", "maybeReadMore_", "user", "resume", "resume_",
         "resumed", "flowed", "pause", "updateReadableListening", "destroy"}

LEMMA Frees ==
    /\ \A f \in Calm : Free(Do(f))
    /\ \A f \in OfDest \ {"pipe"}, d \in Dest : Free(For(f, d))
    /\ \A d \in Dest \cup {"user"} : Free(For("on data", d))
    /\ Free(Read(NaN)) /\ Free(Read(0)) /\ Free(Read(1))
    /\ \A l \in {"", "flow", "onreadable"} : Free([Read(NaN) EXCEPT !.loop = l])
    /\ \A n \in {0, 1} : Free([Do("destroy") EXCEPT !.n = n])
<1>1. Calm \subseteq Pieces /\ OfDest \subseteq Pieces /\ "on data" \in Pieces /\ "destroy" \in Pieces
  BY DEF Calm, Pieces, OfDest
<1>2. \A f \in Calm : Free(Do(f))
  <2> SUFFICES ASSUME NEW f \in Calm PROVE Free(Do(f))
    OBVIOUS
  <2>1. Do(f) \in Frame /\ Do(f).fn = f
    BY <1>1, Frames
  <2> QED
    BY <2>1 DEF Free, Calm, TopOnly, OfDest
<1>3. \A f \in OfDest \ {"pipe"}, d \in Dest : Free(For(f, d))
  <2> SUFFICES ASSUME NEW f \in OfDest \ {"pipe"}, NEW d \in Dest PROVE Free(For(f, d))
    OBVIOUS
  <2>1. f \in Pieces /\ d \in Dest \cup {"user"}
    BY <1>1
  <2>2. For(f, d) \in Frame /\ For(f, d).fn = f /\ For(f, d).who = d
    BY <2>1, FrameFor
  <2> QED
    BY <2>2 DEF Free, TopOnly, OfDest
<1>4. \A d \in Dest \cup {"user"} : Free(For("on data", d))
  <2> SUFFICES ASSUME NEW d \in Dest \cup {"user"} PROVE Free(For("on data", d))
    OBVIOUS
  <2>1. "on data" \in Pieces /\ d \in Dest \cup {"user"}
    BY <1>1
  <2>2. For("on data", d) \in Frame /\ For("on data", d).fn = "on data" /\ For("on data", d).who = d
    BY <2>1, FrameFor
  <2> QED
    BY <2>2 DEF Free, TopOnly, OfDest
<1>5. Free(Read(NaN)) /\ Free(Read(0)) /\ Free(Read(1))
  <2>1. \A n \in -1 .. 1 : Free(Read(n))
    BY Frames DEF Free, TopOnly, OfDest
  <2>2. NaN \in -1 .. 1 /\ 0 \in -1 .. 1 /\ 1 \in -1 .. 1
    BY DEF NaN
  <2> QED
    BY <2>1, <2>2
<1>6. \A l \in {"", "flow", "onreadable"} : Free([Read(NaN) EXCEPT !.loop = l])
  BY Frames DEF Free, TopOnly, OfDest
<1>7. \A n \in {0, 1} : Free([Do("destroy") EXCEPT !.n = n])
  <2> SUFFICES ASSUME NEW n \in {0, 1} PROVE Free([Do("destroy") EXCEPT !.n = n])
    OBVIOUS
  <2>1. Do("destroy") \in Frame
    BY <1>1, Frames
  <2>2. n \in -1 .. 1
    OBVIOUS
  <2>3. [Do("destroy") EXCEPT !.n = n] \in Frame
    BY <2>2, <2>1, FrameKept
  <2>4. [Do("destroy") EXCEPT !.n = n].fn = "destroy"
    BY DEF Do
  <2> QED
    BY <2>3, <2>4 DEF Free, TopOnly, OfDest
<1> QED
  BY <1>2, <1>3, <1>4, <1>5, <1>6, <1>7

LEMMA TickFree ==
    \A f \in {"emitReadable_", "maybeReadMore_", "resume_", "updateReadableListening"} :
        TickFits(Do(f), FALSE) /\ ~Closes(Do(f))
<1>1. {"emitReadable_", "maybeReadMore_", "resume_", "updateReadableListening"} \subseteq Pieces
  BY DEF Pieces
<1> QED
  BY <1>1, Frames DEF TickFits, Closes, InTicks, OfDest

LEMMA ListenerReturnsStep == ASSUME Inv, ListenerReturns PROVE Inv'
<1> USE DEF ListenerReturns, Becomes, Set, Then, World, log, Runs
<1>1. Flags
  BY DEF Flags, Quiet, Inv, Fields, TicksMore
<1> QED
  BY <1>1, FlagStep, Short DEF Quick

LEMMA OnreadableStep == ASSUME Inv, Onreadable PROVE Inv'
<1> USE DEF Onreadable, Becomes, Set, Then, World, log, Runs
<1>1. Flags
  BY DEF Flags, Quiet, Inv, Fields, TicksMore
<1>2. \E c : AllFree(c) /\ stack' = c \o Tail(stack)
  <2>1. Free(Do("user")) /\ Free(Read(NaN)) /\ Free([Read(NaN) EXCEPT !.loop = "onreadable"])
    BY Frees DEF Calm, NaN
  <2> QED
    BY <2>1, Short
<1> QED
  BY <1>1, <1>2, FlagStep DEF Quick

LEMMA FlowStep == ASSUME Inv, Flow PROVE Inv'
<1> USE DEF Flow, Becomes, Set, Then, World, log, Runs
<1>1. Flags
  BY DEF Flags, Quiet, Inv, Fields, TicksMore
<1>2. \E c : AllFree(c) /\ stack' = c \o Tail(stack)
  <2>1. Free([Read(NaN) EXCEPT !.loop = "flow"])
    BY Frees
  <2> QED
    BY <2>1, Short
<1> QED
  BY <1>1, <1>2, FlagStep DEF Quick

LEMMA EmitReadableStep == ASSUME Inv, EmitReadable PROVE Inv'
<1> USE DEF EmitReadable, Becomes, Set, Then, World, log, Runs, Later
<1>1. Flags
  BY TickFree DEF Flags, Quiet, Inv, Fields, TicksMore
<1> QED
  BY <1>1, FlagStep, Short DEF Quick

LEMMA EmitReadable_Step == ASSUME Inv, EmitReadable_ PROVE Inv'
<1> USE DEF EmitReadable_, EmitsReadable, Becomes, Set, Then, World, log, Runs
<1>1. Flags
  BY DEF Flags, Quiet, Inv, Fields, TicksMore
<1>2. \E c : AllFree(c) /\ stack' = c \o Tail(stack)
  <2>1. Free(Do("onreadable")) /\ Free(Do("readableEmitted")) /\ Free(Do("readableAgain"))
    BY Frees DEF Calm
  <2>2. /\ AllFree(<<>>) /\ AllFree(<<Do("onreadable")>>)
        /\ AllFree(<<Do("readableEmitted"), Do("readableAgain")>>) /\ AllFree(<<Do("readableAgain")>>)
    BY <2>1, Short
  <2>3. AllFree((IF on.readable THEN <<Do("onreadable")>> ELSE <<>>)
                \o <<Do("readableEmitted"), Do("readableAgain")>>)
    BY <2>2, FreeConcat
  <2> QED
    BY <2>2, <2>3
<1> QED
  BY <1>1, <1>2, FlagStep DEF Quick

LEMMA ReadableEmittedStep == ASSUME Inv, ReadableEmitted PROVE Inv'
<1> USE DEF ReadableEmitted, Becomes, Set, Then, World, log, Runs
<1>1. Flags
  BY DEF Flags, Quiet, Inv, Fields, TicksMore
<1> QED
  BY <1>1, FlagStep, Short DEF Quick

LEMMA ReadableAgainStep == ASSUME Inv, ReadableAgain PROVE Inv'
<1> USE DEF ReadableAgain, Becomes, Set, Then, World, log, Runs
<1>1. Flags
  BY DEF Flags, Quiet, Inv, Fields, TicksMore
<1>2. AllFree(<<Do("flow")>>)
  BY Short, Frees DEF Calm
<1> QED
  BY <1>1, <1>2, FlagStep DEF Quick

LEMMA MaybeReadMoreStep == ASSUME Inv, MaybeReadMore PROVE Inv'
<1> USE DEF MaybeReadMore, Becomes, Set, Then, World, log, Runs, Later
<1>1. Flags
  BY TickFree DEF Flags, Quiet, Inv, Fields, TicksMore
<1> QED
  BY <1>1, FlagStep, Short DEF Quick

LEMMA ReadMoreStep == ASSUME Inv, ReadMore PROVE Inv'
<1> USE DEF ReadMore, Becomes, Set, Then, World, log, Runs
<1>1. Flags
  BY DEF Flags, Quiet, Inv, Fields, TicksMore
<1>2. \E c : AllFree(c) /\ stack' = c \o Tail(stack)
  <2> DEFINE g == [Top EXCEPT !.m = Length, !.called = TRUE]
  <2>1. Free(Read(0))
    BY Frees
  <2>2. Free(g)
    <3>1. Top \in Frame /\ Length \in Nat
      BY Topmost, LenProperties DEF Inv, Fields, Length
    <3>2. [Top EXCEPT !.m = Length] \in Frame
      BY <3>1, FrameKept
    <3>3. [[Top EXCEPT !.m = Length] EXCEPT !.called = TRUE] \in Frame
      BY <3>2, FrameKept
    <3>4. g = [[Top EXCEPT !.m = Length] EXCEPT !.called = TRUE] /\ g.fn = "maybeReadMore_"
      BY <3>1 DEF Frame
    <3> HIDE DEF g
    <3> QED
      BY <3>3, <3>4 DEF Free, TopOnly, OfDest
  <2> HIDE DEF g
  <2>3. AllFree(<<>>) /\ AllFree(<<Read(0), g>>)
    BY <2>1, <2>2, Short
  <2> QED
    BY <2>3 DEF g
<1> QED
  BY <1>1, <1>2, FlagStep DEF Quick

LEMMA ResumeStep == ASSUME Inv, Resume PROVE Inv'
<1> USE DEF Resume, Flows, Becomes, Set, Then, World, log, Runs, Later
<1>1. Flags
  BY TickFree, ZenonT(40) DEF Flags, Quiet, Inv, Fields, TicksMore
<1> QED
  BY <1>1, FlagStep, Short DEF Quick

LEMMA Resume_Step == ASSUME Inv, Resume_ PROVE Inv'
<1> USE DEF Resume_, Becomes, Set, Then, World, log, Runs
<1>1. Flags
  BY DEF Flags, Quiet, Inv, Fields, TicksMore
<1>2. AllFree(ReadZero \o <<Do("resumed")>>)
  BY Short, FreeConcat, Frees DEF Calm, ReadZero
<1> QED
  BY <1>1, <1>2, FlagStep DEF Quick

LEMMA ResumedStep == ASSUME Inv, Resumed PROVE Inv'
<1> USE DEF Resumed, Becomes, Set, Then, World, log, Runs
<1>1. Flags
  BY DEF Flags, Quiet, Inv, Fields, TicksMore
<1>2. AllFree(<<Do("flow"), Do("flowed")>>)
  BY Short, Frees DEF Calm
<1> QED
  BY <1>1, <1>2, FlagStep DEF Quick

LEMMA FlowedStep == ASSUME Inv, Flowed PROVE Inv'
<1> USE DEF Flowed, Becomes, Set, Then, World, log, Runs
<1>1. Flags
  BY DEF Flags, Quiet, Inv, Fields, TicksMore
<1>2. \E c : AllFree(c) /\ stack' = c \o Tail(stack)
  BY Short, Frees DEF ReadZero
<1> QED
  BY <1>1, <1>2, FlagStep DEF Quick

LEMMA PauseStep == ASSUME Inv, Pause PROVE Inv'
<1> USE DEF Pause, Becomes, Set, Then, World, log, Runs
<1>1. Flags
  BY DEF Flags, Quiet, Inv, Fields, TicksMore
<1> QED
  BY <1>1, FlagStep, Short DEF Quick

LEMMA UpdateStep == ASSUME Inv, UpdateReadableListening PROVE Inv'
<1> USE DEF UpdateReadableListening, Becomes, Set, Then, World, log, Runs, Unset
<1>1. Flags
  BY ZenonT(40) DEF Flags, Quiet, Inv, Fields, TicksMore
<1>2. \E c : AllFree(c) /\ stack' = c \o Tail(stack)
  BY Short, Frees DEF Calm
<1> QED
  BY <1>1, <1>2, FlagStep DEF Quick

LEMMA PipedStep == ASSUME Inv, Piped PROVE Inv'
<1> USE DEF Piped, Becomes, Set, Then, World, log, Runs
<1>1. Flags
  BY DEF Flags, Quiet, Inv, Fields, TicksMore
<1>2. Top.who \in Dest
  BY Topmost DEF Fits, OfDest
<1>3. \E c : AllFree(c) /\ stack' = c \o Tail(stack)
  <2>1. Free(For("pausePipe", Top.who)) /\ Free(Do("resume"))
    BY <1>2, Frees DEF Calm, OfDest
  <2> QED
    BY <2>1, Short
<1> QED
  BY <1>1, <1>3, FlagStep DEF Quick

LEMMA DestClosesStep == ASSUME Inv, DestCloses PROVE Inv'
<1> USE DEF DestCloses, Becomes, Set, Then, World, log, Runs
<1>1. Flags
  BY DEF Flags, Quiet, Inv, Fields, TicksMore
<1>2. Top.who \in Dest
  BY Topmost DEF Fits, OfDest
<1>3. AllFree(<<For("unpipe", Top.who)>>)
  BY <1>2, Short, Frees DEF OfDest
<1> QED
  BY <1>1, <1>3, FlagStep DEF Quick

-----------------------------------------------------------------------------
(* Listeners.                                                               *)

LEMMA Added ==
    ASSUME NEW S, NEW s \in Seq(S), NEW e \in S, NEW t, t = Append(s, e)
    PROVE  /\ t \in Seq(S) /\ Len(s) \in Nat /\ Len(t) = Len(s) + 1
           /\ DOMAIN s = 1 .. Len(s) /\ DOMAIN t = 1 .. Len(s) + 1
           /\ \A i \in 1 .. Len(s) : t[i] = s[i]
           /\ t[Len(s) + 1] = e
           /\ \A i \in DOMAIN t : t[i] = e \/ \E j \in DOMAIN s : t[i] = s[j]
<1>1. t \in Seq(S) /\ Len(t) = Len(s) + 1
  BY AppendProperties
<1>2. Len(s) \in Nat /\ DOMAIN s = 1 .. Len(s) /\ DOMAIN t = 1 .. Len(t)
  BY <1>1, LenProperties
<1>3. \A i \in 1 .. Len(s) : t[i] = s[i]
  BY AppendProperties
<1>4. t[Len(s) + 1] = e
  BY AppendProperties
<1>5. \A i \in DOMAIN t : i \in DOMAIN s \/ i = Len(s) + 1
  BY <1>1, <1>2
<1>6. \A i \in DOMAIN t : t[i] = e \/ \E j \in DOMAIN s : t[i] = s[j]
  BY <1>2, <1>3, <1>4, <1>5
<1> QED
  BY <1>1, <1>2, <1>3, <1>4, <1>6

LEMMA AddedInjective ==
    ASSUME NEW S, NEW s \in Seq(S), NEW e \in S, IsInjective(s), \A i \in DOMAIN s : s[i] # e
    PROVE  IsInjective(Append(s, e))
<1> DEFINE t == Append(s, e)
<1>1. /\ Len(s) \in Nat /\ DOMAIN s = 1 .. Len(s) /\ DOMAIN t = 1 .. Len(s) + 1
      /\ \A i \in 1 .. Len(s) : t[i] = s[i]
      /\ t[Len(s) + 1] = e
  BY Added
<1> HIDE DEF t
<1>2. ASSUME NEW i \in DOMAIN t, NEW j \in DOMAIN t, t[i] = t[j] PROVE i = j
  <2>1. CASE i \in DOMAIN s /\ j \in DOMAIN s
    BY <1>1, <1>2, <2>1 DEF IsInjective
  <2>2. CASE i = Len(s) + 1 \/ j = Len(s) + 1
    BY <1>1, <1>2, <2>2
  <2> QED
    BY <1>1, <2>1, <2>2
<1>3. IsInjective(t)
  BY <1>2 DEF IsInjective
<1> QED
  BY <1>3 DEF t

\* RemoveFirst gives a part of what it is given.
LEMMA Least == ASSUME NEW T, T \subseteq Nat, T # {} PROVE \E x \in T : \A y \in T : x <= y
<1> DEFINE R == OpToRel(<, Nat)
<1>1. IsWellFoundedOn(R, Nat)
  BY NatLessThanWellFounded
<1>2. \A x, y \in Nat : y < x => <<y, x>> \in R
  BY DEF OpToRel
<1> HIDE DEF R
<1>3. PICK x \in T : \A y \in T : ~(<<y, x>> \in R)
  BY <1>1, WFMin
<1>4. \A y \in T : x \in Nat /\ y \in Nat /\ ~(y < x)
  BY <1>2, <1>3
<1> QED
  BY <1>4

\* t is s without its element k.
Skips(t, s, k) ==
    \A i \in DOMAIN t : \/ i < k /\ i \in DOMAIN s /\ t[i] = s[i]
                        \/ i >= k /\ i + 1 \in DOMAIN s /\ t[i] = s[i + 1]

LEMMA FirstOut ==
    ASSUME NEW S, NEW s \in Seq(S), NEW e
    PROVE  /\ RemoveFirst(s, e) \in Seq(S)
           /\ Len(RemoveFirst(s, e)) <= Len(s)
           /\ \E k \in Nat :
                 /\ (\E i \in DOMAIN s : s[i] = e) => k \in DOMAIN s /\ s[k] = e
                 /\ Skips(RemoveFirst(s, e), s, k)
<1>1. Len(s) \in Nat /\ DOMAIN s = 1 .. Len(s) /\ \A i \in 1 .. Len(s) : s[i] \in S
  BY LenProperties, ElementOfSeq
<1>2. CASE \E i \in 1 .. Len(s) : s[i] = e
  <2> DEFINE at == {i \in 1 .. Len(s) : s[i] = e}
             k  == Min(at)
             a  == SubSeq(s, 1, k - 1)
             b  == SubSeq(s, k + 1, Len(s))
  <2>1. at # {} /\ at \subseteq Nat
    BY <1>1, <1>2
  <2>2. k \in at
    <3>1. \E x \in at : \A y \in at : x <= y
      BY <2>1, Least
    <3> HIDE DEF at
    <3> QED
      BY <3>1 DEF Min
  <2>3. RemoveFirst(s, e) = a \o b
    BY <1>2, <2>1 DEF RemoveFirst, RemoveAt, SelectInSeq
  <2> HIDE DEF k
  <2>4. k \in 1 .. Len(s) /\ s[k] = e
    BY <2>2
  <2>5. a \in Seq(S) /\ Len(a) = k - 1 /\ \A i \in 1 .. k - 1 : a[i] = s[i]
    BY <1>1, <2>4, SubSeqProperties
  <2>6. b \in Seq(S) /\ Len(b) = Len(s) - k /\ \A i \in 1 .. Len(s) - k : b[i] = s[k + i]
    <3>1. k + 1 \in Int /\ Len(s) \in Int /\ \A i \in k + 1 .. Len(s) : s[i] \in S
      BY <1>1, <2>4
    <3>2. b \in Seq(S)
      BY <3>1, SubSeqProperties
    <3>3. Len(b) = IF k + 1 <= Len(s) THEN Len(s) - (k + 1) + 1 ELSE 0
      BY <3>1, SubSeqProperties
    <3>4. \A i \in 1 .. Len(s) - (k + 1) + 1 : b[i] = s[(k + 1) + i - 1]
      BY <3>1, SubSeqProperties
    <3> HIDE DEF b
    <3>5. ASSUME NEW i \in 1 .. Len(s) - k PROVE b[i] = s[k + i]
      <4>1. i \in 1 .. Len(s) - (k + 1) + 1 /\ (k + 1) + i - 1 = k + i
        BY <1>1, <2>4
      <4> QED
        BY <3>4, <4>1
    <3>6. Len(b) = Len(s) - k
      <4>1. Len(s) \in Nat /\ k \in 1 .. Len(s)
        BY <1>1, <2>4
      <4>2. (IF k + 1 <= Len(s) THEN Len(s) - (k + 1) + 1 ELSE 0) = Len(s) - k
        BY <4>1
      <4> QED
        BY <3>3, <4>2
    <3> QED
      BY <3>2, <3>5, <3>6
  <2> HIDE DEF a, b
  <2> DEFINE t == a \o b
  <2>7. /\ t \in Seq(S) /\ DOMAIN t = 1 .. Len(s) - 1 /\ Len(t) = Len(s) - 1
        /\ \A i \in 1 .. k - 1 : t[i] = a[i]
        /\ \A i \in k .. Len(s) - 1 : t[i] = b[i - (k - 1)]
    <3>1. t \in Seq(S) /\ Len(t) = Len(a) + Len(b)
      BY <2>5, <2>6, ConcatProperties
    <3>2. /\ \A i \in 1 .. Len(a) : t[i] = a[i]
          /\ \A i \in Len(a) + 1 .. Len(a) + Len(b) : t[i] = b[i - Len(a)]
      BY <2>5, <2>6, OnTop
    <3> HIDE DEF t
    <3>3. Len(a) + Len(b) = Len(s) - 1 /\ Len(a) = k - 1 /\ Len(a) + 1 = k
      BY <1>1, <2>4, <2>5, <2>6
    <3>4. DOMAIN t = 1 .. Len(s) - 1
      BY <3>1, <3>3, LenProperties
    <3> QED
      BY <3>1, <3>2, <3>3, <3>4
  <2>8. ASSUME NEW i \in k .. Len(s) - 1 PROVE t[i] = s[i + 1]
    <3>1. i - (k - 1) \in 1 .. Len(s) - k /\ k + (i - (k - 1)) = i + 1
      BY <1>1, <2>4
    <3> QED
      BY <2>6, <2>7, <3>1
  <2>9. t = RemoveFirst(s, e)
    BY <2>3
  <2> HIDE DEF t
  <2>10. \A i \in DOMAIN t : \/ i < k /\ i \in DOMAIN s /\ t[i] = s[i]
                             \/ i >= k /\ i + 1 \in DOMAIN s /\ t[i] = s[i + 1]
    BY <1>1, <2>4, <2>5, <2>7, <2>8
  <2>11. Skips(t, s, k)
    BY <2>10 DEF Skips
  <2> QED
    BY <1>1, <2>4, <2>7, <2>9, <2>11
<1>3. CASE ~\E i \in 1 .. Len(s) : s[i] = e
  <2>1. RemoveFirst(s, e) = s
    BY <1>3 DEF RemoveFirst
  <2>2. \A i \in DOMAIN s : i < Len(s) + 1 /\ Len(s) + 1 \in Nat
    BY <1>1
  <2>3. Len(s) + 1 \in Nat /\ Len(s) <= Len(s)
    BY <1>1
  <2> DEFINE k == Len(s) + 1
  <2>4. /\ (\E i \in DOMAIN s : s[i] = e) => k \in DOMAIN s /\ s[k] = e
        /\ Skips(s, s, k)
    BY <1>1, <1>3, <2>2 DEF Skips
  <2>5. k \in Nat
    BY <2>3
  <2> HIDE DEF k
  <2> QED
    BY <2>1, <2>3, <2>4, <2>5
<1> QED
  BY <1>2, <1>3

LEMMA Without ==
    ASSUME NEW S, NEW s \in Seq(S), NEW e
    PROVE  /\ RemoveFirst(s, e) \in Seq(S)
           /\ Len(RemoveFirst(s, e)) <= Len(s)
           /\ \E k \in Nat : \A i \in DOMAIN RemoveFirst(s, e) :
                 \/ i < k /\ i \in DOMAIN s /\ RemoveFirst(s, e)[i] = s[i]
                 \/ i >= k /\ i + 1 \in DOMAIN s /\ RemoveFirst(s, e)[i] = s[i + 1]
<1>1. PICK t : t = RemoveFirst(s, e)
  OBVIOUS
<1>2. t \in Seq(S) /\ Len(t) <= Len(s)
  BY <1>1, FirstOut
<1>3. PICK k \in Nat : Skips(t, s, k)
  BY <1>1, FirstOut
<1> QED
  BY <1>1, <1>2, <1>3 DEF Skips

LEMMA OnDataStep == ASSUME Inv, OnData PROVE Inv'
<1> USE DEF OnData, Becomes, Set, Then, World, log, Runs
<1>1. Quiet /\ Fields' /\ TicksMore
  BY DEF Quiet, Inv, Fields, TicksMore
<1>2. Heard'
  <2>1. Top.who \in Dest \cup {"user"}
    BY Topmost DEF Fits
  <2>2. Append(on.data, Top.who) \in Seq(Dest \cup {"user"})
    BY <2>1, Added DEF Inv, Heard
  <2> QED
    BY <2>2 DEF Inv, Heard
<1>3. PipesFit'
  BY DEF Inv, Fields, PipesFit
<1>4. \E c : AllFree(c) /\ stack' = c \o Tail(stack)
  BY Short, Frees DEF Calm
<1> QED
  BY <1>1, <1>2, <1>3, <1>4, FreeStep DEF Quick

LEMMA OffDataStep == ASSUME Inv, OffData PROVE Inv'
<1> USE DEF OffData, Becomes, Set, Then, World, log, Runs
<1>1. Quiet /\ Fields' /\ TicksMore
  BY DEF Quiet, Inv, Fields, TicksMore
<1>2. Heard'
  <2>1. RemoveFirst(on.data, Top.who) \in Seq(Dest \cup {"user"})
    BY Without DEF Inv, Heard
  <2> QED
    BY <2>1 DEF Inv, Heard
<1>3. PipesFit'
  BY DEF Inv, Fields, PipesFit
<1> QED
  BY <1>1, <1>2, <1>3, Short, FreeStep DEF Quick

LEMMA OnReadableStep == ASSUME Inv, OnReadable PROVE Inv'
<1> USE DEF OnReadable, Becomes, Set, Then, World, log, Runs, Later
<1>1. TicksMore
  <2>1. Read(0).fn = "read"
    BY DEF Read, Do
  <2>2. TickFits(Read(0), FALSE) /\ ~Closes(Read(0))
    BY <2>1, Frees DEF Free, TickFits, Closes, InTicks, OfDest
  <2> QED
    BY <2>2 DEF TicksMore
<1>2. Quiet /\ Fields'
  BY DEF Quiet, Inv, Fields
<1>3. Heard' /\ PipesFit'
  BY ZenonT(40) DEF Inv, Fields, Heard, PipesFit
<1>4. \E c : AllFree(c) /\ stack' = c \o Tail(stack)
  BY Short, Frees DEF Calm
<1> QED
  BY <1>1, <1>2, <1>3, <1>4, FreeStep DEF Quick

LEMMA OffReadableStep == ASSUME Inv, OffReadable PROVE Inv'
<1> USE DEF OffReadable, Becomes, Set, Then, World, log, Runs, Later
<1>1. Quiet /\ Fields' /\ TicksMore
  BY TickFree DEF Quiet, Inv, Fields, TicksMore
<1>2. Heard' /\ PipesFit'
  BY DEF Inv, Fields, Heard, PipesFit
<1> QED
  BY <1>1, <1>2, Short, FreeStep DEF Quick

-----------------------------------------------------------------------------
(* Pipes.                                                                   *)

\* The variables of a pipe's closures, changed.
LEMMA PipeStep == ASSUME Inv, Pipe PROVE Inv'
<1> DEFINE d == Top.who
<1>1. /\ stack # <<>> /\ Top.fn = "pipe"
      /\ stack' = <<For("on data", d), For("piped", d)>> \o Tail(stack)
      /\ r' = [r EXCEPT !.multi = r.multi \/ Len(r.pipes) = 1, !.pipes = Append(@, d)]
      /\ pipe' = [pipe EXCEPT ![d].used = TRUE]
      /\ \/ ticks' = Append(ticks, For("onend", d)) /\ on' = on
         \/ ticks' = ticks /\ on' = [on EXCEPT !.end = Append(@, d)]
      /\ UNCHANGED <<source, client, pushed, delivered, emitted>>
  BY DEF Pipe, Pipes, Set, Then, Runs, Later, log
<1>2. d \in Dest /\ ~pipe[d].used
  BY <1>1, Topmost DEF Fits, OfDest, View
<1> HIDE DEF d
<1>3. TicksMore
  <2>1. "onend" \in Pieces /\ d \in Dest \cup {"user"}
    BY <1>2 DEF Pieces
  <2>2. For("onend", d) \in Frame /\ For("onend", d).fn = "onend" /\ For("onend", d).who = d
    BY <2>1, FrameFor
  <2>3. TickFits(For("onend", d), FALSE) /\ ~Closes(For("onend", d))
    BY <1>2, <2>2 DEF TickFits, Closes, InTicks
  <2> QED
    BY <1>1, <2>3 DEF TicksMore
<1>4. r'.pipes = Append(r.pipes, d) /\ r.pipes \in Seq(Dest)
  BY <1>1 DEF Inv, Fields
<1>5. /\ r'.pipes \in Seq(Dest) /\ Len(r'.pipes) = Len(r.pipes) + 1 /\ Len(r.pipes) \in Nat
      /\ \A i \in DOMAIN r'.pipes : r'.pipes[i] = d \/ \E j \in DOMAIN r.pipes : r'.pipes[i] = r.pipes[j]
      /\ IsInjective(r.pipes) /\ (\A i \in DOMAIN r.pipes : r.pipes[i] # d) => IsInjective(r'.pipes)
  <2> DEFINE t == r'.pipes
  <2>1. t = Append(r.pipes, d)
    BY <1>4
  <2> HIDE DEF t
  <2>2. t \in Seq(Dest) /\ Len(t) = Len(r.pipes) + 1 /\ Len(r.pipes) \in Nat
    BY <1>2, <1>4, <2>1, Added
  <2>3. \A i \in DOMAIN t : t[i] = d \/ \E j \in DOMAIN r.pipes : t[i] = r.pipes[j]
    BY <1>2, <1>4, <2>1, Added
  <2>4. IsInjective(r.pipes) /\ (\A i \in DOMAIN r.pipes : r.pipes[i] # d) => IsInjective(t)
    BY <1>2, <1>4, <2>1, AddedInjective
  <2> QED
    BY <2>2, <2>3, <2>4 DEF t
<1>6. Quiet /\ Fields'
  BY <1>1, <1>5 DEF Quiet, Inv, Fields
<1>7. Heard'
  <2>1. Append(on.end, d) \in Seq(Dest)
    BY <1>2, Added DEF Inv, Heard
  <2> QED
    BY <1>1, <2>1 DEF Inv, Heard
<1>8. PipesFit'
  <2>1. DOMAIN pipe' = Dest /\ \A e \in Dest : {"used", "cleanedUp", "ondrain", "hears"} \subseteq DOMAIN pipe'[e]
    BY <1>1, <1>2 DEF Inv, PipesFit
  <2>2. pipe'[d].used /\ \A e \in Dest : pipe[e].used => pipe'[e].used
    BY <1>1, <1>2 DEF Inv, PipesFit
  <2>3. ASSUME NEW i \in DOMAIN r'.pipes PROVE pipe'[r'.pipes[i]].used
    <3>1. \A j \in DOMAIN r.pipes : r.pipes[j] \in Dest /\ pipe[r.pipes[j]].used
      BY <1>4, LenProperties, ElementOfSeq DEF Inv, PipesFit
    <3> QED
      BY <1>5, <2>2, <3>1
  <2>4. \A i \in DOMAIN r.pipes : r.pipes[i] # d
    BY <1>2 DEF Inv, PipesFit
  <2>5. IsInjective(r'.pipes)
    BY <1>5, <2>4 DEF Inv, PipesFit
  <2>6. r'.awaiting = r.awaiting /\ (r.multi \/ Len(r.pipes) = 1 => r'.multi)
    BY <1>1 DEF Inv, Fields
  <2>7. Len(r'.pipes) > 1 => r'.multi
    <3>1. Len(r.pipes) > 1 => r.multi
      BY DEF Inv, PipesFit
    <3>2. \A n \in Nat : n + 1 > 1 => n > 1 \/ n = 1
      OBVIOUS
    <3>3. Len(r.pipes) + 1 > 1 => Len(r.pipes) > 1 \/ Len(r.pipes) = 1
      BY <1>5, <3>2
    <3> QED
      BY <1>5, <2>6, <3>1, <3>3
  <2> QED
    BY <2>1, <2>3, <2>5, <2>6, <2>7 DEF Inv, PipesFit
<1>9. AllFree(<<For("on data", d), For("piped", d)>>)
  BY <1>2, Short, Frees DEF OfDest
<1> QED
  BY <1>1, <1>3, <1>6, <1>7, <1>8, <1>9, FreeStep DEF Quick

LEMMA PausePipeStep == ASSUME Inv, PausePipe PROVE Inv'
<1> USE DEF PausePipe, Becomes, Set, Then, World, log, Runs
<1> DEFINE d == Top.who
<1>1. d \in Dest
  BY Topmost DEF Fits, OfDest
<1>2. Quiet /\ Fields' /\ TicksMore
  BY DEF Quiet, Inv, Fields, TicksMore
<1>3. Heard' /\ r'.pipes = r.pipes
  BY DEF Inv, Heard, Fields
<1>4. PipesFit'
  <2>1. DOMAIN pipe' = Dest /\ \A e \in Dest : {"used", "cleanedUp", "ondrain", "hears"} \subseteq DOMAIN pipe'[e]
    BY <1>1 DEF Inv, PipesFit
  <2>2. \A e \in Dest : pipe[e].used => pipe'[e].used
    BY <1>1 DEF Inv, PipesFit
  <2>3. /\ IsInjective(r'.pipes) /\ \A i \in DOMAIN r'.pipes : pipe'[r'.pipes[i]].used
    BY <1>3, <2>2 DEF Inv, PipesFit, Fields
  <2>4. CASE r' = r
    BY <2>1, <2>3, <2>4 DEF Inv, PipesFit
  <2>5. CASE r.pipes = <<d>> /\ r' = [r EXCEPT !.awaiting = {d}, !.multi = FALSE]
    <3>1. Len(r'.pipes) = 1 /\ r'.awaiting = {d}
      BY <1>3, <2>5 DEF Inv, Fields
    <3>2. r'.awaiting \subseteq Dest /\ (\E e \in Dest : r'.awaiting = {e}) /\ ~(Len(r'.pipes) > 1)
      BY <1>1, <3>1
    <3> QED
      BY <2>1, <2>3, <3>2 DEF PipesFit
  <2>6. CASE Len(r.pipes) > 1 /\ r' = [r EXCEPT !.awaiting = @ \cup {d}]
    <3>1. r'.multi /\ r'.awaiting = r.awaiting \cup {d}
      BY <2>6 DEF Inv, Fields, PipesFit
    <3> QED
      BY <1>1, <2>1, <2>3, <3>1 DEF Inv, PipesFit
  <2> QED
    BY <2>4, <2>5, <2>6
<1>5. \E c : AllFree(c) /\ stack' = c \o Tail(stack)
  BY Short, Frees DEF Calm
<1> QED
  BY <1>2, <1>3, <1>4, <1>5, FreeStep DEF Quick

LEMMA OndataSteps == ASSUME Inv, OndataRefused \/ OndataTaken PROVE Inv'
<1> USE DEF OndataRefused, OndataTaken, Becomes, Set, Then, World, log, Runs
<1>1. Flags /\ stack # <<>> /\ Top.fn = "ondata"
  BY DEF Flags, Quiet, Inv, Fields, TicksMore
<1>2. Top.who \in Dest
  BY <1>1, Topmost DEF Fits, OfDest
<1>3. \E c : AllFree(c) /\ stack' = c \o Tail(stack)
  <2>1. AllFree(<<>>) /\ AllFree(<<For("pausePipe", Top.who)>>)
    BY <1>2, Short, Frees DEF OfDest
  <2> QED
    BY <2>1
<1> QED
  BY <1>1, <1>3, FlagStep DEF Quick

LEMMA PipeOnDrainStep == ASSUME Inv, PipeOnDrain PROVE Inv'
<1> DEFINE left == r.awaiting \ {Top.who}
<1>1. /\ stack # <<>> /\ Top.fn = "ondrain" /\ UNCHANGED <<ticks, on, pipe, source, client, log>>
      /\ \E g \in BOOLEAN :
            /\ r' = [r EXCEPT !.awaiting = left, !.flowing = IF g THEN "true" ELSE @]
            /\ stack' = (IF g THEN <<Do("flow")>> ELSE <<>>) \o Tail(stack)
  BY DEF PipeOnDrain, Becomes, Set, Then, World, Runs
<1>2. Quiet /\ Fields' /\ TicksMore /\ Heard'
  BY <1>1 DEF Quiet, Inv, Fields, TicksMore, Heard, log
<1>3. PipesFit'
  <2>1. /\ r'.awaiting = left /\ r'.pipes = r.pipes /\ (r.multi => r'.multi) /\ pipe' = pipe
    BY <1>1 DEF Inv, Fields
  <2>2. left \subseteq Dest /\ (r.multi \/ left = {} \/ \E d \in Dest : left = {d})
    <3>1. \A d : r.awaiting = {d} => left = {} \/ left = {d}
      OBVIOUS
    <3> QED
      BY <3>1 DEF Inv, PipesFit
  <2> QED
    BY <2>1, <2>2 DEF Inv, PipesFit
<1>4. \E c : AllFree(c) /\ stack' = c \o Tail(stack)
  BY <1>1, Short, Frees DEF Calm
<1> QED
  BY <1>1, <1>2, <1>3, <1>4, FreeStep DEF Quick

LEMMA UnpipeStep == ASSUME Inv, Unpipe PROVE Inv'
<1> DEFINE d    == Top.who
           left == RemoveFirst(r.pipes, d)
<1>1. /\ stack # <<>> /\ Top.fn = "unpipe" /\ UNCHANGED <<ticks, World>>
      /\ \/ r' = r /\ stack' = <<>> \o Tail(stack)
         \/ /\ r' = [r EXCEPT !.pipes = left]
            /\ stack' = ((IF left = <<>> THEN <<Do("pause")>> ELSE <<>>) \o <<For("cleanup", d)>>) \o Tail(stack)
  BY DEF Unpipe, Becomes, Set, Then, Runs
<1>2. d \in Dest
  BY <1>1, Topmost DEF Fits, OfDest
<1> HIDE DEF d
<1>3. /\ left \in Seq(Dest) /\ Len(left) <= Len(r.pipes)
      /\ \E k \in Nat : \A i \in DOMAIN left : \/ i < k /\ i \in DOMAIN r.pipes /\ left[i] = r.pipes[i]
                                               \/ i >= k /\ i + 1 \in DOMAIN r.pipes /\ left[i] = r.pipes[i + 1]
  <2>1. r.pipes \in Seq(Dest)
    BY DEF Inv, Fields
  <2>2. left \in Seq(Dest) /\ Len(left) <= Len(r.pipes)
    BY <2>1, Without
  <2>3. \E k \in Nat : \A i \in DOMAIN left :
           \/ i < k /\ i \in DOMAIN r.pipes /\ left[i] = r.pipes[i]
           \/ i >= k /\ i + 1 \in DOMAIN r.pipes /\ left[i] = r.pipes[i + 1]
    BY <2>1, Without
  <2> QED
    BY <2>2, <2>3
<1> HIDE DEF left
<1>4. Quiet /\ Fields' /\ TicksMore /\ Heard'
  BY <1>1, <1>3 DEF Quiet, Inv, Fields, TicksMore, Heard, World, log
<1>5. PipesFit'
  <2>1. CASE r' = r
    BY <1>1, <2>1 DEF Inv, PipesFit, World
  <2>2. CASE r' = [r EXCEPT !.pipes = left]
    <3>1. r'.pipes = left /\ r'.awaiting = r.awaiting /\ r'.multi = r.multi /\ pipe' = pipe
      BY <1>1, <2>2 DEF Inv, Fields, World
    <3>2. Len(left) \in Nat /\ DOMAIN left = 1 .. Len(left) /\ Len(r.pipes) \in Nat
      BY <1>3, LenProperties DEF Inv, Fields
    <3>3. IsInjective(left)
      <4>1. PICK k \in Nat : \A i \in DOMAIN left :
               \/ i < k /\ i \in DOMAIN r.pipes /\ left[i] = r.pipes[i]
               \/ i >= k /\ i + 1 \in DOMAIN r.pipes /\ left[i] = r.pipes[i + 1]
        BY <1>3
      <4>2. ASSUME NEW i \in DOMAIN left, NEW j \in DOMAIN left, left[i] = left[j] PROVE i = j
        <5>1. i \in Nat /\ j \in Nat
          BY <3>2
        <5>2. \A a, b \in DOMAIN r.pipes : r.pipes[a] = r.pipes[b] => a = b
          BY DEF Inv, PipesFit, IsInjective
        <5> QED
          BY <4>1, <4>2, <5>1, <5>2
      <4> QED
        BY <4>2 DEF IsInjective
    <3>4. \A i \in DOMAIN left : pipe[left[i]].used
      BY <1>3 DEF Inv, PipesFit
    <3>5. Len(left) > 1 => r.multi
      BY <1>3, <3>2 DEF Inv, PipesFit
    <3> QED
      BY <3>1, <3>3, <3>4, <3>5 DEF Inv, PipesFit
  <2> QED
    BY <1>1, <2>1, <2>2
<1>6. \E c : AllFree(c) /\ stack' = c \o Tail(stack)
  <2>1. Free(Do("pause")) /\ Free(For("cleanup", d))
    BY <1>2, Frees DEF Calm, OfDest
  <2>2. AllFree(<<>>) /\ AllFree(<<Do("pause")>>) /\ AllFree(<<For("cleanup", d)>>)
    BY <2>1, Short
  <2>3. AllFree((IF left = <<>> THEN <<Do("pause")>> ELSE <<>>) \o <<For("cleanup", d)>>)
    BY <2>2, FreeConcat
  <2> QED
    BY <1>1, <2>2, <2>3
<1> QED
  BY <1>1, <1>4, <1>5, <1>6, FreeStep DEF Quick

LEMMA UnpipeAllStep == ASSUME Inv, UnpipeAll PROVE Inv'
<1> DEFINE each == [i \in DOMAIN r.pipes |-> For("cleanup", r.pipes[i])]
<1>1. /\ stack # <<>> /\ Top.fn = "unpipe all" /\ UNCHANGED <<ticks, World>>
      /\ \/ r' = r /\ stack' = <<>> \o Tail(stack)
         \/ r' = [r EXCEPT !.pipes = <<>>] /\ stack' = (<<Do("pause")>> \o each) \o Tail(stack)
  BY DEF UnpipeAll, Becomes, Set, Then, Runs
<1>2. Quiet /\ Fields' /\ TicksMore /\ Heard'
  BY <1>1, EmptySeq DEF Quiet, Inv, Fields, TicksMore, Heard, World, log
<1>3. PipesFit'
  <2>1. CASE r' = r
    BY <1>1, <2>1 DEF Inv, PipesFit, World
  <2>2. CASE r' = [r EXCEPT !.pipes = <<>>]
    <3>1. r'.pipes = <<>> /\ r'.awaiting = r.awaiting /\ r'.multi = r.multi /\ pipe' = pipe
      BY <1>1, <2>2 DEF Inv, Fields, World
    <3>2. Len(<<>>) = 0 /\ DOMAIN <<>> = {} /\ IsInjective(<<>>)
      BY DEF IsInjective
    <3> QED
      BY <3>1, <3>2 DEF Inv, PipesFit
  <2> QED
    BY <1>1, <2>1, <2>2
<1>4. AllFree(each)
  <2>1. /\ Len(r.pipes) \in Nat /\ DOMAIN r.pipes = 1 .. Len(r.pipes)
        /\ \A i \in 1 .. Len(r.pipes) : r.pipes[i] \in Dest
    BY LenProperties, ElementOfSeq DEF Inv, Fields
  <2>2. \A i \in DOMAIN r.pipes : Free(For("cleanup", r.pipes[i]))
    BY <2>1, Frees DEF OfDest
  <2>3. each \in Seq(Frame)
    <3>1. each \in [1 .. Len(r.pipes) -> Frame]
      BY <2>1, <2>2 DEF Free
    <3> HIDE DEF each
    <3> QED
      BY <2>1, <3>1, Mapped
  <2> QED
    BY <2>2, <2>3 DEF AllFree
<1> HIDE DEF each
<1>5. \E c : AllFree(c) /\ stack' = c \o Tail(stack)
  <2>1. AllFree(<<>>) /\ AllFree(<<Do("pause")>> \o each)
    BY <1>4, Short, Frees, FreeConcat DEF Calm
  <2> QED
    BY <1>1, <2>1
<1> QED
  BY <1>1, <1>2, <1>3, <1>5, FreeStep DEF Quick

LEMMA CleanupStep == ASSUME Inv, Cleanup PROVE Inv'
<1> DEFINE d == Top.who
<1>1. /\ stack # <<>> /\ Top.fn = "cleanup" /\ UNCHANGED <<r, ticks, dest, source, client, log>>
      /\ on' = [on EXCEPT !.data = RemoveFirst(@, d), !.end = RemoveFirst(@, d)]
      /\ pipe' = [pipe EXCEPT ![d].hears = FALSE, ![d].cleanedUp = TRUE]
      /\ \/ stack' = <<For("ondrain", d)>> \o Tail(stack)
         \/ stack' = <<>> \o Tail(stack)
  BY DEF Cleanup, CleansUp, Then, Runs
<1>2. d \in Dest
  BY <1>1, Topmost DEF Fits, OfDest
<1> HIDE DEF d
<1>3. Quiet /\ Fields' /\ TicksMore
  BY <1>1 DEF Quiet, Inv, Fields, TicksMore, log
<1>4. Heard'
  <2>1. RemoveFirst(on.data, d) \in Seq(Dest \cup {"user"}) /\ RemoveFirst(on.end, d) \in Seq(Dest)
    BY Without DEF Inv, Heard
  <2> QED
    BY <1>1, <2>1 DEF Inv, Heard
<1>5. PipesFit'
  <2>1. /\ DOMAIN pipe' = Dest
        /\ \A e \in Dest : /\ {"used", "cleanedUp", "ondrain", "hears"} \subseteq DOMAIN pipe'[e]
                           /\ pipe[e].used => pipe'[e].used
    BY <1>1, <1>2 DEF Inv, PipesFit
  <2>2. \A i \in DOMAIN r.pipes : r.pipes[i] \in Dest
    BY LenProperties, ElementOfSeq DEF Inv, Fields
  <2> QED
    BY <1>1, <2>1, <2>2 DEF Inv, PipesFit
<1>6. \E c : AllFree(c) /\ stack' = c \o Tail(stack)
  <2>1. AllFree(<<>>) /\ AllFree(<<For("ondrain", d)>>)
    BY <1>2, Short, Frees DEF OfDest
  <2> QED
    BY <1>1, <2>1
<1> QED
  BY <1>1, <1>3, <1>4, <1>5, <1>6, FreeStep DEF Quick

LEMMA OnendStep == ASSUME Inv, Onend PROVE Inv'
<1>1. stack # <<>> /\ Top.fn = "onend" /\ stack' = <<>> \o Tail(stack) /\ Flags
  BY DEF Onend, Then, Runs, log, Flags, Quiet, Inv, Fields, TicksMore
<1> QED
  BY <1>1, Short, FlagStep DEF Quick

-----------------------------------------------------------------------------
(* The events.                                                              *)

Events == {"end", "error", "close"}
Ordered(s) == \A i, j \in DOMAIN s : i < j => s[i] # "close" /\ s[i] # s[j] /\ s[j] # "end"

LEMMA OneMore ==
    ASSUME NEW s \in Seq(Events), NEW e \in Events, NEW t, t = Append(s, e),
           Ordered(s), e \notin Range(s), "close" \notin Range(s), e # "end" \/ s = <<>>
    PROVE  t \in Seq(Events) /\ Ordered(t) /\ Range(t) = Range(s) \cup {e}
<1>1. /\ t \in Seq(Events) /\ Len(s) \in Nat
      /\ DOMAIN s = 1 .. Len(s) /\ DOMAIN t = 1 .. Len(s) + 1
  BY Added
<1>2. /\ \A i \in 1 .. Len(s) : t[i] = s[i]
      /\ t[Len(s) + 1] = e
  BY Added
<1>3. ASSUME NEW i \in DOMAIN t, NEW j \in DOMAIN t, i < j
      PROVE  t[i] # "close" /\ t[i] # t[j] /\ t[j] # "end"
  <2>1. i \in DOMAIN s /\ t[i] = s[i] /\ s[i] \in Range(s)
    BY <1>1, <1>2, <1>3 DEF Range
  <2>2. CASE j \in DOMAIN s
    BY <1>1, <1>2, <1>3, <2>1, <2>2 DEF Ordered
  <2>3. CASE j = Len(s) + 1
    <3>1. s # <<>>
      BY <2>1
    <3> QED
      BY <1>2, <2>1, <2>3, <3>1
  <2> QED
    BY <1>1, <2>2, <2>3
<1>4. Ordered(t)
  BY <1>3 DEF Ordered
<1>5. Range(t) = Range(s) \cup {e}
  <2>1. \A i \in DOMAIN t : t[i] \in Range(s) \cup {e}
    BY <1>1, <1>2 DEF Range
  <2>2. \A i \in DOMAIN s : i \in DOMAIN t /\ t[i] = s[i]
    BY <1>1, <1>2
  <2>3. Len(s) + 1 \in DOMAIN t
    BY <1>1
  <2> QED
    BY <1>2, <2>1, <2>2, <2>3 DEF Range
<1> QED
  BY <1>1, <1>4, <1>5

LEMMA OrderedIs == EventsInOrder <=> Ordered(emitted)
  BY DEF EventsInOrder, Ordered

LEMMA DestroyStep == ASSUME Inv, Destroy PROVE Inv'
<1>1. stack # <<>> /\ Top.fn = "destroy" /\ stack' = <<>> \o Tail(stack) /\ UNCHANGED World
  BY DEF Destroy, Then, Runs
<1>2. CASE r' = r /\ ticks' = ticks
  <2>1. Flags
    BY <1>1, <1>2 DEF World, log, Flags, Quiet, Inv, Fields, TicksMore
  <2> QED
    BY <1>1, <2>1, Short, FlagStep
<1>3. CASE ~(r' = r /\ ticks' = ticks)
  <2> DEFINE e == [Do("emitCloseNT") EXCEPT !.n = Top.n]
  <2>1. ~r.destroyed /\ ticks' = Append(ticks, e)
        /\ r' = [r EXCEPT !.destroyed = TRUE, !.errored = @ \/ Top.n = 1]
    BY <1>3 DEF Destroy, Set, Later
  <2>2. /\ r'.buffer = r.buffer /\ r'.ended = r.ended /\ r'.endEmitted = r.endEmitted
        /\ r'.reading = r.reading /\ r'.sync = r.sync /\ r'.destroyed
        /\ r'.errorEmitted = r.errorEmitted /\ r'.closeEmitted = r.closeEmitted
        /\ r'.pipes = r.pipes /\ r'.awaiting = r.awaiting /\ r'.multi = r.multi
    BY <2>1 DEF Inv, Fields
  <2>3. UNCHANGED <<on, pipe, source, client, pushed, delivered, emitted>>
    BY <1>1 DEF World, log
  <2>4. Fields'
    BY <2>1 DEF Inv, Fields
  <2>5. Heard' /\ Others' /\ PipesFit' /\ EndFits'
    BY <2>2, <2>3 DEF Inv, Heard, Others, PipesFit, EndFits, EventsInOrder
  <2>6. e \in Frame /\ e.fn = "emitCloseNT"
    <3>1. Top \in Frame
      BY <1>1, Topmost
    <3>2. Top.n \in -1 .. 1 /\ "emitCloseNT" \in Pieces
      BY <3>1 DEF Frame, Pieces
    <3>3. Do("emitCloseNT") \in Frame
      BY <3>2, Frames
    <3> QED
      BY <3>2, <3>3, FrameKept DEF Do
  <2> HIDE DEF e
  <2>7. /\ ticks \in Seq(Frame) /\ \A i \in DOMAIN ticks : TickFits(ticks[i], r.ended) /\ ~Closes(ticks[i])
    BY <2>1 DEF Inv, TicksFit, Closing, ClosesOnce
  <2>8. /\ ticks' \in Seq(Frame) /\ Len(ticks) \in Nat
        /\ DOMAIN ticks = 1 .. Len(ticks) /\ DOMAIN ticks' = 1 .. Len(ticks) + 1
    BY <2>1, <2>6, <2>7, Added
  <2>9. /\ ticks'[Len(ticks) + 1] = e /\ \A i \in 1 .. Len(ticks) : ticks'[i] = ticks[i]
    BY <2>1, <2>6, <2>7, Added
  <2>10. ASSUME NEW i \in DOMAIN ticks'
         PROVE  (i \in DOMAIN ticks /\ ticks'[i] = ticks[i]) \/ (i = Len(ticks) + 1 /\ ticks'[i] = e)
    BY <2>8, <2>9
  <2>11. TickFits(e, r.ended)
    BY <2>6 DEF TickFits, InTicks, OfDest
  <2>12. TicksFit(ticks', r'.ended)
    BY <2>2, <2>7, <2>8, <2>10, <2>11 DEF TicksFit, TickFits
  <2>13. ClosesOnce'
    <3>1. ~r.closeEmitted
      BY <2>1 DEF Inv, Closing, ClosesOnce
    <3> QED
      BY <2>2, <2>7, <2>10, <3>1 DEF ClosesOnce
  <2>14. Stacked(<<>>, View') /\ Ahead(<<>>) = <<>> /\ Behind(<<>>) = <<>>
    BY Short, FreeStacked
  <2>15. Onward /\ ReadWaits(<<>>) /\ Unasked' = Unasked
    <3>1. DOMAIN <<>> = {} /\ Len(r.buffer) \in Nat
      BY LenProperties DEF Inv, Fields
    <3> QED
      BY <2>2, <2>3, <3>1 DEF Onward, ReadWaits, Unasked
  <2>16. delivered' \o <<>> \o r'.buffer \o <<>> = pushed'
    <3>1. delivered \o r.buffer = pushed
      BY <1>1, NothingOnItsWay
    <3>2. delivered \o <<>> \o r.buffer \o <<>> = pushed
      BY <3>1, LedgerOf DEF Inv, Fields, Others
    <3> QED
      BY <2>2, <2>3, <3>2
  <2>17. /\ r'.ended => source'.eof
         /\ Unasked \/ ~source'.asked \/ r'.reading \/ r'.ended
         /\ source'.eof => r'.ended \/ HasEnd(<<>>) \/ (source.eof /\ ~IsEnd(Top))
    BY <1>1, <2>2, <2>3 DEF Inv, SourceFits, IsEnd
  <2> QED
    BY <1>1, <2>4, <2>5, <2>12, <2>13, <2>14, <2>15, <2>16, <2>17, Step
<1> QED
  BY <1>2, <1>3

LEMMA EmitCloseStep == ASSUME Inv, EmitClose PROVE Inv'
<1> DEFINE error == Top.n = 1 /\ ~r.errorEmitted
<1>1. /\ stack # <<>> /\ Top.fn = "emitCloseNT" /\ stack' = <<>> \o Tail(stack)
      /\ UNCHANGED <<ticks, on, pipe, source, client, pushed, delivered>>
      /\ r' = [r EXCEPT !.errorEmitted = @ \/ error, !.closeEmitted = TRUE]
      /\ emitted' = emitted \o (IF error THEN <<"error", "close">> ELSE <<"close">>)
  BY DEF EmitClose, Then, Runs, Set
<1>2. /\ r'.buffer = r.buffer /\ r'.ended = r.ended /\ r'.endEmitted = r.endEmitted
      /\ r'.reading = r.reading /\ r'.sync = r.sync /\ r'.destroyed = r.destroyed
      /\ (r.errorEmitted => r'.errorEmitted) /\ (error => r'.errorEmitted) /\ r'.closeEmitted
      /\ r'.pipes = r.pipes /\ r'.awaiting = r.awaiting /\ r'.multi = r.multi
  BY <1>1 DEF Inv, Fields
<1>3. Fields'
  BY <1>1 DEF Inv, Fields
<1>4. r.destroyed /\ ~r.closeEmitted /\ \A j \in DOMAIN ticks : ~Closes(ticks[j])
  BY <1>1, Topmost DEF Inv, Closing, ClosesNow, Closes
<1>5. ClosesOnce' /\ TicksFit(ticks', r'.ended)
  BY <1>1, <1>2, <1>4 DEF Inv, ClosesOnce, TicksFit
<1>6. Heard' /\ PipesFit'
  BY <1>1, <1>2 DEF Inv, Heard, PipesFit
<1>7. /\ emitted' \in Seq(Events) /\ Ordered(emitted')
      /\ \/ Range(emitted') = Range(emitted) \cup {"close"}
         \/ error /\ Range(emitted') = Range(emitted) \cup {"error", "close"}
  <2>1. emitted \in Seq(Events) /\ Ordered(emitted) /\ "close" \notin Range(emitted)
    BY <1>4, OrderedIs DEF Inv, Others, EndFits, Events
  <2>2. CASE error
    <3> DEFINE s == Append(emitted, "error")
    <3>1. "error" \notin Range(emitted)
      BY <2>2 DEF Inv, EndFits
    <3>2. s \in Seq(Events) /\ Ordered(s) /\ Range(s) = Range(emitted) \cup {"error"}
      BY <2>1, <3>1, OneMore DEF Events
    <3>3. emitted' = Append(s, "close")
      BY <1>1, <2>1, <2>2 DEF Events
    <3> HIDE DEF s
    <3>4. "close" \notin Range(s)
      BY <2>1, <3>2
    <3>5. emitted' \in Seq(Events) /\ Ordered(emitted') /\ Range(emitted') = Range(s) \cup {"close"}
      BY <3>2, <3>3, <3>4, OneMore DEF Events
    <3> QED
      BY <2>2, <3>2, <3>5
  <2>3. CASE ~error
    <3>1. emitted' = Append(emitted, "close")
      BY <1>1, <2>1, <2>3 DEF Events
    <3> QED
      BY <2>1, <3>1, OneMore DEF Events
  <2> QED
    BY <2>2, <2>3
<1> HIDE DEF error
<1>8. Others' /\ EndFits'
  <2>1. EventsInOrder'
    BY <1>7 DEF EventsInOrder, Ordered
  <2> QED
    BY <1>1, <1>2, <1>7, <2>1 DEF Inv, Others, EndFits, Events
<1>9. Stacked(<<>>, View') /\ Ahead(<<>>) = <<>> /\ Behind(<<>>) = <<>>
  BY Short, FreeStacked
<1>10. Onward /\ ReadWaits(<<>>) /\ Unasked' = Unasked
  BY <1>1, <1>2 DEF Onward, ReadWaits, Unasked, Quick
<1>11. delivered' \o <<>> \o r'.buffer \o <<>> = pushed'
  <2>1. delivered \o r.buffer = pushed
    BY <1>1, NothingOnItsWay
  <2>2. delivered \o <<>> \o r.buffer \o <<>> = pushed
    BY <2>1, LedgerOf DEF Inv, Fields, Others
  <2> QED
    BY <1>1, <1>2, <2>2
<1>12. /\ r'.ended => source'.eof
       /\ Unasked \/ ~source'.asked \/ r'.reading \/ r'.ended
       /\ source'.eof => r'.ended \/ HasEnd(<<>>) \/ (source.eof /\ ~IsEnd(Top))
  BY <1>1, <1>2 DEF Inv, SourceFits, IsEnd
<1> QED
  BY <1>1, <1>3, <1>5, <1>6, <1>8, <1>9, <1>10, <1>11, <1>12, Step

-----------------------------------------------------------------------------
(* The end.                                                                 *)

LEMMA TailOfEnd ==
    ASSUME NEW s, NEW v, Stacked(s, v), s # <<>>, s[1].fn = "endReadable"
    PROVE  /\ Tail(s) \in Seq(Frame) /\ Shape(Tail(s), v.r.sync)
           /\ \A i \in DOMAIN Tail(s) : Fits(Tail(s)[i], v) /\ Tail(s)[i].fn \notin TopOnly \cup {"take"}
           /\ \A i \in DOMAIN Tail(s) : ~IsChunk(Tail(s)[i])
           /\ Ahead(Tail(s)) = Ahead(s) /\ Behind(Tail(s)) = Behind(s)
           /\ HasEnd(s) => HasEnd(Tail(s))
<1> DEFINE u == Tail(s)
<1>1. s \in Seq(Frame)
  BY DEF Stacked, Shape
<1>2. u \in Seq(Frame) /\ Len(s) \in Nat \ {0} /\ DOMAIN s = 1 .. Len(s)
  BY <1>1, Below
<1>3. DOMAIN u = 1 .. Len(s) - 1 /\ \A i \in 1 .. Len(s) - 1 : u[i] = s[i + 1]
  BY <1>1, Below
<1> HIDE DEF u
<1>4. ASSUME NEW i \in DOMAIN u
      PROVE  /\ u[i].fn \notin TopOnly \cup {"take"} /\ Fits(u[i], v) /\ ~IsChunk(u[i])
             /\ u[i].fn = "data" => i = 1
  <2> DEFINE k == i + 1
  <2>1. k \in DOMAIN s /\ k # 1 /\ u[i] = s[k] /\ 1 \in 1 .. k - 1 /\ (k = 2 => i = 1)
    BY <1>2, <1>3
  <2> HIDE DEF k
  <2>2. s[k].fn \notin TopOnly /\ (s[k].fn = "data" => k = 2) /\ Fits(s[k], v)
    BY <2>1 DEF Stacked, Shape
  <2>3. s[k].fn # "take" /\ ~IsChunk(s[k])
    BY <2>1 DEF Stacked, Shape, Quick
  <2> QED
    BY <2>1, <2>2, <2>3
<1>5. Shape(u, v.r.sync)
  BY <1>2, <1>4 DEF Shape
<1>6. Len(u) = Len(s) - 1 /\ (u # <<>> <=> Len(u) > 0)
  <2>1. Len(u) \in Nat /\ DOMAIN u = 1 .. Len(u) /\ (Len(u) = 0 <=> u = <<>>)
    BY <1>2, LenProperties, EmptySeq
  <2>2. \A m, n \in Nat : 1 .. m = 1 .. n => m = n
    OBVIOUS
  <2>3. Len(s) - 1 \in Nat
    BY <1>2
  <2>4. Len(u) = Len(s) - 1
    BY <1>3, <2>1, <2>2, <2>3
  <2> QED
    BY <2>1, <2>4
<1>7. Behind(u) = <<>> /\ Behind(s) = <<>>
  <2>1. u # <<>> => u[1].fn # "addChunk"
    BY <1>2, <1>3, <1>4, <1>6 DEF TopOnly
  <2> QED
    BY <2>1 DEF Behind
<1>8. Ahead(u) = Ahead(s)
  <2>1. Len(u) > 1 => u[2].fn # "data"
    BY <1>2, <1>3, <1>4, <1>6
  <2>2. CASE Len(s) > 1
    <3>1. u # <<>> /\ u[1] = s[2] /\ u[1].fn # "addChunk"
      BY <1>2, <1>3, <1>4, <1>6, <2>2 DEF TopOnly
    <3> QED
      BY <2>1, <2>2, <3>1 DEF Ahead
  <2>3. CASE ~(Len(s) > 1)
    <3>1. u = <<>> /\ ~(Len(u) > 1)
      BY <1>2, <1>6, <2>3
    <3> QED
      BY <2>3, <3>1 DEF Ahead
  <2> QED
    BY <2>2, <2>3
<1>9. HasEnd(s) => HasEnd(u)
  <2> SUFFICES ASSUME NEW i \in DOMAIN s, IsEnd(s[i]) PROVE HasEnd(u)
    BY DEF HasEnd
  <2>1. i # 1
    BY DEF IsEnd
  <2>2. i - 1 \in DOMAIN u /\ u[i - 1] = s[i]
    BY <1>2, <1>3, <2>1
  <2> QED
    BY <2>2 DEF HasEnd
<1> QED
  BY <1>2, <1>4, <1>5, <1>7, <1>8, <1>9 DEF u

LEMMA EndReadableStep == ASSUME Inv, EndReadable PROVE Inv'
<1>1. /\ stack # <<>> /\ Top.fn = "endReadable" /\ stack' = <<>> \o Tail(stack)
      /\ UNCHANGED <<on, pipe, source, client, pushed, delivered, emitted>>
      /\ r' = r \/ r' = [r EXCEPT !.ended = TRUE]
      /\ ticks' = ticks \/ (r'.ended /\ ticks' = Append(ticks, Do("endReadableNT")))
  BY DEF EndReadable, Then, Runs, World, log, Set, Later, Inv, Fields
<1>2. Top = stack[1] /\ Stacked(stack, View) /\ View.r = r /\ r.ended /\ Tail(stack) \in Seq(Frame)
  BY <1>1, Topmost DEF Inv, Fits, View
<1>3. stack' = Tail(stack)
  BY <1>1, <1>2, ConcatEmptySeq
<1>4. /\ r'.buffer = r.buffer /\ r'.ended /\ r'.endEmitted = r.endEmitted
      /\ r'.reading = r.reading /\ r'.sync = r.sync /\ r'.destroyed = r.destroyed
      /\ r'.errorEmitted = r.errorEmitted /\ r'.closeEmitted = r.closeEmitted
      /\ r'.pipes = r.pipes /\ r'.awaiting = r.awaiting /\ r'.multi = r.multi
  BY <1>1, <1>2 DEF Inv, Fields
<1>5. Fields' /\ Heard' /\ Others' /\ PipesFit' /\ EndFits'
  <2>1. Fields'
    BY <1>1 DEF Inv, Fields
  <2>2. Heard' /\ Others' /\ PipesFit'
    BY <1>1, <1>4 DEF Inv, Heard, Others, PipesFit
  <2>3. EndFits'
    BY <1>1, <1>4 DEF Inv, EndFits, EventsInOrder
  <2> QED
    BY <2>1, <2>2, <2>3
<1>6. TicksFit(ticks', r'.ended) /\ ClosesOnce'
  <2>1. "endReadableNT" \in Pieces
    BY DEF Pieces
  <2>2. Do("endReadableNT") \in Frame /\ Do("endReadableNT").fn = "endReadableNT"
    BY <2>1, Frames
  <2>3. r'.ended => TickFits(Do("endReadableNT"), r'.ended) /\ ~Closes(Do("endReadableNT"))
    BY <2>2 DEF TickFits, Closes, InTicks, OfDest
  <2>4. TicksMay
    BY <1>1, <2>3 DEF TicksMay
  <2> QED
    BY <1>4, <2>4, TicksStep
<1>7. /\ Shape(stack', r.sync)
      /\ \A i \in DOMAIN stack' : Fits(stack'[i], View) /\ stack'[i].fn \notin TopOnly \cup {"take"}
      /\ \A i \in DOMAIN stack' : ~IsChunk(stack'[i])
      /\ Ahead(stack') = Ahead(stack) /\ Behind(stack') = Behind(stack)
      /\ HasEnd(stack) => HasEnd(stack')
  <2>1. /\ Shape(Tail(stack), View.r.sync)
        /\ \A i \in DOMAIN Tail(stack) :
              Fits(Tail(stack)[i], View) /\ Tail(stack)[i].fn \notin TopOnly \cup {"take"}
        /\ \A i \in DOMAIN Tail(stack) : ~IsChunk(Tail(stack)[i])
    BY <1>1, <1>2, TailOfEnd
  <2>2. /\ Ahead(Tail(stack)) = Ahead(stack) /\ Behind(Tail(stack)) = Behind(stack)
        /\ HasEnd(stack) => HasEnd(Tail(stack))
    BY <1>1, <1>2, TailOfEnd
  <2> QED
    BY <1>2, <1>3, <2>1, <2>2
<1>8. Stacked(stack', View')
  <2>1. ASSUME NEW i \in DOMAIN stack' PROVE Fits(stack'[i], View')
    <3>1. Fits(stack'[i], View) /\ stack'[i].fn \notin TopOnly \cup {"take"} /\ ~IsChunk(stack'[i])
      BY <1>7
    <3> QED
      BY <1>1, <1>2, <1>4, <3>1 DEF Fits, View, Unasked, TopOnly
  <2> QED
    BY <1>4, <1>7, <2>1 DEF Stacked, View
<1>9. Ledger' /\ SourceFits'
  BY <1>1, <1>2, <1>4, <1>7 DEF Inv, Ledger, SourceFits, Unasked
<1>10. Closing'
  <2>1. ~ClosesNow'
    <3>1. stack' \in Seq(Frame) /\ (stack' # <<>> => 1 \in DOMAIN stack')
      BY <1>2, <1>3, LenProperties, EmptySeq
    <3> QED
      BY <1>7, <3>1 DEF ClosesNow, Closes, TopOnly
  <2> QED
    BY <1>6, <2>1 DEF Closing
<1> QED
  BY <1>5, <1>6, <1>8, <1>9, <1>10 DEF Inv

LEMMA EndReadableNTStep == ASSUME Inv, EndReadableNT PROVE Inv'
<1> DEFINE each == [i \in DOMAIN on.end |-> For("onend", on.end[i])]
<1>1. CASE r' = r /\ stack' = <<>> \o Tail(stack) /\ UNCHANGED <<ticks, World>>
  <2>1. stack # <<>> /\ Top.fn = "endReadableNT"
    BY DEF EndReadableNT, EmitsEnd, Runs
  <2>2. Flags
    BY <1>1 DEF Flags, World, log, Quiet, Inv, Fields, TicksMore
  <2> QED
    BY <1>1, <2>1, <2>2, Short, FlagStep DEF Quick
<1>2. CASE ~(r' = r /\ stack' = <<>> \o Tail(stack) /\ UNCHANGED <<ticks, World>>)
  <2> DEFINE c == each \o <<Do("user"), Do("destroy")>>
  <2>1. /\ stack # <<>> /\ Top.fn = "endReadableNT" /\ stack' = c \o Tail(stack)
        /\ ~r.errorEmitted /\ ~r.closeEmitted /\ ~r.endEmitted /\ Len(r.buffer) = 0
        /\ r' = [r EXCEPT !.endEmitted = TRUE] /\ emitted' = Append(emitted, "end")
        /\ UNCHANGED <<ticks, on, pipe, source, client, pushed, delivered>>
    BY <1>2 DEF EndReadableNT, EmitsEnd, Becomes, Then, Runs, Set, Over, Length
  <2>2. AllFree(c)
    <3>1. /\ Len(on.end) \in Nat /\ DOMAIN on.end = 1 .. Len(on.end)
          /\ \A i \in 1 .. Len(on.end) : on.end[i] \in Dest
      BY LenProperties, ElementOfSeq DEF Inv, Heard
    <3>2. \A i \in DOMAIN on.end : Free(For("onend", on.end[i]))
      BY <3>1, Frees DEF OfDest
    <3>3. each \in [1 .. Len(on.end) -> Frame]
      BY <3>1, <3>2 DEF Free
    <3>4. each \in Seq(Frame) /\ \A i \in DOMAIN each : Free(each[i])
      <4>1. \A i \in DOMAIN each : Free(each[i])
        BY <3>2
      <4> HIDE DEF each
      <4> QED
        BY <3>1, <3>3, <4>1, Mapped
    <3> HIDE DEF each
    <3>5. AllFree(each) /\ AllFree(<<Do("user"), Do("destroy")>>)
      BY <3>4, Short, Frees DEF AllFree, Calm
    <3> QED
      BY <3>5, FreeConcat
  <2> HIDE DEF c
  <2>3. /\ r'.buffer = r.buffer /\ r'.ended = r.ended /\ r'.endEmitted
        /\ r'.reading = r.reading /\ r'.sync = r.sync /\ r'.destroyed = r.destroyed
        /\ r'.errorEmitted = r.errorEmitted /\ r'.closeEmitted = r.closeEmitted
        /\ r'.pipes = r.pipes /\ r'.awaiting = r.awaiting /\ r'.multi = r.multi
    BY <2>1 DEF Inv, Fields
  <2>4. r.ended /\ r.buffer = <<>>
    <3>1. r.ended
      BY <2>1, Topmost DEF Fits, View
    <3>2. r.buffer \in Seq(Nat)
      BY DEF Inv, Fields
    <3> QED
      BY <2>1, <3>1, <3>2, EmptySeq
  <2>5. Fields'
    BY <2>1 DEF Inv, Fields
  <2>6. Heard' /\ PipesFit'
    BY <2>1, <2>3 DEF Inv, Heard, PipesFit
  <2>7. emitted = <<>>
    <3>1. emitted \in Seq(Events) /\ \A e \in Events : e \notin Range(emitted)
      BY <2>1 DEF Inv, Others, EndFits, Events
    <3>2. \A i \in DOMAIN emitted : emitted[i] \in Events /\ emitted[i] \in Range(emitted)
      BY <3>1, LenProperties, ElementOfSeq DEF Range
    <3>3. DOMAIN emitted = {}
      BY <3>1, <3>2
    <3> QED
      BY <3>1, <3>3, LenProperties, EmptySeq
  <2>8. emitted' \in Seq(Events) /\ Ordered(emitted') /\ Range(emitted') = {"end"}
    <3>1. <<>> \in Seq(Events) /\ Ordered(<<>>) /\ Range(<<>>) = {}
      BY EmptySeq DEF Ordered, Range
    <3>2. emitted' = Append(<<>>, "end") /\ "end" \in Events
      BY <2>1, <2>7 DEF Events
    <3>3. emitted' \in Seq(Events) /\ Ordered(emitted')
      BY <3>1, <3>2, OneMore
    <3>4. Range(emitted') = Range(<<>>) \cup {"end"}
      BY <3>1, <3>2, OneMore
    <3> QED
      BY <3>1, <3>3, <3>4
  <2>9. Others' /\ EndFits'
    <3>1. EventsInOrder'
      BY <2>8 DEF EventsInOrder, Ordered
    <3> QED
      BY <2>1, <2>3, <2>4, <2>8, <3>1 DEF Inv, Others, EndFits, Events
  <2>10. TicksFit(ticks', r'.ended) /\ ClosesOnce'
    BY <2>1, <2>3, TicksStep DEF TicksMay
  <2>11. /\ Stacked(c, View') /\ Ahead(c) = <<>> /\ Behind(c) = <<>>
         /\ c # <<>> => ~Closes(c[1])
    BY <2>2, FreeStacked
  <2>12. Onward /\ ReadWaits(c) /\ Unasked' = Unasked
    BY <2>1, <2>3 DEF Onward, ReadWaits, Unasked, Quick
  <2>13. delivered' \o <<>> \o r'.buffer \o <<>> = pushed'
    <3>1. delivered \o r.buffer = pushed
      BY <2>1, NothingOnItsWay
    <3>2. delivered \o <<>> \o r.buffer \o <<>> = pushed
      BY <3>1, LedgerOf DEF Inv, Fields, Others
    <3> QED
      BY <2>1, <2>3, <3>2
  <2>14. /\ r'.ended => source'.eof
         /\ Unasked \/ ~source'.asked \/ r'.reading \/ r'.ended
         /\ source'.eof => r'.ended \/ HasEnd(c) \/ (source.eof /\ ~IsEnd(Top))
    BY <2>1, <2>3 DEF Inv, SourceFits, IsEnd
  <2> QED
    BY <2>1, <2>5, <2>6, <2>9, <2>10, <2>11, <2>12, <2>13, <2>14, Step
<1> QED
  BY <1>1, <1>2

-----------------------------------------------------------------------------
(* The chunks.                                                              *)

\* A piece with nothing but free ones under it.
LEMMA OverFree ==
    ASSUME NEW f \in Frame, NEW v, Fits(f, v), NEW u, AllFree(u), NEW c, c = <<f>> \o u
    PROVE  /\ Stacked(c, v) /\ c # <<>>
           /\ Ahead(c) = (IF f.fn = "data" \/ (f.fn = "addChunk" /\ f.called) THEN f.data ELSE <<>>)
           /\ Behind(c) = (IF f.fn = "addChunk" /\ ~f.called THEN f.data ELSE <<>>)
           /\ ~Closes(f) => ~Closes(c[1])
<1> DEFINE one == <<f>>
<1>1. one \in Seq(Frame) /\ DOMAIN one = {1} /\ one[1] = f /\ Len(one) = 1 /\ one # <<>>
  OBVIOUS
<1> HIDE DEF one
<1>2. Stacked(one, v)
  BY <1>1 DEF Stacked, Shape
<1>3. Under(u, FALSE, v.r.sync) /\ \A i \in DOMAIN u : Fits(u[i], v)
  BY FreeFits DEF AllFree, Under, Free, TopOnly, IsChunk
<1>4. c = one \o u
  BY DEF one
<1>5. Stacked(c, v) /\ Ahead(c) = Ahead(one) /\ Behind(c) = Behind(one)
  BY <1>2, <1>3, <1>4, Joined, ZenonT(40)
<1>6. c # <<>> /\ c[1] = f
  <2>1. u \in Seq(Frame)
    BY DEF AllFree
  <2>2. Len(c) = Len(one) + Len(u) /\ Len(u) \in Nat /\ c \in Seq(Frame)
    BY <1>1, <1>4, <2>1, OnTop
  <2>3. \A i \in 1 .. Len(one) : c[i] = one[i]
    BY <1>1, <1>4, <2>1, OnTop
  <2>4. Len(c) # 0
    BY <1>1, <2>2
  <2> QED
    BY <1>1, <2>2, <2>3, <2>4, EmptySeq
<1>7. ~(Len(one) > 1)
  BY <1>1
<1> QED
  BY <1>1, <1>5, <1>6, <1>7 DEF Ahead, Behind

\* Steps that leave the listeners, the pipes, the events and what nextTick has
\* been given alone.
Settled ==
    /\ Fields'
    /\ r'.endEmitted = r.endEmitted /\ r'.destroyed = r.destroyed
    /\ r'.errorEmitted = r.errorEmitted /\ r'.closeEmitted = r.closeEmitted
    /\ r'.pipes = r.pipes /\ r'.multi = r.multi
    /\ r'.awaiting = r.awaiting \/ r'.awaiting = {}
    /\ r'.endEmitted => r'.buffer = <<>>
    /\ {"asked", "count", "eof", "empty"} \subseteq DOMAIN source' /\ source'.count \in Nat
    /\ pushed' \in Seq(Nat) /\ delivered' \in Seq(Nat)
    /\ UNCHANGED <<on, pipe, client, emitted, ticks>>

\* The end of the source, and the question it has been asked.
Source(c) ==
    /\ r'.ended => source'.eof
    /\ Unasked \/ ~source'.asked \/ r'.reading \/ r'.ended
    /\ source'.eof => r'.ended \/ HasEnd(c) \/ (source.eof /\ ~IsEnd(Top))

LEMMA ChunkStep ==
    ASSUME Inv, stack # <<>>, Top.fn # "endReadable",
           NEW c, stack' = c \o Tail(stack), Stacked(c, View'), c # <<>> => ~Closes(c[1]),
           Onward, ReadWaits(c), Settled, Source(c),
           delivered' \o Ahead(c) \o r'.buffer \o Behind(c) = pushed'
    PROVE  Inv'
<1>1. Heard' /\ Others' /\ PipesFit'
  BY DEF Inv, Heard, Others, PipesFit, Settled
<1>2. EndFits'
  BY DEF Inv, EndFits, EventsInOrder, Settled, Onward
<1>3. TicksFit(ticks', r'.ended) /\ ClosesOnce'
  BY TicksStep DEF TicksMay, Settled, Onward
<1> QED
  BY <1>1, <1>2, <1>3, Step DEF Settled, Source

LEMMA EmitDataStep == ASSUME Inv, EmitData PROVE Inv'
<1> DEFINE c == [i \in DOMAIN on.data |->
                    IF on.data[i] = "user" THEN Do("user")
                    ELSE [Top EXCEPT !.fn = "ondata", !.who = on.data[i]]]
<1>1. /\ stack # <<>> /\ Top.fn = "data" /\ stack' = c \o Tail(stack)
      /\ delivered' = delivered \o Top.data
      /\ UNCHANGED <<r, ticks, on, pipe, dest, source, client, pushed, got, emitted>>
  BY DEF EmitData, Then, Runs
<1>2. /\ Top \in Frame /\ ~r.endEmitted /\ Top = stack[1] /\ Stacked(stack, View)
  BY <1>1, Topmost DEF Fits, View, Inv
<1>3. AllFree(c)
  <2>1. /\ Len(on.data) \in Nat /\ DOMAIN on.data = 1 .. Len(on.data)
        /\ \A i \in 1 .. Len(on.data) : on.data[i] \in Dest \cup {"user"}
    BY LenProperties, ElementOfSeq DEF Inv, Heard
  <2>2. ASSUME NEW d \in Dest PROVE Free([Top EXCEPT !.fn = "ondata", !.who = d])
    <3>1. "ondata" \in Pieces /\ d \in Dest \cup {"", "user"}
      BY DEF Pieces
    <3>2. [Top EXCEPT !.fn = "ondata"] \in Frame
      BY <1>2, <3>1, FrameKept
    <3>3. [[Top EXCEPT !.fn = "ondata"] EXCEPT !.who = d] \in Frame
      BY <3>1, <3>2, FrameKept
    <3>4. [Top EXCEPT !.fn = "ondata", !.who = d] \in Frame
      BY <3>3
    <3>5. [Top EXCEPT !.fn = "ondata", !.who = d].fn = "ondata"
          /\ [Top EXCEPT !.fn = "ondata", !.who = d].who = d
      BY <1>2 DEF Frame
    <3> QED
      BY <3>4, <3>5 DEF Free, TopOnly
  <2>3. Free(Do("user"))
    BY Frees DEF Calm
  <2>4. \A i \in DOMAIN c : Free(c[i])
    BY <2>1, <2>2, <2>3
  <2>5. c \in [1 .. Len(on.data) -> Frame]
    BY <2>1, <2>2, <2>3 DEF Free
  <2> HIDE DEF c
  <2> QED
    BY <2>1, <2>4, <2>5, Mapped DEF AllFree
<1> HIDE DEF c
<1>4. /\ Stacked(c, View') /\ Ahead(c) = <<>> /\ Behind(c) = <<>>
      /\ c # <<>> => ~Closes(c[1])
  BY <1>3, FreeStacked
<1>5. Onward /\ ReadWaits(c) /\ Unasked' = Unasked
  BY <1>1 DEF Onward, ReadWaits, Quick, Unasked
<1>6. Top.data \in Seq(Nat) /\ delivered \in Seq(Nat) /\ r.buffer \in Seq(Nat)
  BY <1>2 DEF Frame, Inv, Others, Fields
<1>7. delivered' \in Seq(Nat)
  BY <1>1, <1>6, ConcatProperties
<1>8. Settled
  BY <1>1, <1>2, <1>7 DEF Settled, Inv, Fields, Others
<1>9. Source(c)
  BY <1>1 DEF Source, Inv, SourceFits, IsEnd
<1>10. delivered' \o Ahead(c) \o r'.buffer \o Behind(c) = pushed'
  <2>1. Ahead(stack) = Top.data
    BY <1>1, <1>2, TailIsUnder
  <2>2. Behind(stack) = <<>>
    BY <1>1, <1>2 DEF Behind
  <2>3. delivered' \o r.buffer \o <<>> = pushed
    BY <1>1, <2>1, <2>2 DEF Inv, Ledger
  <2>4. delivered' \o <<>> = delivered'
    BY <1>7, ConcatEmptySeq
  <2> QED
    BY <1>1, <1>4, <2>3, <2>4
<1> QED
  BY <1>1, <1>4, <1>5, <1>8, <1>9, <1>10, ChunkStep

\* The part of Settled that is about the ReadableState, in most steps.
LEMMA SettledOf ==
    ASSUME Inv, Fields', r'.endEmitted = r.endEmitted, r'.destroyed = r.destroyed,
           r'.errorEmitted = r.errorEmitted, r'.closeEmitted = r.closeEmitted,
           r'.pipes = r.pipes, r'.multi = r.multi,
           r'.awaiting = r.awaiting \/ r'.awaiting = {},
           r'.endEmitted => r'.buffer = <<>>,
           UNCHANGED <<on, pipe, client, emitted, ticks, source, pushed, delivered>>
    PROVE  Settled
  BY DEF Settled, Inv, Others

LEMMA PushStep == ASSUME Inv, Push PROVE Inv'
<1> USE DEF Runs
<1>1. /\ stack # <<>> /\ Top.fn = "push" /\ ~Top.called /\ Top \in Frame
      /\ Top.data \in Seq(Nat) /\ delivered \in Seq(Nat) /\ r.buffer \in Seq(Nat)
      /\ UNCHANGED <<ticks, on, pipe, source, client, delivered, emitted>>
  BY Topmost DEF Push, Becomes, World, log, Fits, Frame, Inv, Others, Fields
<1>2. /\ IsEnd(Top) => source.eof
      /\ IsChunk(Top) => Unasked \/ ~source.asked \/ r.ended
      /\ source.eof => r.ended \/ HasEnd(stack)
      /\ r.ended => source.eof
      /\ Unasked \/ ~source.asked \/ r.reading \/ r.ended
  BY <1>1, Topmost DEF Fits, View, Inv, SourceFits
<1>3. \E quiet \in BOOLEAN :
        IF quiet
        THEN \E c : /\ AllFree(c) /\ stack' = c \o Tail(stack) /\ pushed' = pushed
                    /\ r.sync => \A i \in DOMAIN c : c[i].fn \in Quick \ {"_read"}
                    /\ \/ r' = r /\ ~IsEnd(Top)
                       \/ r' = [r EXCEPT !.reading = FALSE] /\ (IsEnd(Top) => r.ended)
                       \/ r' = [r EXCEPT !.reading = FALSE, !.ended = TRUE] /\ IsEnd(Top)
                       \/ /\ r' = [r EXCEPT !.reading = FALSE, !.ended = TRUE,
                                            !.needReadable = FALSE, !.emittedReadable = TRUE]
                          /\ IsEnd(Top)
        ELSE /\ stack' = <<[Top EXCEPT !.fn = "addChunk"]>> \o Tail(stack)
             /\ r' = [r EXCEPT !.reading = FALSE] /\ pushed' = pushed \o Top.data
             /\ ~r.ended /\ IsChunk(Top)
  <2>1. /\ Free(Do("emitReadable")) /\ Free(Do("emitReadable_")) /\ Free(Do("maybeReadMore"))
        /\ Free([Do("destroy") EXCEPT !.n = 1])
    BY Frees DEF Calm
  <2>2. /\ AllFree(<<>>) /\ AllFree(<<Do("emitReadable")>>) /\ AllFree(<<Do("emitReadable_")>>)
        /\ AllFree(<<Do("maybeReadMore")>>) /\ AllFree(<<[Do("destroy") EXCEPT !.n = 1]>>)
    BY <2>1, Short
  <2>3. /\ \A f : f.fn \in Quick \ {"_read"} =>
              \A i \in DOMAIN <<f>> : <<f>>[i].fn \in Quick \ {"_read"}
        /\ \A i \in DOMAIN <<>> : <<>>[i].fn \in Quick \ {"_read"}
    OBVIOUS
  <2>4. /\ Do("emitReadable").fn \in Quick \ {"_read"} /\ Do("maybeReadMore").fn \in Quick \ {"_read"}
        /\ [Do("destroy") EXCEPT !.n = 1].fn \in Quick \ {"_read"}
    BY DEF Do, Quick
  <2>5. CASE Top.data = <<>> /\ r.ended
    <3>1. /\ stack' = <<>> \o Tail(stack) /\ r' = [r EXCEPT !.reading = FALSE] /\ pushed' = pushed
      BY <2>5 DEF Push, Then, Set, World, log
    <3> QED
      BY <2>2, <2>3, <2>5, <3>1
  <2>6. CASE Top.data = <<>> /\ ~r.ended /\ r.sync
    <3>1. /\ stack' = <<Do("emitReadable")>> \o Tail(stack) /\ pushed' = pushed
          /\ r' = [r EXCEPT !.reading = FALSE, !.ended = TRUE] /\ IsEnd(Top)
      BY <1>1, <2>6 DEF Push, Then, Set, World, log, IsEnd
    <3> QED
      BY <2>2, <2>3, <2>4, <3>1
  <2>7. CASE Top.data = <<>> /\ ~r.ended /\ ~r.sync
    <3>1. /\ stack' = <<Do("emitReadable_")>> \o Tail(stack) /\ pushed' = pushed
          /\ r' = [r EXCEPT !.reading = FALSE, !.ended = TRUE,
                            !.needReadable = FALSE, !.emittedReadable = TRUE]
          /\ IsEnd(Top)
      BY <1>1, <2>7 DEF Push, Then, Set, World, log, IsEnd
    <3> QED
      BY <2>2, <2>7, <3>1
  <2>8. CASE Top.data # <<>> /\ Top.data = <<0>>
    <3>1. /\ stack' = <<Do("maybeReadMore")>> \o Tail(stack) /\ pushed' = pushed
          /\ r' = [r EXCEPT !.reading = FALSE] /\ ~IsEnd(Top)
      BY <2>8 DEF Push, Becomes, Then, Set, World, log, IsEnd
    <3> QED
      BY <2>2, <2>3, <2>4, <3>1
  <2>9. CASE Top.data # <<>> /\ Top.data # <<0>> /\ r.ended
    <3>1. /\ stack' = <<[Do("destroy") EXCEPT !.n = 1]>> \o Tail(stack) /\ pushed' = pushed
          /\ r' = r /\ ~IsEnd(Top)
      BY <2>9 DEF Push, Becomes, Then, Set, World, log, IsEnd
    <3> QED
      BY <2>2, <2>3, <2>4, <3>1
  <2>10. CASE Top.data # <<>> /\ Top.data # <<0>> /\ ~r.ended /\ Failed
    <3>1. stack' = <<>> \o Tail(stack) /\ pushed' = pushed /\ r' = r /\ ~IsEnd(Top)
      BY <2>10 DEF Push, Becomes, Then, Set, World, log, IsEnd
    <3> QED
      BY <2>2, <2>3, <3>1
  <2>11. CASE Top.data # <<>> /\ Top.data # <<0>> /\ ~r.ended /\ ~Failed
    <3>1. /\ stack' = <<[Top EXCEPT !.fn = "addChunk"]>> \o Tail(stack)
          /\ r' = [r EXCEPT !.reading = FALSE] /\ pushed' = pushed \o Top.data
          /\ ~r.ended /\ IsChunk(Top)
      BY <1>1, <2>11 DEF Push, Then, Set, IsChunk
    <3> QED
      BY <3>1
  <2> QED
    BY <2>5, <2>6, <2>7, <2>8, <2>9, <2>10, <2>11
<1>4. delivered \o r.buffer = pushed
  BY <1>1, NothingOnItsWay
<1>5. ASSUME NEW c, AllFree(c), stack' = c \o Tail(stack), pushed' = pushed,
             r.sync => \A i \in DOMAIN c : c[i].fn \in Quick \ {"_read"},
             \/ r' = r /\ ~IsEnd(Top)
             \/ r' = [r EXCEPT !.reading = FALSE] /\ (IsEnd(Top) => r.ended)
             \/ r' = [r EXCEPT !.reading = FALSE, !.ended = TRUE] /\ IsEnd(Top)
             \/ /\ r' = [r EXCEPT !.reading = FALSE, !.ended = TRUE,
                                  !.needReadable = FALSE, !.emittedReadable = TRUE]
                /\ IsEnd(Top)
      PROVE  Inv'
  <2>1. /\ r'.buffer = r.buffer /\ r'.endEmitted = r.endEmitted /\ r'.sync = r.sync
        /\ r'.destroyed = r.destroyed /\ r'.errorEmitted = r.errorEmitted
        /\ r'.closeEmitted = r.closeEmitted /\ r'.pipes = r.pipes /\ r'.multi = r.multi
        /\ r'.awaiting = r.awaiting /\ (r.ended => r'.ended)
        /\ r'.ended => r.ended \/ IsEnd(Top)
        /\ IsEnd(Top) => r'.ended
        /\ \/ r'.reading = r.reading /\ r'.ended = r.ended
           \/ IsChunk(Top) \/ r'.ended
    BY <1>1, <1>5 DEF Inv, Fields, IsEnd, IsChunk
  <2>2. Fields'
    BY <1>5 DEF Inv, Fields
  <2>3. Settled
    BY <1>1, <1>5, <2>1, <2>2, SettledOf DEF Inv, EndFits
  <2>4. Onward /\ Unasked' = Unasked
    BY <1>1, <2>1 DEF Onward, Unasked
  <2>5. ReadWaits(c)
    <3>1. Len(r.buffer) \in Nat
      BY <1>1, LenProperties
    <3> QED
      BY <1>1, <1>5, <2>1, <3>1 DEF ReadWaits
  <2>6. Source(c)
    BY <1>1, <1>2, <2>1 DEF Source
  <2>7. /\ Stacked(c, View') /\ Ahead(c) = <<>> /\ Behind(c) = <<>>
        /\ c # <<>> => ~Closes(c[1])
    BY <1>5, FreeStacked
  <2>8. delivered' \o Ahead(c) \o r'.buffer \o Behind(c) = pushed'
    BY <1>1, <1>4, <1>5, <2>1, <2>7, LedgerOf
  <2> QED
    BY <1>1, <1>5, <2>3, <2>4, <2>5, <2>6, <2>7, <2>8, ChunkStep
<1>6. ASSUME stack' = <<[Top EXCEPT !.fn = "addChunk"]>> \o Tail(stack),
             r' = [r EXCEPT !.reading = FALSE], pushed' = pushed \o Top.data,
             ~r.ended, IsChunk(Top)
      PROVE  Inv'
  <2> DEFINE f == [Top EXCEPT !.fn = "addChunk"]
             c == <<f>> \o <<>>
  <2>1. /\ r'.buffer = r.buffer /\ r'.endEmitted = r.endEmitted /\ r'.sync = r.sync
        /\ r'.destroyed = r.destroyed /\ r'.errorEmitted = r.errorEmitted
        /\ r'.closeEmitted = r.closeEmitted /\ r'.pipes = r.pipes /\ r'.multi = r.multi
        /\ r'.awaiting = r.awaiting /\ r'.ended = r.ended /\ Fields'
    BY <1>6 DEF Inv, Fields
  <2>2. f \in Frame /\ f.fn = "addChunk" /\ ~f.called /\ f.data = Top.data
    <3>1. "addChunk" \in Pieces
      BY DEF Pieces
    <3>2. f \in Frame /\ f.fn = "addChunk"
      BY <1>1, <3>1, FrameKept
    <3>3. f.called = Top.called /\ f.data = Top.data
      BY <1>1 DEF Frame
    <3> QED
      BY <1>1, <3>2, <3>3
  <2> HIDE DEF f
  <2>3. /\ stack' = c \o Tail(stack) /\ DOMAIN c = {1} /\ c[1] = f
    BY <1>6 DEF f
  <2> HIDE DEF c
  <2>4. ~r'.endEmitted
    BY <1>6, <2>1 DEF Inv, EndFits
  <2>5. Fits(f, View')
    BY <2>2, <2>4 DEF Fits, View, OfDest, IsEnd, IsChunk
  <2>6. /\ Stacked(c, View') /\ Ahead(c) = <<>> /\ Behind(c) = Top.data
        /\ ~Closes(c[1])
    <3>1. AllFree(<<>>) /\ c = <<f>> \o <<>>
      BY Short DEF c
    <3>2. /\ Stacked(c, View') /\ (~Closes(f) => ~Closes(c[1]))
      BY <2>2, <2>5, <3>1, OverFree
    <3>3. /\ Ahead(c) = (IF f.fn = "data" \/ (f.fn = "addChunk" /\ f.called) THEN f.data ELSE <<>>)
          /\ Behind(c) = (IF f.fn = "addChunk" /\ ~f.called THEN f.data ELSE <<>>)
      BY <2>2, <2>5, <3>1, OverFree
    <3> QED
      BY <2>2, <3>2, <3>3 DEF Closes
  <2>7. pushed' \in Seq(Nat)
    <3>1. pushed \in Seq(Nat)
      BY DEF Inv, Others
    <3> QED
      BY <1>1, <1>6, <3>1, ConcatProperties
  <2>8. Settled
    BY <1>1, <2>1, <2>4, <2>7 DEF Settled, Inv, Others
  <2>9. Onward /\ Unasked' = Unasked
    BY <1>1, <2>1 DEF Onward, Unasked
  <2>10. ReadWaits(c)
    <3>1. Len(r.buffer) \in Nat
      BY <1>1, LenProperties
    <3> QED
      BY <1>1, <2>1, <2>2, <2>3, <3>1 DEF ReadWaits, Quick
  <2>11. Source(c)
    BY <1>1, <1>2, <1>6, <2>1 DEF Source, IsEnd, IsChunk
  <2>12. delivered' \o Ahead(c) \o r'.buffer \o Behind(c) = pushed'
    <3>1. delivered \o <<>> = delivered
      BY <1>1, ConcatEmptySeq
    <3> QED
      BY <1>1, <1>4, <1>6, <2>1, <2>6, <3>1
  <2> QED
    BY <1>1, <2>3, <2>6, <2>8, <2>9, <2>10, <2>11, <2>12, ChunkStep
<1> QED
  BY <1>3, <1>5, <1>6

LEMMA Associative == \A a, b, c \in Seq(Nat) : (a \o b) \o c = a \o (b \o c)
  BY ConcatAssociative, SMTT(30)

\* A chunk put back.
LEMMA LastBack ==
    ASSUME NEW s \in Seq(Nat), s # <<>>
    PROVE  Front(s) \in Seq(Nat) /\ Last(s) \in Nat /\ Front(s) \o <<Last(s)>> = s
<1> DEFINE n == Len(s)
<1>1. n \in Nat \ {0} /\ \A i \in 1 .. n : s[i] \in Nat
  BY LenProperties, ElementOfSeq, EmptySeq
<1>2. SubSeq(s, 1, n) = s
  BY SubSeqFull
<1> HIDE DEF n
<1>3. 1 \in 1 .. n + 1 /\ n - 1 \in 1 - 1 .. n /\ n \in n - 1 .. n /\ (n - 1) + 1 = n
  BY <1>1
<1>4. SubSeq(s, 1, n - 1) \o SubSeq(s, n, n) = s
  <2>1. \A m \in 1 .. n + 1 : \A k \in m - 1 .. n : \A l \in k .. n :
           SubSeq(s, m, k) \o SubSeq(s, k + 1, l) = SubSeq(s, m, l)
    BY ConcatAdjacentSubSeq DEF n
  <2>2. SubSeq(s, 1, n - 1) \o SubSeq(s, (n - 1) + 1, n) = SubSeq(s, 1, n)
    BY <1>3, <2>1
  <2> QED
    BY <1>2, <1>3, <2>2
<1>5. SubSeq(s, n, n) = <<s[n]>>
  <2>1. /\ SubSeq(s, n, n) \in Seq(Nat) /\ Len(SubSeq(s, n, n)) = 1
        /\ SubSeq(s, n, n)[1] = s[n]
    <3>1. n \in Int /\ \A i \in n .. n : s[i] \in Nat
      BY <1>1
    <3>2. /\ SubSeq(s, n, n) \in Seq(Nat)
          /\ Len(SubSeq(s, n, n)) = IF n <= n THEN n - n + 1 ELSE 0
          /\ \A i \in 1 .. n - n + 1 : SubSeq(s, n, n)[i] = s[n + i - 1]
      BY <3>1, SubSeqProperties
    <3>3. n <= n /\ n - n + 1 = 1 /\ n + 1 - 1 = n /\ 1 \in 1 .. n - n + 1
      BY <1>1
    <3> QED
      BY <3>2, <3>3
  <2>2. /\ <<s[n]>> \in Seq(Nat) /\ Len(<<s[n]>>) = 1 /\ <<s[n]>>[1] = s[n]
    BY <1>1
  <2>3. \A i \in 1 .. 1 : SubSeq(s, n, n)[i] = <<s[n]>>[i]
    BY <2>1, <2>2, SMTT(30)
  <2> DEFINE a == SubSeq(s, n, n)
             b == <<s[n]>>
  <2>4. a \in Seq(Nat) /\ b \in Seq(Nat) /\ Len(a) = 1 /\ Len(b) = 1 /\ \A i \in 1 .. 1 : a[i] = b[i]
    BY <2>1, <2>2, <2>3
  <2> HIDE DEF a, b
  <2>5. a = b
    BY <2>4, SeqEqual
  <2> QED
    BY <2>5 DEF a, b
<1>6. SubSeq(s, 1, n - 1) \in Seq(Nat)
  <2>1. 1 \in Int /\ n - 1 \in Int /\ \A i \in 1 .. n - 1 : s[i] \in Nat
    BY <1>1
  <2> QED
    BY <2>1, SubSeqProperties
<1>7. s[n] \in Nat
  BY <1>1
<1> QED
  BY <1>4, <1>5, <1>6, <1>7 DEF Front, Last, n

LEMMA UnshiftStep == ASSUME Inv, Unshift PROVE Inv'
<1>1. /\ stack # <<>> /\ Top.fn = "unshift"
      /\ UNCHANGED <<r, ticks, on, pipe, source, client, pushed, emitted>>
      /\ \/ stack' = <<[Do("destroy") EXCEPT !.n = 1]>> \o Tail(stack) /\ delivered' = delivered
         \/ /\ ~r.endEmitted /\ delivered' = Front(delivered)
            /\ stack' = <<[Top EXCEPT !.fn = "addChunk", !.called = TRUE]>> \o Tail(stack)
  BY DEF Unshift, Becomes, Then, Set, Runs, World, log
<1>2. CASE stack' = <<[Do("destroy") EXCEPT !.n = 1]>> \o Tail(stack) /\ delivered' = delivered
  <2>1. Flags
    BY <1>1, <1>2 DEF Flags, Quiet, Inv, Fields, TicksMore
  <2>2. AllFree(<<[Do("destroy") EXCEPT !.n = 1]>>)
    BY Short, Frees
  <2> QED
    BY <1>1, <1>2, <2>1, <2>2, FlagStep DEF Quick
<1>3. CASE /\ ~r.endEmitted /\ delivered' = Front(delivered)
           /\ stack' = <<[Top EXCEPT !.fn = "addChunk", !.called = TRUE]>> \o Tail(stack)
  <2> DEFINE f == [Top EXCEPT !.fn = "addChunk", !.called = TRUE]
             c == <<f>> \o <<>>
  <2>1. /\ Top \in Frame /\ delivered # <<>> /\ Top.data = <<Last(delivered)>>
        /\ delivered \in Seq(Nat) /\ r.buffer \in Seq(Nat)
    BY <1>1, Topmost DEF Fits, View, Inv, Fields, Others
  <2>2. f \in Frame /\ f.fn = "addChunk" /\ f.called /\ f.data = Top.data
    <3>1. "addChunk" \in Pieces
      BY DEF Pieces
    <3>2. [Top EXCEPT !.fn = "addChunk"] \in Frame
      BY <2>1, <3>1, FrameKept
    <3>3. [[Top EXCEPT !.fn = "addChunk"] EXCEPT !.called = TRUE] \in Frame
      BY <3>2, FrameKept
    <3>4. f = [[Top EXCEPT !.fn = "addChunk"] EXCEPT !.called = TRUE]
      BY <2>1 DEF Frame
    <3>5. f.fn = "addChunk" /\ f.called /\ f.data = Top.data
      BY <2>1 DEF Frame
    <3> QED
      BY <3>3, <3>4, <3>5
  <2> HIDE DEF f
  <2>3. stack' = c \o Tail(stack)
    BY <1>3 DEF f
  <2> HIDE DEF c
  <2>4. Fits(f, View')
    BY <1>1, <1>3, <2>2 DEF Fits, View, OfDest, IsEnd, IsChunk
  <2>5. Stacked(c, View') /\ Ahead(c) = Top.data /\ Behind(c) = <<>> /\ ~Closes(c[1])
    <3>1. AllFree(<<>>) /\ c = <<f>> \o <<>>
      BY Short DEF c
    <3>2. /\ Stacked(c, View') /\ (~Closes(f) => ~Closes(c[1]))
      BY <2>2, <2>4, <3>1, OverFree
    <3>3. /\ Ahead(c) = (IF f.fn = "data" \/ (f.fn = "addChunk" /\ f.called) THEN f.data ELSE <<>>)
          /\ Behind(c) = (IF f.fn = "addChunk" /\ ~f.called THEN f.data ELSE <<>>)
      BY <2>2, <2>4, <3>1, OverFree
    <3> QED
      BY <2>2, <3>2, <3>3 DEF Closes
  <2>6. delivered' \in Seq(Nat) /\ delivered' \o Top.data = delivered
    BY <1>3, <2>1, LastBack
  <2>7. Settled
    BY <1>1, <2>6 DEF Settled, Inv, Fields, Others, EndFits
  <2>8. Onward /\ Unasked' = Unasked /\ ReadWaits(c)
    BY <1>1 DEF Onward, Unasked, ReadWaits, Quick
  <2>9. Source(c)
    BY <1>1 DEF Source, Inv, SourceFits, IsEnd
  <2>10. delivered' \o Ahead(c) \o r'.buffer \o Behind(c) = pushed'
    <3>1. delivered \o r.buffer = pushed
      BY <1>1, NothingOnItsWay
    <3>2. (delivered \o r.buffer) \o <<>> = delivered \o r.buffer
      <4>1. delivered \o r.buffer \in Seq(Nat)
        BY <2>1, ConcatProperties
      <4> QED
        BY <4>1, ConcatEmptySeq
    <3> QED
      BY <1>1, <2>5, <2>6, <3>1, <3>2
  <2> QED
    BY <1>1, <2>3, <2>5, <2>7, <2>8, <2>9, <2>10, ChunkStep
<1> QED
  BY <1>1, <1>2, <1>3

LEMMA AddChunkStep == ASSUME Inv, AddChunk PROVE Inv'
<1> DEFINE grown == IF Top.called THEN Top.data \o r.buffer ELSE r.buffer \o Top.data
           more  == (IF r.needReadable THEN <<Do("emitReadable")>> ELSE <<>>) \o <<Do("maybeReadMore")>>
           f     == [Top EXCEPT !.fn = "data", !.loop = "flow"]
<1>1. /\ stack # <<>> /\ Top.fn = "addChunk"
      /\ UNCHANGED <<ticks, on, pipe, source, client, pushed, delivered, emitted>>
      /\ \/ /\ Len(r.buffer) = 0 /\ ~r.sync /\ r' = [r EXCEPT !.awaiting = {}]
            /\ stack' = <<f, Do("maybeReadMore")>> \o Tail(stack)
         \/ r' = [r EXCEPT !.buffer = grown] /\ stack' = more \o Tail(stack)
  <2>1. Runs("addChunk") /\ UNCHANGED <<ticks, World>>
    BY DEF AddChunk, AddsChunk, Becomes
  <2>2. CASE Flows /\ Length = 0 /\ ~r.sync /\ on.data # <<>>
    BY <2>1, <2>2 DEF AddChunk, AddsChunk, Becomes, Then, Set, Runs, World, log, Length
  <2>3. CASE ~(Flows /\ Length = 0 /\ ~r.sync /\ on.data # <<>>)
    <3>1. Becomes([r EXCEPT !.buffer = grown], more)
      BY <2>3 DEF AddChunk, AddsChunk
    <3> QED
      BY <2>1, <3>1 DEF Becomes, Then, Set, Runs, World, log
  <2> QED
    BY <2>2, <2>3
<1>2. /\ Top \in Frame /\ Top.data \in Seq(Nat) /\ ~r.endEmitted /\ Top = stack[1]
      /\ Stacked(stack, View) /\ delivered \in Seq(Nat) /\ r.buffer \in Seq(Nat)
  BY <1>1, Topmost DEF Fits, View, Frame, Inv, Fields, Others
<1>3. /\ Ahead(stack) = (IF Top.called THEN Top.data ELSE <<>>)
      /\ Behind(stack) = (IF Top.called THEN <<>> ELSE Top.data)
  <2>1. Ahead(stack) = (IF Top.called THEN Top.data ELSE <<>>)
    BY <1>1, <1>2, TailIsUnder
  <2> QED
    BY <1>1, <1>2, <2>1 DEF Behind
<1>4. delivered \o Ahead(stack) \o r.buffer \o Behind(stack) = pushed
  BY DEF Inv, Ledger
<1>5. Free(Do("maybeReadMore")) /\ Free(Do("emitReadable"))
  BY Frees DEF Calm
<1> HIDE DEF f, more, grown
<1>6. CASE /\ Len(r.buffer) = 0 /\ ~r.sync /\ r' = [r EXCEPT !.awaiting = {}]
           /\ stack' = <<f, Do("maybeReadMore")>> \o Tail(stack)
  <2> DEFINE c == <<f>> \o <<Do("maybeReadMore")>>
  <2>1. r.buffer = <<>>
    BY <1>2, <1>6, EmptySeq
  <2>2. /\ r'.buffer = r.buffer /\ r'.endEmitted = r.endEmitted /\ r'.sync = r.sync
        /\ r'.destroyed = r.destroyed /\ r'.errorEmitted = r.errorEmitted
        /\ r'.closeEmitted = r.closeEmitted /\ r'.pipes = r.pipes /\ r'.multi = r.multi
        /\ r'.awaiting = {} /\ r'.ended = r.ended /\ r'.reading = r.reading /\ Fields'
    BY <1>6 DEF Inv, Fields
  <2>3. f \in Frame /\ f.fn = "data" /\ f.data = Top.data
    <3>1. "data" \in Pieces
      BY DEF Pieces
    <3>2. [Top EXCEPT !.fn = "data"] \in Frame
      BY <1>2, <3>1, FrameKept
    <3>3. [[Top EXCEPT !.fn = "data"] EXCEPT !.loop = "flow"] \in Frame
      BY <3>2, FrameKept
    <3>4. f = [[Top EXCEPT !.fn = "data"] EXCEPT !.loop = "flow"]
      BY <1>2 DEF Frame, f
    <3>5. f.fn = "data" /\ f.data = Top.data
      BY <1>2 DEF Frame, f
    <3> QED
      BY <3>3, <3>4, <3>5
  <2>4. stack' = c \o Tail(stack)
    BY <1>6
  <2> HIDE DEF c
  <2>5. Fits(f, View')
    BY <1>2, <2>2, <2>3 DEF Fits, View, OfDest, IsEnd, IsChunk
  <2>6. Stacked(c, View') /\ Ahead(c) = Top.data /\ Behind(c) = <<>> /\ ~Closes(c[1])
    <3>1. AllFree(<<Do("maybeReadMore")>>) /\ c = <<f>> \o <<Do("maybeReadMore")>>
      BY <1>5, Short DEF c
    <3>2. /\ Stacked(c, View') /\ (~Closes(f) => ~Closes(c[1]))
      BY <2>3, <2>5, <3>1, OverFree
    <3>3. /\ Ahead(c) = (IF f.fn = "data" \/ (f.fn = "addChunk" /\ f.called) THEN f.data ELSE <<>>)
          /\ Behind(c) = (IF f.fn = "addChunk" /\ ~f.called THEN f.data ELSE <<>>)
      BY <2>3, <2>5, <3>1, OverFree
    <3> QED
      BY <2>3, <3>2, <3>3 DEF Closes
  <2>7. Settled
    BY <1>1, <1>2, <2>2, SettledOf
  <2>8. Onward /\ Unasked' = Unasked /\ ReadWaits(c)
    BY <1>1, <1>6, <2>2 DEF Onward, Unasked, ReadWaits
  <2>9. Source(c)
    BY <1>1, <2>2 DEF Source, Inv, SourceFits, IsEnd
  <2>10. delivered' \o Ahead(c) \o r'.buffer \o Behind(c) = pushed'
    <3>1. /\ delivered \o Top.data \in Seq(Nat) /\ delivered \o <<>> = delivered
      BY <1>2, ConcatProperties, ConcatEmptySeq
    <3>2. /\ (delivered \o Top.data) \o <<>> = delivered \o Top.data
      BY <3>1, ConcatEmptySeq
    <3>3. delivered \o Top.data = pushed
      BY <1>3, <1>4, <2>1, <3>1, <3>2
    <3> QED
      BY <1>1, <2>1, <2>2, <2>6, <3>2, <3>3
  <2> QED
    BY <1>1, <2>4, <2>6, <2>7, <2>8, <2>9, <2>10, ChunkStep
<1>7. CASE r' = [r EXCEPT !.buffer = grown] /\ stack' = more \o Tail(stack)
  <2>1. grown \in Seq(Nat) /\ Len(r.buffer) \in Nat /\ Len(r.buffer) <= Len(grown)
    <3>1. Len(r.buffer) \in Nat /\ Len(Top.data) \in Nat
      BY <1>2, LenProperties
    <3>2. /\ Top.data \o r.buffer \in Seq(Nat) /\ r.buffer \o Top.data \in Seq(Nat)
          /\ Len(Top.data \o r.buffer) = Len(Top.data) + Len(r.buffer)
          /\ Len(r.buffer \o Top.data) = Len(r.buffer) + Len(Top.data)
      BY <1>2, ConcatProperties
    <3>3. \A m, n \in Nat : m <= m + n /\ m <= n + m
      OBVIOUS
    <3>4. CASE Top.called
      BY <3>1, <3>2, <3>3, <3>4 DEF grown
    <3>5. CASE ~Top.called
      BY <3>1, <3>2, <3>3, <3>5 DEF grown
    <3> QED
      BY <3>4, <3>5
  <2>2. /\ r'.buffer = grown /\ r'.endEmitted = r.endEmitted /\ r'.sync = r.sync
        /\ r'.destroyed = r.destroyed /\ r'.errorEmitted = r.errorEmitted
        /\ r'.closeEmitted = r.closeEmitted /\ r'.pipes = r.pipes /\ r'.multi = r.multi
        /\ r'.awaiting = r.awaiting /\ r'.ended = r.ended /\ r'.reading = r.reading /\ Fields'
    BY <1>7, <2>1 DEF Inv, Fields
  <2>3. AllFree(more) /\ \A i \in DOMAIN more : more[i].fn \in Quick \ {"_read"}
    <3>1. /\ AllFree(<<>>) /\ AllFree(<<Do("emitReadable")>>) /\ AllFree(<<Do("maybeReadMore")>>)
      BY <1>5, Short
    <3>2. AllFree(more)
      BY <3>1, FreeConcat DEF more
    <3> DEFINE T == {f1 \in Frame : f1.fn \in Quick \ {"_read"}}
    <3>3. Do("emitReadable") \in T /\ Do("maybeReadMore") \in T
      BY <1>5 DEF Do, Quick, Free
    <3> HIDE DEF T
    <3>4. <<Do("emitReadable")>> \in Seq(T) /\ <<Do("maybeReadMore")>> \in Seq(T) /\ <<>> \in Seq(T)
      BY <3>3, EmptySeq
    <3>5. more \in Seq(T)
      BY <3>4, ConcatProperties DEF more
    <3>6. \A i \in DOMAIN more : more[i] \in T
      BY <3>5, LenProperties, ElementOfSeq
    <3> QED
      BY <3>2, <3>6 DEF T
  <2>4. /\ Stacked(more, View') /\ Ahead(more) = <<>> /\ Behind(more) = <<>>
        /\ more # <<>> => ~Closes(more[1])
    BY <2>3, FreeStacked
  <2>5. Settled
    BY <1>1, <1>2, <2>2, SettledOf
  <2>6. Onward /\ Unasked' = Unasked /\ ReadWaits(more)
    BY <1>1, <2>1, <2>2, <2>3 DEF Onward, Unasked, ReadWaits
  <2>7. Source(more)
    BY <1>1, <2>2 DEF Source, Inv, SourceFits, IsEnd
  <2>8. delivered' \o Ahead(more) \o r'.buffer \o Behind(more) = pushed'
    <3>1. delivered \o <<>> \o grown \o <<>> = delivered \o grown
      BY <1>2, <2>1, LedgerOf
    <3>2. delivered \o grown = pushed
      <4>1. CASE Top.called
        <5>1. /\ delivered \o Top.data \in Seq(Nat)
          BY <1>2, ConcatProperties
        <5>2. (delivered \o Top.data) \o r.buffer \in Seq(Nat)
          BY <1>2, <5>1, ConcatProperties
        <5>3. ((delivered \o Top.data) \o r.buffer) \o <<>> = (delivered \o Top.data) \o r.buffer
          BY <5>2, ConcatEmptySeq
        <5>4. (delivered \o Top.data) \o r.buffer = delivered \o (Top.data \o r.buffer)
          BY <1>2, Associative
        <5> QED
          BY <1>3, <1>4, <4>1, <5>3, <5>4 DEF grown
      <4>2. CASE ~Top.called
        <5>1. delivered \o <<>> = delivered
          BY <1>2, ConcatEmptySeq
        <5>2. (delivered \o r.buffer) \o Top.data = delivered \o (r.buffer \o Top.data)
          BY <1>2, Associative
        <5> QED
          BY <1>3, <1>4, <4>2, <5>1, <5>2 DEF grown
      <4> QED
        BY <4>1, <4>2
    <3> QED
      BY <1>1, <2>2, <2>4, <3>1, <3>2
  <2> QED
    BY <1>1, <1>7, <2>4, <2>5, <2>6, <2>7, <2>8, ChunkStep
<1> QED
  BY <1>1, <1>6, <1>7

-----------------------------------------------------------------------------
(* read.                                                                    *)

LEMMA HowMuch ==
    ASSUME r.buffer \in Seq(Nat), NEW n \in -1 .. 1
    PROVE  HowMuchToRead(n) \in 0 .. Len(r.buffer) /\ Len(r.buffer) \in Nat
<1>1. Len(r.buffer) \in Nat
  BY LenProperties
<1>2. n = NaN \/ n = 0 \/ n = 1
  BY DEF NaN
<1> QED
  BY <1>1, <1>2 DEF HowMuchToRead, Length, NaN

\* What read leaves to be done after the call of _read.
LEMMA TakeFrame ==
    ASSUME NEW g \in Frame, NEW m \in Nat
    PROVE  /\ [g EXCEPT !.fn = "take", !.m = m] \in Frame
           /\ [g EXCEPT !.fn = "take", !.m = m, !.called = TRUE] \in Frame
           /\ [g EXCEPT !.fn = "take", !.m = m].fn = "take"
           /\ [g EXCEPT !.fn = "take", !.m = m].m = m
           /\ [g EXCEPT !.fn = "take", !.m = m, !.called = TRUE].fn = "take"
           /\ [g EXCEPT !.fn = "take", !.m = m, !.called = TRUE].m = m
<1>1. "take" \in Pieces
  BY DEF Pieces
<1>2. [g EXCEPT !.fn = "take"] \in Frame
  BY <1>1, FrameKept
<1>3. [[g EXCEPT !.fn = "take"] EXCEPT !.m = m] \in Frame
  BY <1>2, FrameKept
<1>4. [[[g EXCEPT !.fn = "take"] EXCEPT !.m = m] EXCEPT !.called = TRUE] \in Frame
  BY <1>3, FrameKept
<1>5. /\ [g EXCEPT !.fn = "take", !.m = m] = [[g EXCEPT !.fn = "take"] EXCEPT !.m = m]
      /\ [g EXCEPT !.fn = "take", !.m = m, !.called = TRUE]
            = [[[g EXCEPT !.fn = "take"] EXCEPT !.m = m] EXCEPT !.called = TRUE]
  BY DEF Frame
<1>6. /\ [g EXCEPT !.fn = "take", !.m = m].fn = "take"
      /\ [g EXCEPT !.fn = "take", !.m = m].m = m
      /\ [g EXCEPT !.fn = "take", !.m = m, !.called = TRUE].fn = "take"
      /\ [g EXCEPT !.fn = "take", !.m = m, !.called = TRUE].m = m
  BY DEF Frame
<1> QED
  BY <1>3, <1>4, <1>5, <1>6

LEMMA StartReadStep == ASSUME Inv, StartRead PROVE Inv'
<1> DEFINE Taking(m) == [Top EXCEPT !.fn = "take", !.m = m]
           Asking(m) == [Top EXCEPT !.fn = "take", !.m = m, !.called = TRUE]
           r1        == [r EXCEPT !.emittedReadable = @ /\ Top.n = 0]
<1>1. /\ stack # <<>> /\ Top.fn = "read" /\ Top \in Frame /\ r.buffer \in Seq(Nat)
      /\ Top.n \in -1 .. 1 /\ delivered \in Seq(Nat)
  BY Topmost DEF StartRead, Runs, Inv, Fields, Others, Frame
<1>2. UNCHANGED <<ticks, on, pipe, source, client, pushed, delivered, emitted>>
  BY DEF StartRead, Becomes, World, log
<1>3. \E m \in 0 .. Len(r.buffer) :
        \/ /\ r' = r1
           /\ \/ stack' = <<>> \o Tail(stack)
              \/ stack' = <<Do("emitReadable")>> \o Tail(stack)
              \/ r.ended /\ stack' = <<Do("endReadable")>> \o Tail(stack)
              \/ stack' = <<Taking(m)>> \o Tail(stack)
        \/ /\ ~r.ended /\ ~r.reading
           /\ \E need \in BOOLEAN :
                 r' = [r1 EXCEPT !.reading = TRUE, !.sync = TRUE, !.needReadable = need]
           /\ stack' = <<Do("_read"), Asking(m)>> \o Tail(stack)
  <2> DEFINE n == Top.n
             m == HowMuchToRead(n)
  <2>1. m \in 0 .. Len(r.buffer)
    BY <1>1, HowMuch
  <2>2. CASE n = 0 /\ r.needReadable /\ (Length >= HighWaterMark \/ r.ended)
    <3>1. r' = r1 /\ stack' = <<Do(IF Length = 0 /\ r.ended THEN "endReadable"
                                   ELSE "emitReadable")>> \o Tail(stack)
      BY <2>2 DEF StartRead, Becomes, Set, Then
    <3>2. CASE Length = 0 /\ r.ended
      BY <2>1, <3>1, <3>2
    <3>3. CASE ~(Length = 0 /\ r.ended)
      BY <2>1, <3>1, <3>3
    <3> QED
      BY <3>2, <3>3
  <2>3. CASE ~(n = 0 /\ r.needReadable /\ (Length >= HighWaterMark \/ r.ended)) /\ m = 0 /\ r.ended
    <3>1. r' = r1 /\ stack' = (IF Length = 0 THEN <<Do("endReadable")>> ELSE <<>>) \o Tail(stack)
      BY <2>3 DEF StartRead, Becomes, Set, Then
    <3> QED
      BY <2>1, <2>3, <3>1
  <2>4. CASE /\ ~(n = 0 /\ r.needReadable /\ (Length >= HighWaterMark \/ r.ended))
             /\ ~(m = 0 /\ r.ended) /\ MayCallRead /\ WantsMore(m)
    <3>1. /\ r' = [r1 EXCEPT !.reading = TRUE, !.sync = TRUE,
                             !.needReadable = @ \/ Length = 0]
          /\ stack' = <<Do("_read"), Asking(m)>> \o Tail(stack)
      BY <2>4 DEF StartRead, Becomes, Set, Then
    <3>2. ~r.ended /\ ~r.reading
      BY <2>4 DEF MayCallRead
    <3>3. \E need \in BOOLEAN :
             r' = [r1 EXCEPT !.reading = TRUE, !.sync = TRUE, !.needReadable = need]
      BY <3>1
    <3> QED
      BY <2>1, <3>1, <3>2, <3>3
  <2>5. CASE /\ ~(n = 0 /\ r.needReadable /\ (Length >= HighWaterMark \/ r.ended))
             /\ ~(m = 0 /\ r.ended) /\ ~(MayCallRead /\ WantsMore(m))
    <3>1. r' = r1 /\ stack' = <<Taking(m)>> \o Tail(stack)
      BY <2>5 DEF StartRead, Becomes, Set, Then
    <3> QED
      BY <2>1, <3>1
  <2> QED
    BY <2>2, <2>3, <2>4, <2>5
<1>4. PICK m \in 0 .. Len(r.buffer) :
        \/ /\ r' = r1
           /\ \/ stack' = <<>> \o Tail(stack)
              \/ stack' = <<Do("emitReadable")>> \o Tail(stack)
              \/ r.ended /\ stack' = <<Do("endReadable")>> \o Tail(stack)
              \/ stack' = <<Taking(m)>> \o Tail(stack)
        \/ /\ ~r.ended /\ ~r.reading
           /\ \E need \in BOOLEAN :
                 r' = [r1 EXCEPT !.reading = TRUE, !.sync = TRUE, !.needReadable = need]
           /\ stack' = <<Do("_read"), Asking(m)>> \o Tail(stack)
  BY <1>3
<1>5. /\ m \in Nat /\ m <= Len(r.buffer) /\ Taking(m) \in Frame /\ Asking(m) \in Frame
      /\ Taking(m).fn = "take" /\ Taking(m).m = m /\ Asking(m).fn = "take" /\ Asking(m).m = m
  <2>1. Len(r.buffer) \in Nat /\ m \in Nat /\ m <= Len(r.buffer)
    BY <1>1, LenProperties
  <2>2. Taking(m) \in Frame /\ Asking(m) \in Frame
    BY <1>1, <2>1, TakeFrame
  <2>3. Taking(m).fn = "take" /\ Taking(m).m = m /\ Asking(m).fn = "take" /\ Asking(m).m = m
    BY <1>1, <2>1, TakeFrame, ZenonT(40)
  <2> QED
    BY <2>1, <2>2, <2>3
<1>6. /\ "_read" \in Pieces /\ "endReadable" \in Pieces /\ Free(Do("emitReadable"))
      /\ Do("_read") \in Frame /\ Do("endReadable") \in Frame
      /\ Do("_read").fn = "_read" /\ Do("endReadable").fn = "endReadable"
  <2>1. "_read" \in Pieces /\ "endReadable" \in Pieces
    BY DEF Pieces
  <2> QED
    BY <2>1, Frames, Frees DEF Calm
<1>7. delivered \o <<>> \o r.buffer \o <<>> = pushed
  BY <1>1, NothingOnItsWay, LedgerOf
<1> HIDE DEF Taking, Asking
<1>8. ASSUME r' = r1 PROVE
        /\ r'.buffer = r.buffer /\ r'.endEmitted = r.endEmitted /\ r'.sync = r.sync
        /\ r'.destroyed = r.destroyed /\ r'.errorEmitted = r.errorEmitted
        /\ r'.closeEmitted = r.closeEmitted /\ r'.pipes = r.pipes /\ r'.multi = r.multi
        /\ r'.awaiting = r.awaiting /\ r'.ended = r.ended /\ r'.reading = r.reading /\ Fields'
  BY <1>8 DEF Inv, Fields
<1>9. ASSUME r' = r1, stack' = <<>> \o Tail(stack) \/ stack' = <<Do("emitReadable")>> \o Tail(stack)
      PROVE  Inv'
  <2>1. Flags
    BY <1>2, <1>8, <1>9 DEF Flags, Quiet, TicksMore
  <2>2. AllFree(<<>>) /\ AllFree(<<Do("emitReadable")>>)
    BY <1>6, Short
  <2>3. Top.fn \notin Quick
    BY <1>1 DEF Quick
  <2> QED
    BY <1>1, <1>9, <2>1, <2>2, <2>3, FlagStep
<1>10. ASSUME r' = r1, NEW f \in Frame, stack' = <<f>> \o Tail(stack),
              f.fn \in {"endReadable", "take"}, f.fn = "endReadable" => r.ended,
              f.fn = "take" => f.m = m
       PROVE  Inv'
  <2> DEFINE c == <<f>> \o <<>>
  <2>1. stack' = c \o Tail(stack)
    BY <1>10
  <2> HIDE DEF c
  <2>2. Fits(f, View')
    BY <1>5, <1>8, <1>10 DEF Fits, View, OfDest, IsEnd, IsChunk
  <2>3. Stacked(c, View') /\ Ahead(c) = <<>> /\ Behind(c) = <<>> /\ ~Closes(c[1])
    <3>1. AllFree(<<>>) /\ c = <<f>> \o <<>>
      BY Short DEF c
    <3>2. /\ Stacked(c, View') /\ (~Closes(f) => ~Closes(c[1]))
      BY <2>2, <3>1, OverFree
    <3>3. /\ Ahead(c) = (IF f.fn = "data" \/ (f.fn = "addChunk" /\ f.called) THEN f.data ELSE <<>>)
          /\ Behind(c) = (IF f.fn = "addChunk" /\ ~f.called THEN f.data ELSE <<>>)
      BY <2>2, <3>1, OverFree
    <3> QED
      BY <1>10, <3>2, <3>3 DEF Closes
  <2>4. Settled
    BY <1>2, <1>8, <1>10, SettledOf DEF Inv, EndFits
  <2>5. Onward /\ Unasked' = Unasked /\ ReadWaits(c)
    BY <1>1, <1>2, <1>8, <1>10 DEF Onward, Unasked, ReadWaits, Quick
  <2>6. Source(c)
    BY <1>1, <1>2, <1>8, <1>10 DEF Source, Inv, SourceFits, IsEnd
  <2>7. delivered' \o Ahead(c) \o r'.buffer \o Behind(c) = pushed'
    BY <1>2, <1>7, <1>8, <1>10, <2>3
  <2> QED
    BY <1>1, <2>1, <2>3, <2>4, <2>5, <2>6, <2>7, ChunkStep
<1>11. ASSUME ~r.ended, ~r.reading, stack' = <<Do("_read"), Asking(m)>> \o Tail(stack),
              NEW need \in BOOLEAN,
              r' = [r1 EXCEPT !.reading = TRUE, !.sync = TRUE, !.needReadable = need]
       PROVE  Inv'
  <2> DEFINE a == Do("_read")
             b == Asking(m)
             c == <<a, b>>
  <2>1. /\ r'.buffer = r.buffer /\ r'.endEmitted = r.endEmitted /\ r'.sync
        /\ r'.destroyed = r.destroyed /\ r'.errorEmitted = r.errorEmitted
        /\ r'.closeEmitted = r.closeEmitted /\ r'.pipes = r.pipes /\ r'.multi = r.multi
        /\ r'.awaiting = r.awaiting /\ r'.ended = r.ended /\ r'.reading /\ Fields'
    BY <1>11 DEF Inv, Fields
  <2>2. /\ a \in Frame /\ b \in Frame /\ a.fn = "_read" /\ b.fn = "take" /\ b.m = m
        /\ stack' = c \o Tail(stack)
    BY <1>5, <1>6, <1>11
  <2> HIDE DEF a, b
  <2>3. c \in Seq(Frame) /\ DOMAIN c = 1 .. 2 /\ c[1] = a /\ c[2] = b /\ Len(c) = 2
    BY <2>2
  <2> HIDE DEF c
  <2>4. Fits(a, View') /\ Fits(b, View')
    <3>1. Unasked \/ ~source.asked
      BY <1>11 DEF Inv, SourceFits
    <3>2. Unasked' = Unasked
      BY <1>2 DEF Unasked
    <3> QED
      BY <1>2, <1>5, <1>11, <2>1, <2>2, <3>1, <3>2 DEF Fits, View, OfDest, IsEnd, IsChunk
  <2>5. Stacked(c, View')
    <3>1. Shape(c, r'.sync)
      BY <2>1, <2>2, <2>3 DEF Shape, TopOnly, IsChunk, Quick
    <3> QED
      BY <2>3, <2>4, <3>1 DEF Stacked, View
  <2>6. Ahead(c) = <<>> /\ Behind(c) = <<>> /\ ~Closes(c[1])
    BY <2>2, <2>3 DEF Ahead, Behind, Closes
  <2>7. Settled
    BY <1>2, <2>1, SettledOf DEF Inv, EndFits
  <2>8. Onward /\ Unasked' = Unasked /\ ReadWaits(c)
    BY <1>1, <1>2, <2>1 DEF Onward, Unasked, ReadWaits, Quick
  <2>9. Source(c)
    BY <1>1, <1>2, <2>1 DEF Source, Inv, SourceFits, IsEnd
  <2>10. delivered' \o Ahead(c) \o r'.buffer \o Behind(c) = pushed'
    BY <1>2, <1>7, <2>1, <2>6
  <2> QED
    BY <1>1, <2>2, <2>5, <2>6, <2>7, <2>8, <2>9, <2>10, ChunkStep
<1> HIDE DEF r1
<1>12. ASSUME r' = r1, r.ended, stack' = <<Do("endReadable")>> \o Tail(stack) PROVE Inv'
  <2> DEFINE g == Do("endReadable")
  <2>1. g \in Frame /\ g.fn = "endReadable" /\ stack' = <<g>> \o Tail(stack) /\ r' = r1 /\ r.ended
    BY <1>6, <1>12
  <2> HIDE DEF g
  <2> QED
    BY <1>10, <2>1
<1>13. ASSUME r' = r1, stack' = <<Taking(m)>> \o Tail(stack) PROVE Inv'
  BY <1>5, <1>10, <1>13
<1> QED
  BY <1>4, <1>9, <1>11, <1>12, <1>13

LEMMA OneOnTop ==
    ASSUME NEW f \in Frame, NEW u \in Seq(Frame), NEW t, t = <<f>> \o u
    PROVE  /\ t \in Seq(Frame) /\ Len(u) \in Nat /\ Len(t) = 1 + Len(u)
           /\ DOMAIN t = 1 .. 1 + Len(u) /\ DOMAIN u = 1 .. Len(u)
           /\ t[1] = f
           /\ \A i \in DOMAIN t : i # 1 => i - 1 \in DOMAIN u /\ t[i] = u[i - 1]
<1> DEFINE one == <<f>>
<1>1. one \in Seq(Frame) /\ one[1] = f /\ Len(one) = 1 /\ t = one \o u
  OBVIOUS
<1> HIDE DEF one
<1>2. /\ t \in Seq(Frame) /\ Len(u) \in Nat /\ DOMAIN t = 1 .. 1 + Len(u)
      /\ DOMAIN u = 1 .. Len(u) /\ Len(t) = 1 + Len(u)
  BY <1>1, OnTop
<1>3. /\ \A i \in 1 .. Len(one) : t[i] = one[i]
      /\ \A i \in Len(one) + 1 .. Len(one) + Len(u) : t[i] = u[i - Len(one)]
  BY <1>1, OnTop
<1>4. t[1] = f /\ \A i \in 2 .. 1 + Len(u) : t[i] = u[i - 1]
  BY <1>1, <1>3
<1>5. ASSUME NEW i \in DOMAIN t, i # 1 PROVE i - 1 \in DOMAIN u /\ t[i] = u[i - 1]
  BY <1>2, <1>4, <1>5
<1> QED
  BY <1>2, <1>4, <1>5

LEMMA EndOver ==
    ASSUME NEW w, NEW v, Stacked(w, v), v.r.ended, NEW c, c = <<Do("endReadable")>> \o w,
           \A i \in DOMAIN w : w[i].fn \notin TopOnly \cup {"take", "push"} /\ (w[i].fn = "data" => i = 1)
    PROVE  Stacked(c, v) /\ Ahead(c) = Ahead(w) /\ Behind(c) = <<>> /\ ~Closes(c[1])
<1> DEFINE f == Do("endReadable")
<1>1. f \in Frame /\ f.fn = "endReadable"
  <2>1. "endReadable" \in Pieces
    BY DEF Pieces
  <2> QED
    BY <2>1, Frames
<1>2. w \in Seq(Frame) /\ c = <<f>> \o w
  BY DEF Stacked, Shape
<1> HIDE DEF f
<1>3. /\ c \in Seq(Frame) /\ Len(w) \in Nat /\ DOMAIN c = 1 .. 1 + Len(w) /\ DOMAIN w = 1 .. Len(w)
      /\ Len(c) = 1 + Len(w)
  BY <1>1, <1>2, OneOnTop
<1>4. c[1] = f
  BY <1>1, <1>2, OneOnTop
<1>5. ASSUME NEW i \in DOMAIN c, i # 1
      PROVE  i - 1 \in DOMAIN w /\ c[i] = w[i - 1]
  BY <1>1, <1>2, <1>5, OneOnTop
<1>6. Stacked(c, v)
  <2>1. \A i \in DOMAIN c : Fits(c[i], v)
    <3>1. Fits(f, v)
      BY <1>1 DEF Fits, OfDest, IsEnd, IsChunk
    <3> QED
      BY <1>4, <1>5, <3>1 DEF Stacked
  <2>2. ASSUME NEW i \in DOMAIN c, i # 1
        PROVE  /\ c[i].fn \notin TopOnly /\ c[i].fn # "take" /\ ~IsChunk(c[i])
               /\ c[i].fn = "data" => i = 2
    BY <1>3, <1>5, <2>2 DEF IsChunk
  <2> QED
    BY <1>1, <1>3, <1>4, <2>1, <2>2 DEF Stacked, Shape
<1>7. c # <<>> /\ (Len(c) > 1 <=> w # <<>>) /\ (w # <<>> => c[2] = w[1] /\ 1 \in DOMAIN w)
  <2>1. c # <<>> /\ (Len(c) > 1 <=> w # <<>>) /\ (w # <<>> => 2 \in DOMAIN c /\ 1 \in DOMAIN w)
    BY <1>2, <1>3, EmptySeq
  <2>2. w # <<>> => c[2] = w[2 - 1]
    BY <1>5, <2>1
  <2> QED
    BY <2>1, <2>2
<1>8. Len(w) > 1 => w[2].fn # "data"
  BY <1>3
<1>9. w # <<>> => w[1].fn # "addChunk"
  BY <1>7 DEF TopOnly
<1>10. Ahead(c) = Ahead(w) /\ Behind(c) = <<>>
  BY <1>1, <1>4, <1>7, <1>8, <1>9 DEF Ahead, Behind
<1> QED
  BY <1>1, <1>4, <1>6, <1>10 DEF Closes

LEMMA Split ==
    ASSUME NEW s \in Seq(Nat), NEW m \in 0 .. Len(s)
    PROVE  /\ SubSeq(s, 1, m) \in Seq(Nat) /\ SubSeq(s, m + 1, Len(s)) \in Seq(Nat)
           /\ SubSeq(s, 1, m) \o SubSeq(s, m + 1, Len(s)) = s
<1> DEFINE n == Len(s)
<1>1. n \in Nat /\ \A i \in 1 .. n : s[i] \in Nat
  BY LenProperties, ElementOfSeq
<1>2. SubSeq(s, 1, n) = s
  BY SubSeqFull
<1> HIDE DEF n
<1>3. 1 \in 1 .. n + 1 /\ m \in 1 - 1 .. n /\ n \in m .. n /\ m \in Int /\ m + 1 \in Int /\ n \in Int
  BY <1>1 DEF n
<1>4. \A i \in 1 .. m : s[i] \in Nat
  BY <1>1, <1>3
<1>5. \A i \in m + 1 .. n : s[i] \in Nat
  BY <1>1, <1>3
<1>6. SubSeq(s, 1, m) \in Seq(Nat)
  BY <1>3, <1>4, SubSeqProperties
<1>7. SubSeq(s, m + 1, n) \in Seq(Nat)
  BY <1>3, <1>5, SubSeqProperties
<1>8. SubSeq(s, 1, m) \o SubSeq(s, m + 1, n) = s
  <2>1. \A a \in 1 .. n + 1 : \A k \in a - 1 .. n : \A l \in k .. n :
           SubSeq(s, a, k) \o SubSeq(s, k + 1, l) = SubSeq(s, a, l)
    BY ConcatAdjacentSubSeq DEF n
  <2> QED
    BY <1>2, <1>3, <2>1
<1> QED
  BY <1>6, <1>7, <1>8 DEF n

\* What take does to the ReadableState.
LEMMA TakeSets ==
    ASSUME Take
    PROVE  LET m    == IF Top.called /\ ~r.reading THEN HowMuchToRead(Top.n) ELSE Top.m
               some == Length > 0 /\ m > 0
               rest == IF some THEN SubSeq(r.buffer, m + 1, Length) ELSE r.buffer
           IN \E sync, need, then :
                 r' = [[r EXCEPT !.sync = sync, !.buffer = rest, !.needReadable = need,
                                 !.awaiting = IF some THEN {} ELSE @]
                          EXCEPT !.needReadable = then]
<1> DEFINE m    == IF Top.called /\ ~r.reading THEN HowMuchToRead(Top.n) ELSE Top.m
           some == Length > 0 /\ m > 0
           rest == IF some THEN SubSeq(r.buffer, m + 1, Length) ELSE r.buffer
           r1   == [r EXCEPT !.sync = @ /\ ~Top.called, !.buffer = rest,
                             !.needReadable = IF some THEN @ ELSE Length <= HighWaterMark,
                             !.awaiting = IF some THEN {} ELSE @]
           r2   == [r1 EXCEPT !.needReadable = @ \/ (rest = <<>> /\ ~r.ended)]
<1>1. r' = r2
  BY Zenon DEF Take, Becomes, Set
<1>2. r2 = [[r EXCEPT !.sync = r.sync /\ ~Top.called, !.buffer = rest,
                      !.needReadable = IF some THEN r.needReadable ELSE Length <= HighWaterMark,
                      !.awaiting = IF some THEN {} ELSE @]
               EXCEPT !.needReadable = r1.needReadable \/ (rest = <<>> /\ ~r.ended)]
  BY Zenon
<1> QED
  BY <1>1, <1>2, Zenon

LEMMA TakeStep == ASSUME Inv, Take PROVE Inv'
<1> DEFINE m     == IF Top.called /\ ~r.reading THEN HowMuchToRead(Top.n) ELSE Top.m
           some  == Length > 0 /\ m > 0
           rest  == IF some THEN SubSeq(r.buffer, m + 1, Length) ELSE r.buffer
           first == IF some THEN SubSeq(r.buffer, 1, m) ELSE <<>>
           f     == [Do("data") EXCEPT !.data = SubSeq(r.buffer, 1, m), !.loop = Top.loop]
           l     == IF some /\ Top.loop # "" THEN <<Do(Top.loop)>> ELSE <<>>
           d     == IF some THEN <<f>> ELSE <<>>
           e     == <<Do("endReadable")>>
<1>1. /\ stack # <<>> /\ Top.fn = "take" /\ Top \in Frame /\ r.buffer \in Seq(Nat)
      /\ Top.n \in -1 .. 1 /\ delivered \in Seq(Nat) /\ Top.m \in Nat /\ Top.m <= Len(r.buffer)
      /\ Top.loop \in {"", "flow", "onreadable"}
  BY Topmost DEF Take, Runs, Inv, Fields, Others, Frame, Fits, View
<1>2. UNCHANGED <<ticks, on, pipe, source, client, pushed, delivered, emitted>>
  BY DEF Take, Becomes, World, log
<1>3. m \in 0 .. Len(r.buffer) /\ Len(r.buffer) \in Nat
  <2>1. Len(r.buffer) \in Nat /\ HowMuchToRead(Top.n) \in 0 .. Len(r.buffer)
    BY <1>1, HowMuch
  <2>2. \A x, y \in Nat : x <= y => x \in 0 .. y
    OBVIOUS
  <2>3. Top.m \in 0 .. Len(r.buffer)
    BY <1>1, <2>1, <2>2
  <2> QED
    BY <2>1, <2>3
<1>4. \E sync, need, then :
         r' = [[r EXCEPT !.sync = sync, !.buffer = rest, !.needReadable = need,
                         !.awaiting = IF some THEN {} ELSE @]
                  EXCEPT !.needReadable = then]
  BY TakeSets
<1>5. \/ r.ended /\ stack' = (e \o d \o l) \o Tail(stack)
      \/ stack' = (<<>> \o d \o l) \o Tail(stack)
  BY DEF Take, Becomes, Then
<1>6. rest \in Seq(Nat) /\ first \in Seq(Nat) /\ first \o rest = r.buffer
  <2>1. CASE some
    BY <1>1, <1>3, <2>1, Split DEF Length
  <2>2. CASE ~some
    <3>1. <<>> \o r.buffer = r.buffer
      BY <1>1, ConcatEmptySeq
    <3> QED
      BY <1>1, <2>2, <3>1, EmptySeq
  <2> QED
    BY <2>1, <2>2
<1>7. some => f \in Frame /\ f.fn = "data" /\ f.data = first
  <2>1. "data" \in Pieces /\ (some => SubSeq(r.buffer, 1, m) \in Seq(Nat))
    BY <1>6 DEF Pieces
  <2>2. Do("data") \in Frame
    BY <2>1, Frames
  <2>3. some => [Do("data") EXCEPT !.data = SubSeq(r.buffer, 1, m)] \in Frame
    BY <2>1, <2>2, FrameKept
  <2>4. some => [[Do("data") EXCEPT !.data = SubSeq(r.buffer, 1, m)] EXCEPT !.loop = Top.loop] \in Frame
    BY <1>1, <2>3, FrameKept
  <2> QED
    BY <2>4 DEF Do
<1>8. some => ~r.endEmitted
  <2>1. Len(<<>>) = 0
    OBVIOUS
  <2>2. r.endEmitted => Len(r.buffer) = 0
    BY <2>1 DEF Inv, EndFits
  <2> QED
    BY <1>3, <2>2 DEF Length
<1>9. AllFree(l)
  BY <1>1, Short, Frees DEF Calm
<1>10. ~some => l = <<>> /\ d = <<>> /\ first = <<>>
  OBVIOUS
<1>11. some => d = <<f>>
  OBVIOUS
<1> HIDE DEF m, rest, first, f, l, d
<1>12. /\ r'.buffer = rest /\ r'.endEmitted = r.endEmitted /\ r'.destroyed = r.destroyed
       /\ r'.errorEmitted = r.errorEmitted /\ r'.closeEmitted = r.closeEmitted
       /\ r'.pipes = r.pipes /\ r'.multi = r.multi /\ r'.ended = r.ended
       /\ r'.reading = r.reading /\ (r'.awaiting = r.awaiting \/ r'.awaiting = {}) /\ Fields'
  BY <1>4, <1>6 DEF Inv, Fields
<1>13. /\ Stacked(d \o l, View') /\ Ahead(d \o l) = first /\ Behind(d \o l) = <<>>
       /\ d \o l # <<>> => ~Closes((d \o l)[1])
       /\ \A i \in DOMAIN (d \o l) : /\ (d \o l)[i].fn \notin TopOnly \cup {"take", "push"}
                                     /\ (d \o l)[i].fn = "data" => i = 1
  <2>1. CASE some
    <3> DEFINE w == <<f>> \o l
    <3>1. Fits(f, View')
      BY <1>7, <1>8, <1>12, <2>1 DEF Fits, View, OfDest, IsEnd, IsChunk
    <3>2. Stacked(w, View') /\ (~Closes(f) => ~Closes(w[1]))
      BY <1>7, <1>9, <2>1, <3>1, OverFree
    <3>3. /\ Ahead(w) = (IF f.fn = "data" \/ (f.fn = "addChunk" /\ f.called) THEN f.data ELSE <<>>)
          /\ Behind(w) = (IF f.fn = "addChunk" /\ ~f.called THEN f.data ELSE <<>>)
      BY <1>7, <1>9, <2>1, <3>1, OverFree
    <3>4. ASSUME NEW i \in DOMAIN w
          PROVE  /\ w[i].fn \notin TopOnly \cup {"take", "push"}
                 /\ w[i].fn = "data" => i = 1
      <4>1. f \in Frame /\ l \in Seq(Frame) /\ w = <<f>> \o l
        BY <1>7, <1>9, <2>1 DEF AllFree
      <4> HIDE DEF w
      <4>2. w[1] = f
        BY <4>1, OneOnTop
      <4>3. i # 1 => i - 1 \in DOMAIN l /\ w[i] = l[i - 1]
        BY <3>4, <4>1, OneOnTop
      <4>4. CASE i = 1
        BY <1>7, <2>1, <4>2, <4>4 DEF TopOnly
      <4>5. CASE i # 1
        BY <1>9, <4>3, <4>5 DEF AllFree, Free
      <4> QED
        BY <4>4, <4>5
    <3>5. d \o l = w
      BY <1>11, <2>1
    <3> HIDE DEF w
    <3> QED
      BY <1>7, <2>1, <3>2, <3>3, <3>4, <3>5 DEF Closes
  <2>2. CASE ~some
    <3>1. <<>> \o <<>> = <<>> /\ DOMAIN <<>> = {}
      OBVIOUS
    <3>2. d \o l = <<>> /\ first = <<>>
      BY <1>10, <2>2, <3>1
    <3> QED
      BY <3>1, <3>2, Short, FreeStacked
  <2> QED
    BY <2>1, <2>2
<1>14. /\ l \in Seq(Frame) /\ d \in Seq(Frame) /\ e \in Seq(Frame)
  <2>1. "endReadable" \in Pieces
    BY DEF Pieces
  <2>2. Do("endReadable") \in Frame
    BY <2>1, Frames
  <2> QED
    BY <1>7, <1>9, <2>2, EmptySeq DEF AllFree, d
<1>15. (e \o d) \o l = e \o (d \o l) /\ (<<>> \o d) \o l = d \o l
  <2> HIDE DEF e
  <2>1. (e \o d) \o l = e \o (d \o l)
    BY <1>14, ConcatAssociative
  <2>2. <<>> \o d = d
    BY <1>14, ConcatEmptySeq
  <2> QED
    BY <2>1, <2>2
<1>16. \E c : /\ stack' = c \o Tail(stack) /\ Stacked(c, View') /\ Ahead(c) = first
              /\ Behind(c) = <<>> /\ (c # <<>> => ~Closes(c[1]))
  <2> DEFINE w == d \o l
  <2>1. /\ Stacked(w, View') /\ Ahead(w) = first /\ Behind(w) = <<>>
        /\ w # <<>> => ~Closes(w[1])
        /\ \A i \in DOMAIN w : /\ w[i].fn \notin TopOnly \cup {"take", "push"}
                               /\ w[i].fn = "data" => i = 1
    BY <1>13
  <2>2. \/ r.ended /\ stack' = (e \o w) \o Tail(stack)
        \/ stack' = w \o Tail(stack)
    BY <1>5, <1>15
  <2> HIDE DEF w
  <2>3. ASSUME r.ended, stack' = (e \o w) \o Tail(stack)
        PROVE  /\ Stacked(e \o w, View') /\ Ahead(e \o w) = Ahead(w)
               /\ Behind(e \o w) = <<>> /\ ~Closes((e \o w)[1])
    <3>1. View'.r.ended
      BY <1>12, <2>3 DEF View
    <3> QED
      BY <2>1, <3>1, EndOver
  <2> QED
    BY <2>1, <2>2, <2>3
<1>17. PICK c : /\ stack' = c \o Tail(stack) /\ Stacked(c, View') /\ Ahead(c) = first
                /\ Behind(c) = <<>> /\ (c # <<>> => ~Closes(c[1]))
  BY <1>16
<1>18. Settled
  <2>1. r'.endEmitted => r'.buffer = <<>>
    BY <1>8, <1>12 DEF rest, Inv, EndFits
  <2> QED
    BY <1>2, <1>12, <2>1, SettledOf
<1>19. Onward /\ Unasked' = Unasked /\ ReadWaits(c)
  BY <1>1, <1>2, <1>12 DEF Onward, Unasked, ReadWaits, Quick
<1>20. Source(c)
  BY <1>1, <1>2, <1>12 DEF Source, Inv, SourceFits, IsEnd
<1>21. delivered' \o Ahead(c) \o r'.buffer \o Behind(c) = pushed'
  <2>1. delivered \o r.buffer = pushed
    BY <1>1, NothingOnItsWay
  <2>2. (delivered \o first) \o rest = delivered \o (first \o rest)
    BY <1>1, <1>6, Associative
  <2>3. (delivered \o first) \o rest \in Seq(Nat)
    BY <1>1, <1>6, ConcatProperties
  <2>4. ((delivered \o first) \o rest) \o <<>> = (delivered \o first) \o rest
    BY <2>3, ConcatEmptySeq
  <2> QED
    BY <1>2, <1>6, <1>12, <1>17, <2>1, <2>2, <2>4
<1> QED
  BY <1>1, <1>17, <1>18, <1>19, <1>20, <1>21, ChunkStep

-----------------------------------------------------------------------------
(* The source.                                                              *)

LEMMA PushFrame ==
    ASSUME NEW d \in Seq(Nat)
    PROVE  PushOf(d) \in Frame /\ PushOf(d).fn = "push" /\ ~PushOf(d).called /\ PushOf(d).data = d
<1>1. "push" \in Pieces
  BY DEF Pieces
<1> DEFINE f == [Do("push") EXCEPT !.data = d]
<1>2. f \in Frame /\ f.fn = "push"
  BY <1>1, Frames
<1>3. f.data = d /\ ~f.called
  BY DEF Do
<1>4. PushOf(d) = f
  BY DEF PushOf
<1> HIDE DEF f
<1> QED
  BY <1>2, <1>3, <1>4

\* What the source gives at a time: k chunks, and the end or not.
ArePushes(c, k, end) ==
    /\ c \in Seq(Frame)
    /\ \A i \in DOMAIN c : /\ c[i].fn = "push" /\ ~c[i].called
                           /\ c[i].data = <<>> => end
    /\ end => HasEnd(c)
    /\ k # 2 => \A i \in DOMAIN c : i # 1 => c[i].data = <<>>

LEMMA PushesAre ==
    ASSUME source.count \in Nat, NEW k \in 0 .. 2, NEW end \in BOOLEAN
    PROVE  ArePushes(Pushes(k, end), k, end)
<1> DEFINE c == Pushes(k, end)
           T == {f \in Frame : f.fn = "push" /\ ~f.called /\ (f.data = <<>> => end)}
           a == [i \in 1 .. k |-> PushOf(<<source.count + i>>)]
           e == PushOf(<<>>)
           b == IF end THEN <<e>> ELSE <<>>
           z == IF k = 0 /\ ~end THEN <<PushOf(<<0>>)>> ELSE <<>>
<1>1. k \in Nat /\ c = (a \o b) \o z
  BY DEF Pushes
<1> HIDE DEF c
<1>2. \A n \in Nat : <<n>> \in Seq(Nat) /\ <<n>> # <<>>
  OBVIOUS
<1>3. \A n \in Nat : PushOf(<<n>>) \in T
  BY <1>2, PushFrame
<1>4. a \in Seq(T) /\ Len(a) = k
  <2>1. \A i \in 1 .. k : source.count + i \in Nat
    BY <1>1
  <2>2. a \in [1 .. k -> T]
    BY <1>3, <2>1
  <2> HIDE DEF a, T
  <2> QED
    BY <1>1, <2>2, Mapped
<1>5. e \in Frame /\ e.fn = "push" /\ ~e.called /\ e.data = <<>> /\ (end => e \in T)
  <2>1. <<>> \in Seq(Nat)
    BY EmptySeq
  <2> QED
    BY <2>1, PushFrame
<1>6. PushOf(<<0>>) \in T
  BY <1>3
<1> HIDE DEF T, a, e
<1>7. b \in Seq(T) /\ z \in Seq(T)
  BY <1>5, <1>6, EmptySeq
<1>8. end => b = <<e>> /\ z = <<>>
  OBVIOUS
<1>9. ~end => b = <<>>
  OBVIOUS
<1>10. k # 0 => z = <<>>
  OBVIOUS
<1> HIDE DEF b, z
<1>11. a \o b \in Seq(T) /\ c \in Seq(T)
  BY <1>1, <1>4, <1>7, ConcatProperties
<1>12. \A i \in DOMAIN c : c[i] \in T
  BY <1>11, LenProperties, ElementOfSeq
<1>13. c \in Seq(Frame)
  BY <1>11, <1>12, OfElements DEF T
<1>14. ASSUME z = <<>> PROVE c = a \o b
  BY <1>1, <1>11, <1>14, ConcatEmptySeq
<1>15. end => /\ c = a \o b /\ k + 1 \in DOMAIN c /\ c[k + 1] = e /\ DOMAIN c = 1 .. k + 1
  <2> SUFFICES ASSUME end
               PROVE  /\ c = a \o b /\ k + 1 \in DOMAIN c /\ c[k + 1] = e /\ DOMAIN c = 1 .. k + 1
    OBVIOUS
  <2>1. c = a \o b /\ b = <<e>> /\ e \in T
    BY <1>5, <1>8, <1>14
  <2>2. a \o <<e>> = Append(a, e)
    BY <1>4, <2>1, AppendIsConcat
  <2>3. c = Append(a, e)
    BY <2>1, <2>2
  <2>4. DOMAIN c = 1 .. Len(a) + 1 /\ c[Len(a) + 1] = e
    <3>1. Len(c) = Len(a) + 1 /\ c[Len(a) + 1] = e
      BY <1>4, <2>1, <2>3, AppendProperties
    <3>2. DOMAIN c = 1 .. Len(c)
      BY <1>11, LenProperties
    <3> QED
      BY <3>1, <3>2
  <2>5. k + 1 \in 1 .. k + 1
    BY <1>1
  <2> QED
    BY <1>4, <2>1, <2>4, <2>5
<1>16. end => HasEnd(c)
  BY <1>5, <1>15 DEF HasEnd, IsEnd
<1>17. ASSUME k # 2 PROVE \A i \in DOMAIN c : i # 1 => c[i].data = <<>>
  <2>1. k = 0 \/ k = 1
    BY <1>17
  <2>2. CASE end
    <3>1. DOMAIN c = 1 .. k + 1 /\ c[k + 1] = e
      BY <1>15, <2>2
    <3>2. \A i \in DOMAIN c : i # 1 => i = k + 1
      BY <2>1, <3>1
    <3> QED
      BY <1>5, <3>1, <3>2
  <2>3. CASE ~end
    <3>1. Len(c) <= 1
      <4>1. Len(a) = k /\ Len(b) = 0 /\ Len(a \o b) = k + 0 /\ Len(c) = (k + 0) + Len(z)
        BY <1>1, <1>4, <1>7, <1>9, <1>11, <2>3, ConcatProperties
      <4>2. Len(z) = 0 \/ (k = 0 /\ Len(z) = 1)
        BY <2>3 DEF z
      <4>3. CASE k = 0
        <5>1. Len(c) = (0 + 0) + Len(z)
          BY <4>1, <4>3
        <5>2. Len(z) = 0 \/ Len(z) = 1
          BY <4>2
        <5>3. CASE Len(z) = 0
          BY <5>1, <5>3
        <5>4. CASE Len(z) = 1
          BY <5>1, <5>4
        <5> QED
          BY <5>2, <5>3, <5>4
      <4>4. CASE k = 1
        <5>1. Len(z) = 0
          BY <4>2, <4>4
        <5>2. Len(c) = (1 + 0) + 0
          BY <4>1, <4>4, <5>1
        <5> QED
          BY <5>2
      <4> QED
        BY <2>1, <4>3, <4>4
    <3>2. DOMAIN c = 1 .. Len(c) /\ Len(c) \in Nat
      BY <1>11, LenProperties
    <3> QED
      BY <3>1, <3>2
  <2> QED
    BY <2>2, <2>3
<1>18. \A i \in DOMAIN c :
          /\ c[i].fn = "push" /\ ~c[i].called
          /\ c[i].data = <<>> => end
  BY <1>12 DEF T
<1>19. ArePushes(c, k, end)
  <2>1. k # 2 => \A i \in DOMAIN c : i # 1 => c[i].data = <<>>
    BY <1>17
  <2> QED
    BY <1>13, <1>16, <1>18, <2>1 DEF ArePushes
<1> QED
  BY <1>19 DEF c

LEMMA PushesStacked ==
    ASSUME NEW c, NEW k, NEW v, NEW end \in BOOLEAN, ArePushes(c, k, end),
           end => v.source.eof, v.unasked \/ ~v.source.asked \/ v.r.ended,
           v.r.sync \/ k # 2
    PROVE  /\ Stacked(c, v) /\ Ahead(c) = <<>> /\ Behind(c) = <<>>
           /\ c # <<>> => ~Closes(c[1])
<1>1. /\ c \in Seq(Frame)
      /\ \A i \in DOMAIN c : /\ c[i].fn = "push" /\ ~c[i].called
                             /\ c[i].data = <<>> => end
      /\ v.r.sync \/ \A i \in DOMAIN c : i # 1 => c[i].data = <<>>
  BY DEF ArePushes
<1>2. DOMAIN c = 1 .. Len(c) /\ Len(c) \in Nat /\ (c # <<>> => 1 \in DOMAIN c)
  BY <1>1, LenProperties, EmptySeq
<1>3. \A i \in DOMAIN c : Fits(c[i], v)
  BY <1>1 DEF Fits, OfDest, IsEnd, IsChunk
<1>4. \A i \in DOMAIN c : \A j \in 1 .. i - 1 : j \in DOMAIN c
  BY <1>2
<1>5. Shape(c, v.r.sync)
  BY <1>1, <1>4 DEF Shape, TopOnly, IsChunk, Quick
<1>6. /\ c # <<>> => c[1].fn = "push"
      /\ Len(c) > 1 => c[2].fn = "push"
  <2>1. Len(c) > 1 => 2 \in DOMAIN c
    BY <1>2
  <2> QED
    BY <1>1, <1>2, <2>1
<1>7. Ahead(c) = <<>> /\ Behind(c) = <<>>
  BY <1>6 DEF Ahead, Behind
<1> QED
  BY <1>3, <1>5, <1>6, <1>7 DEF Stacked, Closes

\* A source that has answered.
LEMMA Given ==
    ASSUME Inv, NEW k \in 0 .. 2, NEW end \in BOOLEAN, Gives(k, end)
    PROVE  /\ ~source.eof /\ source'.eof = end /\ ~source'.asked /\ source.count \in Nat
           /\ {"asked", "count", "eof", "empty"} \subseteq DOMAIN source' /\ source'.count \in Nat
           /\ UNCHANGED <<r, on, pipe, dest, ticks, client, pushed, delivered, got, emitted>>
<1>1. source.count \in Nat /\ {"asked", "count", "eof", "empty"} \subseteq DOMAIN source
  BY DEF Inv, Others
<1>2. source' = [source EXCEPT !.asked = FALSE, !.count = @ + k, !.eof = end,
                               !.empty = @ \/ (k = 0 /\ ~end)]
  BY DEF Gives
<1>3. source'.eof = end /\ ~source'.asked /\ source'.count = source.count + k
      /\ {"asked", "count", "eof", "empty"} \subseteq DOMAIN source'
  BY <1>1, <1>2
<1> QED
  BY <1>1, <1>3 DEF Gives, log

LEMMA AtOnceStep == ASSUME Inv, SourceAnswersAtOnce PROVE Inv'
<1>1. PICK k \in 0 .. 2, end \in BOOLEAN : Gives(k, end) /\ stack' = Pushes(k, end) \o Tail(stack)
  BY DEF SourceAnswersAtOnce, Then
<1>2. /\ stack # <<>> /\ Top.fn = "_read" /\ r.reading /\ r.sync /\ ~r.ended
      /\ delivered \in Seq(Nat) /\ r.buffer \in Seq(Nat)
  BY Topmost DEF SourceAnswersAtOnce, Runs, Fits, View, Inv, Fields, Others
<1>3. /\ ~source.eof /\ source'.eof = end /\ ~source'.asked /\ source.count \in Nat
      /\ {"asked", "count", "eof", "empty"} \subseteq DOMAIN source' /\ source'.count \in Nat
      /\ UNCHANGED <<r, on, pipe, dest, ticks, client, pushed, delivered, got, emitted>>
  BY <1>1, Given
<1> DEFINE c == Pushes(k, end)
<1>4. ArePushes(c, k, end)
  BY <1>3, PushesAre
<1> HIDE DEF c
<1>5. /\ Stacked(c, View') /\ Ahead(c) = <<>> /\ Behind(c) = <<>>
      /\ c # <<>> => ~Closes(c[1])
  <2>1. /\ end => View'.source.eof
        /\ View'.unasked \/ ~View'.source.asked \/ View'.r.ended
        /\ View'.r.sync
    BY <1>2, <1>3 DEF View
  <2> QED
    BY <1>4, <2>1, PushesStacked
<1>6. stack' = c \o Tail(stack)
  BY <1>1 DEF c
<1>7. Settled
  BY <1>3 DEF Settled, Inv, Fields, Others, EndFits
<1>8. Onward /\ Unasked' = Unasked
  BY <1>3 DEF Onward, Unasked
<1>9. ReadWaits(c)
  <2>1. Len(r.buffer) \in Nat
    BY <1>2, LenProperties
  <2> QED
    BY <1>2, <1>3, <1>4, <2>1 DEF ReadWaits, Quick, ArePushes
<1>10. Source(c)
  BY <1>2, <1>3, <1>4 DEF Source, ArePushes
<1>11. delivered' \o Ahead(c) \o r'.buffer \o Behind(c) = pushed'
  BY <1>2, <1>3, <1>5, NothingOnItsWay, LedgerOf
<1> QED
  BY <1>2, <1>5, <1>6, <1>7, <1>8, <1>9, <1>10, <1>11, ChunkStep

LEMMA KeepsStep == ASSUME Inv, SourceKeeps PROVE Inv'
<1>1. /\ stack # <<>> /\ Top.fn = "_read" /\ r.reading /\ r.sync /\ ~r.ended
      /\ delivered \in Seq(Nat) /\ r.buffer \in Seq(Nat) /\ stack' = <<>> \o Tail(stack)
      /\ source' = [source EXCEPT !.asked = TRUE]
      /\ UNCHANGED <<r, on, pipe, dest, ticks, client, pushed, delivered, emitted>>
  BY Topmost DEF SourceKeeps, Then, log, Runs, Fits, View, Inv, Fields, Others
<1>2. /\ source'.eof = source.eof /\ source'.count = source.count
      /\ DOMAIN source' = DOMAIN source
  BY <1>1 DEF Inv, Others
<1>3. /\ Stacked(<<>>, View') /\ Ahead(<<>>) = <<>> /\ Behind(<<>>) = <<>>
  BY Short, FreeStacked
<1>4. Settled
  BY <1>1, <1>2 DEF Settled, Inv, Fields, Others, EndFits
<1>5. Onward /\ Unasked' = Unasked
  BY <1>1, <1>2 DEF Onward, Unasked
<1>6. ReadWaits(<<>>)
  <2>1. Len(r.buffer) \in Nat /\ DOMAIN <<>> = {}
    BY <1>1, LenProperties
  <2> QED
    BY <1>1, <2>1 DEF ReadWaits
<1>7. Source(<<>>)
  BY <1>1, <1>2 DEF Source, Inv, SourceFits, IsEnd
<1>8. delivered' \o Ahead(<<>>) \o r'.buffer \o Behind(<<>>) = pushed'
  BY <1>1, <1>3, NothingOnItsWay, LedgerOf
<1> QED
  BY <1>1, <1>3, <1>4, <1>5, <1>6, <1>7, <1>8, ChunkStep

-----------------------------------------------------------------------------
(* Steps from outside.                                                      *)

\* With nothing on the stack nothing is on its way.
LEMMA Still ==
    ASSUME Inv, stack = <<>>
    PROVE  /\ delivered \o r.buffer = pushed /\ (source.eof => r.ended)
           /\ delivered \in Seq(Nat) /\ r.buffer \in Seq(Nat)
<1>1. ~HasEnd(stack) /\ Ahead(stack) = <<>> /\ Behind(stack) = <<>>
  <2>1. DOMAIN <<>> = {} /\ Len(<<>>) = 0
    OBVIOUS
  <2> QED
    BY <2>1 DEF HasEnd, Ahead, Behind
<1>2. delivered \in Seq(Nat) /\ r.buffer \in Seq(Nat)
  BY DEF Inv, Fields, Others
<1>3. delivered \o <<>> \o r.buffer \o <<>> = pushed
  BY <1>1 DEF Inv, Ledger
<1> QED
  BY <1>1, <1>2, <1>3, LedgerOf DEF Inv, SourceFits

LEMMA OutsideStep ==
    ASSUME Inv, stack = <<>>, NEW c, stack' = c, Stacked(c, View'),
           Ahead(c) = <<>>, Behind(c) = <<>>, c # <<>> => ~Closes(c[1]),
           UNCHANGED <<r, on, pipe, client, ticks, pushed, delivered, emitted>>,
           {"asked", "count", "eof", "empty"} \subseteq DOMAIN source', source'.count \in Nat,
           source.eof => source'.eof, source'.eof => r.ended \/ HasEnd(c),
           source'.asked => source.asked
    PROVE  Inv'
<1>1. Fields' /\ Heard' /\ Others' /\ PipesFit' /\ EndFits'
  BY DEF Inv, Fields, Heard, Others, PipesFit, EndFits, EventsInOrder
<1>2. SourceFits'
  BY DEF Inv, SourceFits, Unasked
<1>3. Closing' /\ TicksFit(ticks', r'.ended)
  BY DEF Inv, Closing, ClosesOnce, ClosesNow, TicksFit
<1>4. Ledger'
  BY Still, LedgerOf DEF Ledger
<1> QED
  BY <1>1, <1>2, <1>3, <1>4 DEF Inv

LEMMA LaterStep == ASSUME Inv, SourceAnswersLater \/ SourcePushesUnasked PROVE Inv'
<1>1. stack = <<>> /\ \E k \in 0 .. 1, end \in BOOLEAN : Gives(k, end) /\ stack' = Pushes(k, end)
  <2>1. CASE SourceAnswersLater
    BY <2>1 DEF SourceAnswersLater
  <2>2. CASE SourcePushesUnasked
    <3>1. stack = <<>> /\ \E end \in BOOLEAN : /\ Gives(IF end THEN 0 ELSE 1, end)
                                               /\ stack' = Pushes(IF end THEN 0 ELSE 1, end)
      BY <2>2 DEF SourcePushesUnasked
    <3>2. \A end \in BOOLEAN : (IF end THEN 0 ELSE 1) \in 0 .. 1
      OBVIOUS
    <3> QED
      BY <3>1, <3>2
  <2> QED
    BY <2>1, <2>2
<1>2. PICK k \in 0 .. 1, end \in BOOLEAN : Gives(k, end) /\ stack' = Pushes(k, end)
  BY <1>1
<1>3. k \in 0 .. 2 /\ k # 2
  OBVIOUS
<1>4. /\ ~source.eof /\ source'.eof = end /\ ~source'.asked /\ source.count \in Nat
      /\ {"asked", "count", "eof", "empty"} \subseteq DOMAIN source' /\ source'.count \in Nat
      /\ UNCHANGED <<r, on, pipe, dest, ticks, client, pushed, delivered, got, emitted>>
  BY <1>2, <1>3, Given
<1> DEFINE c == Pushes(k, end)
<1>5. ArePushes(c, k, end) /\ stack' = c
  BY <1>2, <1>3, <1>4, PushesAre
<1> HIDE DEF c
<1>6. /\ Stacked(c, View') /\ Ahead(c) = <<>> /\ Behind(c) = <<>>
      /\ c # <<>> => ~Closes(c[1])
  <2>1. /\ end => View'.source.eof
        /\ View'.unasked \/ ~View'.source.asked \/ View'.r.ended
    BY <1>4 DEF View
  <2> QED
    BY <1>3, <1>5, <2>1, PushesStacked
<1>7. source'.eof => r.ended \/ HasEnd(c)
  BY <1>4, <1>5 DEF ArePushes
<1> QED
  BY <1>1, <1>4, <1>5, <1>6, <1>7, OutsideStep

LEMMA LateStep == ASSUME Inv, SourcePushesLate PROVE Inv'
<1> DEFINE f == PushOf(<<source.count + 1>>)
           c == <<f>>
<1>1. /\ stack = <<>> /\ source.eof /\ stack' = c /\ source' = [source EXCEPT !.count = @ + 1]
      /\ UNCHANGED <<r, on, pipe, ticks, client, pushed, delivered, emitted>>
  BY DEF SourcePushesLate, log
<1>2. r.ended /\ source.count \in Nat /\ {"asked", "count", "eof", "empty"} \subseteq DOMAIN source
  BY <1>1, Still DEF Inv, Others
<1>3. /\ source'.count \in Nat /\ source'.eof /\ source'.asked = source.asked
      /\ {"asked", "count", "eof", "empty"} \subseteq DOMAIN source'
  BY <1>1, <1>2
<1>4. f \in Frame /\ f.fn = "push" /\ ~f.called
  <2>1. \A n \in Nat : <<n + 1>> \in Seq(Nat)
    OBVIOUS
  <2>2. <<source.count + 1>> \in Seq(Nat)
    BY <1>2, <2>1
  <2> QED
    BY <2>2, PushFrame
<1> HIDE DEF f
<1>5. c \in Seq(Frame) /\ DOMAIN c = {1} /\ c[1] = f /\ Len(c) = 1
  BY <1>4
<1> HIDE DEF c
<1>6. Fits(f, View')
  BY <1>1, <1>2, <1>3, <1>4 DEF Fits, View, OfDest, IsEnd, IsChunk
<1>7. Stacked(c, View')
  BY <1>5, <1>6 DEF Stacked, Shape
<1>8. Ahead(c) = <<>> /\ Behind(c) = <<>> /\ ~Closes(c[1])
  BY <1>4, <1>5 DEF Ahead, Behind, Closes
<1> QED
  BY <1>1, <1>2, <1>3, <1>7, <1>8, OutsideStep

LEMMA DestStep == ASSUME Inv, NEW d \in Dest, DestDrains(d) \/ DestFinishes(d) PROVE Inv'
<1>1. /\ stack = <<>>
      /\ stack' = <<>> \/ stack' = <<For("ondrain", d)>> \/ stack' = <<For("unpipe", d)>>
      /\ UNCHANGED <<r, on, pipe, ticks, source, client, pushed, delivered, emitted>>
  BY DEF DestDrains, DestFinishes, Elsewhere, log
<1>2. AllFree(stack')
  BY <1>1, Short, Frees DEF OfDest
<1>3. /\ Stacked(stack', View') /\ Ahead(stack') = <<>> /\ Behind(stack') = <<>>
      /\ stack' # <<>> => ~Closes(stack'[1])
  BY <1>2, FreeStacked
<1>4. /\ {"asked", "count", "eof", "empty"} \subseteq DOMAIN source' /\ source'.count \in Nat
      /\ source'.eof => r.ended
  BY <1>1, Still DEF Inv, Others
<1> QED
  BY <1>1, <1>3, <1>4, OutsideStep

LEMMA RunTickStep == ASSUME Inv, RunTick PROVE Inv'
<1> DEFINE f == Head(ticks)
           c == <<f>>
<1>1. /\ stack = <<>> /\ ticks # <<>> /\ stack' = c /\ ticks' = Tail(ticks)
      /\ UNCHANGED <<r, on, pipe, source, client, pushed, delivered, emitted>>
  BY DEF RunTick, World, log
<1>2. ticks \in Seq(Frame) /\ \A i \in DOMAIN ticks : TickFits(ticks[i], r.ended)
  BY DEF Inv, TicksFit
<1>3. /\ ticks' \in Seq(Frame) /\ f = ticks[1] /\ Len(ticks) \in Nat \ {0} /\ DOMAIN ticks = 1 .. Len(ticks)
      /\ DOMAIN ticks' = 1 .. Len(ticks) - 1
      /\ \A i \in 1 .. Len(ticks) - 1 : ticks'[i] = ticks[i + 1]
  <2>1. ticks' \in Seq(Frame) /\ f = ticks[1]
    BY <1>1, <1>2, Below
  <2>2. Len(ticks) \in Nat \ {0} /\ DOMAIN ticks = 1 .. Len(ticks) /\ DOMAIN ticks' = 1 .. Len(ticks) - 1
    BY <1>1, <1>2, Below
  <2>3. \A i \in 1 .. Len(ticks) - 1 : ticks'[i] = ticks[i + 1]
    BY <1>1, <1>2, Below
  <2> QED
    BY <2>1, <2>2, <2>3
<1> HIDE DEF f
<1>4. TickFits(f, r.ended)
  BY <1>2, <1>3
<1>5. c \in Seq(Frame) /\ DOMAIN c = {1} /\ c[1] = f /\ Len(c) = 1 /\ c # <<>>
  BY <1>4 DEF TickFits
<1> HIDE DEF c
<1>6. Fits(f, View')
  BY <1>1, <1>4 DEF TickFits, InTicks, Fits, View, OfDest, IsEnd, IsChunk
<1>7. Stacked(stack', View')
  BY <1>1, <1>5, <1>6 DEF Stacked, Shape
<1>8. Ahead(stack') = <<>> /\ Behind(stack') = <<>>
  <2>1. ~(Len(c) > 1)
    BY <1>5
  <2>2. c[1].fn \notin {"data", "addChunk"} /\ ~(Len(c) > 1)
    <3>1. f.fn \notin {"data", "addChunk"}
      BY <1>4 DEF TickFits, InTicks
    <3> QED
      BY <1>5, <2>1, <3>1
  <2>3. Ahead(c) = <<>>
    BY <2>2 DEF Ahead
  <2>4. Behind(c) = <<>>
    BY <2>2 DEF Behind
  <2> QED
    BY <1>1, <2>3, <2>4
<1>9. ASSUME NEW i \in DOMAIN ticks'
      PROVE  i + 1 \in DOMAIN ticks /\ i + 1 # 1 /\ ticks'[i] = ticks[i + 1]
  BY <1>3
<1>10. TicksFit(ticks', r'.ended)
  BY <1>1, <1>2, <1>3, <1>9 DEF TicksFit
<1>11. Closing'
  <2>1. ClosesOnce
    BY DEF Inv, Closing
  <2>2. ASSUME NEW i \in DOMAIN ticks', Closes(ticks'[i])
        PROVE  /\ r.destroyed /\ ~r.closeEmitted
               /\ \A j \in DOMAIN ticks' : Closes(ticks'[j]) => i = j
    <3>1. \A j \in DOMAIN ticks' : Closes(ticks'[j]) => i + 1 = j + 1
      BY <1>9, <2>1, <2>2 DEF ClosesOnce
    <3>2. \A j \in DOMAIN ticks' : i + 1 = j + 1 => i = j
      BY <1>3
    <3> QED
      BY <1>9, <2>1, <2>2, <3>1, <3>2 DEF ClosesOnce
  <2>3. ClosesNow' => r.destroyed /\ ~r.closeEmitted /\ \A j \in DOMAIN ticks' : ~Closes(ticks'[j])
    <3>1. ClosesNow' => Closes(ticks[1]) /\ 1 \in DOMAIN ticks
      BY <1>1, <1>3, <1>5 DEF ClosesNow
    <3> QED
      BY <1>9, <2>1, <3>1 DEF ClosesOnce
  <2> QED
    BY <1>1, <2>1, <2>2, <2>3 DEF Closing, ClosesOnce
<1>12. Fields' /\ Heard' /\ Others' /\ PipesFit' /\ EndFits'
  BY <1>1 DEF Inv, Fields, Heard, Others, PipesFit, EndFits, EventsInOrder
<1>13. SourceFits' /\ Ledger'
  BY <1>1, <1>8, Still, LedgerOf DEF Inv, SourceFits, Unasked, Ledger
<1> QED
  BY <1>7, <1>10, <1>11, <1>12, <1>13 DEF Inv

-----------------------------------------------------------------------------
(* The client.                                                              *)

\* A call is made from the top level or from a listener: nothing waits for it
\* between a call of _read and its return.
LEMMA UserUnder ==
    ASSUME Inv, stack = <<>> \/ Runs("user")
    PROVE  /\ Under(stack, FALSE, r.sync) /\ \A i \in DOMAIN stack : Fits(stack[i], View)
           /\ delivered \o r.buffer = pushed
<1>1. /\ stack \in Seq(Frame) /\ \A i \in DOMAIN stack : Fits(stack[i], View)
      /\ DOMAIN stack = 1 .. Len(stack) /\ Len(stack) \in Nat
  BY LenProperties DEF Inv, Stacked, Shape
<1>2. delivered \o r.buffer = pushed
  BY Still, NothingOnItsWay DEF Runs
<1>3. ASSUME NEW i \in DOMAIN stack
      PROVE  stack[i].fn \notin TopOnly \cup {"data", "take"} /\ ~IsChunk(stack[i])
  <2>1. stack # <<>>
    BY <1>3
  <2>2. stack[1].fn = "user"
    BY <2>1, Topmost DEF Runs
  <2>3. CASE i = 1
    BY <2>2, <2>3 DEF TopOnly, IsChunk
  <2>4. CASE i # 1
    <3>1. 1 \in 1 .. i - 1
      BY <1>1, <2>4
    <3> QED
      BY <2>2, <2>4, <3>1 DEF Inv, Stacked, Shape, Quick
  <2> QED
    BY <2>3, <2>4
<1>4. Under(stack, FALSE, r.sync)
  BY <1>1, <1>3 DEF Under
<1> QED
  BY <1>1, <1>2, <1>4

LEMMA CallStep ==
    ASSUME Inv, stack = <<>> \/ Runs("user"), NEW f \in Frame, Fits(f, View),
           f.fn \notin {"data", "addChunk", "emitCloseNT"}, stack' = <<f>> \o stack,
           client' = [client EXCEPT !.calls = @ + 1],
           UNCHANGED <<r, on, pipe, ticks, source, pushed, delivered, emitted>>
    PROVE  Inv'
<1> DEFINE c == <<f>>
<1>1. /\ {"is", "calls"} \subseteq DOMAIN client' /\ client'.is = client.is
      /\ View' = View /\ View'.r = r
  BY DEF Inv, Others, View, Unasked
<1>2. c \in Seq(Frame) /\ DOMAIN c = {1} /\ c[1] = f /\ Len(c) = 1 /\ c # <<>> /\ stack' = c \o stack
  OBVIOUS
<1> HIDE DEF c
<1>3. Stacked(c, View')
  BY <1>1, <1>2 DEF Stacked, Shape
<1>4. Ahead(c) = <<>> /\ Behind(c) = <<>> /\ ~Closes(c[1])
  BY <1>2 DEF Ahead, Behind, Closes
<1>5. Under(stack, FALSE, View'.r.sync) /\ \A i \in DOMAIN stack : Fits(stack[i], View')
  BY <1>1, UserUnder
<1>6. /\ Stacked(stack', View')
      /\ Ahead(stack') = Ahead(c) /\ Behind(stack') = Behind(c)
      /\ HasEnd(stack) \/ HasEnd(c) => HasEnd(stack')
      /\ stack' # <<>> /\ Closes(stack'[1]) => c # <<>> /\ Closes(c[1])
  BY <1>2, <1>3, <1>5, Joined
<1>7. Fields' /\ Heard' /\ Others' /\ PipesFit' /\ EndFits'
  BY <1>1 DEF Inv, Fields, Heard, Others, PipesFit, EndFits, EventsInOrder
<1>8. SourceFits'
  BY <1>1, <1>6 DEF Inv, SourceFits, Unasked
<1>9. Closing' /\ TicksFit(ticks', r'.ended)
  BY <1>4, <1>6 DEF Inv, Closing, ClosesOnce, ClosesNow, TicksFit
<1>10. Ledger'
  <2>1. delivered \in Seq(Nat) /\ r.buffer \in Seq(Nat)
    BY DEF Inv, Fields, Others
  <2>2. delivered \o <<>> \o r.buffer \o <<>> = pushed
    BY <2>1, UserUnder, LedgerOf
  <2> QED
    BY <1>4, <1>6, <2>2 DEF Ledger
<1> QED
  BY <1>6, <1>7, <1>8, <1>9, <1>10 DEF Inv

\* What a call puts on the stack.
Called(f) == f \in Frame /\ Fits(f, View) /\ f.fn \notin {"data", "addChunk", "emitCloseNT"}

LEMMA CallsStep ==
    ASSUME Inv, NEW call, NEW f, Called(f), Calls(call, f)
    PROVE  Inv'
  BY CallStep DEF Calls, MayCall, Called, log

LEMMA FreeCalled == ASSUME NEW f, Free(f) PROVE Called(f)
  BY FreeFits DEF Called, Free, TopOnly

\* Pieces that only the client puts there.
LEMMA CallFrames ==
    /\ \A f \in {"on readable", "off readable", "unpipe all"} : Free(Do(f))
    /\ Free(For("off data", "user"))
<1>1. {"on readable", "off readable", "unpipe all", "off data"} \subseteq Pieces
  BY DEF Pieces
<1>2. ASSUME NEW f \in {"on readable", "off readable", "unpipe all"} PROVE Free(Do(f))
  <2>1. Do(f) \in Frame /\ Do(f).fn = f
    <3>1. f \in Pieces
      BY <1>1
    <3> QED
      BY <3>1, Frames
  <2> QED
    BY <1>2, <2>1 DEF Free, TopOnly, OfDest
<1>3. Free(For("off data", "user"))
  <2>1. "off data" \in Pieces /\ "user" \in Dest \cup {"user"}
    BY <1>1
  <2>2. For("off data", "user") \in Frame /\ For("off data", "user").fn = "off data"
    BY <2>1, FrameFor
  <2> QED
    BY <2>2 DEF Free, TopOnly, OfDest
<1> QED
  BY <1>2, <1>3

LEMMA ListensStep == ASSUME Inv, ClientListens PROVE Inv'
<1>1. /\ Called(For("on data", "user")) /\ Called(For("off data", "user"))
      /\ Called(Do("on readable")) /\ Called(Do("off readable"))
  BY FreeCalled, CallFrames, Frees
<1> QED
  BY <1>1, CallsStep DEF ClientListens

LEMMA ReadsStep == ASSUME Inv, ClientReads PROVE Inv'
<1>1. Called(Read(NaN)) /\ Called(Read(1))
  BY FreeCalled, Frees
<1>2. ASSUME delivered # <<>>
      PROVE  Called([Do("unshift") EXCEPT !.data = <<Last(delivered)>>])
  <2> DEFINE f == [Do("unshift") EXCEPT !.data = <<Last(delivered)>>]
  <2>1. delivered \in Seq(Nat)
    BY DEF Inv, Others
  <2>2. Last(delivered) \in Nat
    BY <1>2, <2>1, LastBack
  <2>3. <<Last(delivered)>> \in Seq(Nat) /\ "unshift" \in Pieces
    BY <2>2 DEF Pieces
  <2>4. f \in Frame /\ f.fn = "unshift" /\ f.data = <<Last(delivered)>>
    <3> DEFINE b == <<Last(delivered)>>
    <3>1. b \in Seq(Nat)
      BY <2>3
    <3> HIDE DEF b
    <3>2. [Do("unshift") EXCEPT !.data = b] \in Frame
      BY <2>3, <3>1, Frames
    <3>3. [Do("unshift") EXCEPT !.data = b].fn = "unshift" /\ [Do("unshift") EXCEPT !.data = b].data = b
      BY DEF Do
    <3> QED
      BY <3>2, <3>3 DEF b
  <2> HIDE DEF f
  <2>5. Called(f)
    BY <1>2, <2>4 DEF Called, Fits, View, OfDest, IsEnd, IsChunk
  <2> QED
    BY <2>5 DEF f
<1> QED
  BY <1>1, <1>2, CallsStep DEF ClientReads

LEMMA PausesStep == ASSUME Inv, ClientPauses PROVE Inv'
<1>1. Called(Do("pause")) /\ Called(Do("resume"))
  BY FreeCalled, Frees DEF Calm
<1> QED
  BY <1>1, CallsStep DEF ClientPauses

LEMMA PipesStep == ASSUME Inv, ClientPipes PROVE Inv'
<1>1. ASSUME NEW d \in Dest PROVE Called(For("unpipe", d))
  BY FreeCalled, Frees DEF OfDest
<1>2. ASSUME NEW d \in Dest, ~pipe[d].used PROVE Called(For("pipe", d))
  <2> DEFINE f == For("pipe", d)
  <2>1. "pipe" \in Pieces /\ d \in Dest \cup {"user"}
    BY DEF Pieces
  <2>2. f \in Frame /\ f.fn = "pipe" /\ f.who = d
    BY <2>1, FrameFor
  <2> HIDE DEF f
  <2>3. Called(f)
    BY <1>2, <2>2 DEF Called, Fits, View, OfDest, IsEnd, IsChunk
  <2> QED
    BY <2>3 DEF f
<1>3. Called(Do("unpipe all"))
  BY FreeCalled, CallFrames
<1> QED
  BY <1>1, <1>2, <1>3, CallsStep DEF ClientPipes

LEMMA DestroysStep == ASSUME Inv, ClientDestroys PROVE Inv'
<1>1. \A n \in {0, 1} : Called([Do("destroy") EXCEPT !.n = n])
  BY FreeCalled, Frees
<1> QED
  BY <1>1, CallsStep DEF ClientDestroys

LEMMA DestroysDestStep == ASSUME Inv, ClientDestroysDest PROVE Inv'
<1>1. PICK d \in Dest : /\ client' = [client EXCEPT !.calls = @ + 1]
                        /\ ticks' = Append(ticks, For("dest closes", d))
                        /\ UNCHANGED <<r, on, pipe, stack, source, pushed, delivered, emitted>>
  BY DEF ClientDestroysDest, Later, log
<1>2. /\ {"is", "calls"} \subseteq DOMAIN client' /\ client'.is = client.is /\ View' = View
  BY <1>1 DEF Inv, Others, View, Unasked
<1>3. TickFits(For("dest closes", d), r'.ended) /\ ~Closes(For("dest closes", d))
  <2>1. "dest closes" \in Pieces /\ d \in Dest \cup {"user"}
    BY DEF Pieces
  <2>2. /\ For("dest closes", d) \in Frame /\ For("dest closes", d).fn = "dest closes"
        /\ For("dest closes", d).who = d
    BY <2>1, FrameFor
  <2> QED
    BY <2>2 DEF TickFits, InTicks, Closes
<1>4. TicksFit(ticks', r'.ended) /\ ClosesOnce'
  <2>1. TicksMay
    BY <1>1, <1>3 DEF TicksMay
  <2> QED
    BY <1>1, <2>1, TicksStep
<1>5. Closing'
  <2>1. ASSUME ClosesNow' PROVE \A j \in DOMAIN ticks' : ~Closes(ticks'[j])
    <3>1. ticks \in Seq(Frame) /\ For("dest closes", d) \in Frame
      BY <1>3 DEF Inv, TicksFit, TickFits
    <3> DEFINE e == For("dest closes", d)
    <3>2. e \in Frame /\ ticks' = Append(ticks, e) /\ ~Closes(e)
      BY <1>1, <1>3, <3>1
    <3> HIDE DEF e
    <3>3. \A i \in DOMAIN ticks' : ticks'[i] = e \/ \E j \in DOMAIN ticks : ticks'[i] = ticks[j]
      <4>1. /\ ticks \in Seq(Frame) /\ e \in Frame /\ ticks' = Append(ticks, e)
        BY <3>1, <3>2
      <4>2. Len(ticks') = Len(ticks) + 1 /\ ticks' \in Seq(Frame)
        BY <4>1, AppendProperties
      <4>3. Len(ticks) \in Nat /\ DOMAIN ticks = 1 .. Len(ticks) /\ DOMAIN ticks' = 1 .. Len(ticks')
        BY <4>1, <4>2, LenProperties
      <4>4. ticks'[Len(ticks) + 1] = e
        BY <4>1, AppendProperties
      <4>5. \A i \in 1 .. Len(ticks) : ticks'[i] = ticks[i]
        BY <4>1, AppendProperties
      <4> QED
        BY <4>2, <4>3, <4>4, <4>5
    <3>4. \A j \in DOMAIN ticks : ~Closes(ticks[j])
      BY <1>1, <2>1 DEF Inv, Closing, ClosesNow
    <3> QED
      BY <3>2, <3>3, <3>4
  <2> QED
    BY <1>1, <1>4, <2>1 DEF Inv, Closing, ClosesNow
<1>6. Fields' /\ Heard' /\ Others' /\ PipesFit' /\ EndFits' /\ SourceFits'
  <2>1. Fields' /\ Heard' /\ Others' /\ PipesFit'
    BY <1>1, <1>2 DEF Inv, Fields, Heard, Others, PipesFit
  <2>2. EndFits'
    BY <1>1 DEF Inv, EndFits, EventsInOrder
  <2>3. SourceFits'
    BY <1>1, <1>2 DEF Inv, SourceFits, Unasked, HasEnd
  <2> QED
    BY <2>1, <2>2, <2>3
<1>7. Stacked(stack', View') /\ Ledger'
  BY <1>1, <1>2 DEF Inv, Ledger
<1> QED
  BY <1>4, <1>5, <1>6, <1>7 DEF Inv

-----------------------------------------------------------------------------
(* The invariant.                                                           *)

LEMMA Initially == ASSUME Init PROVE Inv
<1>1. /\ stack = <<>> /\ ticks = <<>> /\ r.buffer = <<>> /\ r.pipes = <<>>
      /\ pushed = <<>> /\ delivered = <<>> /\ emitted = <<>> /\ on.data = <<>> /\ on.end = <<>>
      /\ ~r.ended /\ ~r.endEmitted /\ ~r.closeEmitted /\ ~source.eof /\ ~source.asked
      /\ r.awaiting = {} /\ r.flowing = Unset /\ r.paused = Unset /\ source.count = 0
  BY DEF Init
<1>2. \A S : <<>> \in Seq(S)
  BY EmptySeq
<1>3. DOMAIN <<>> = {} /\ Len(<<>>) = 0
  OBVIOUS
<1>4. Fields
  BY <1>1, <1>2 DEF Init, Fields
<1>5. Heard /\ Others
  BY <1>1, <1>2 DEF Init, Heard, Others
<1>6. PipesFit
  <2>1. IsInjective(r.pipes) /\ ~(Len(r.pipes) > 1)
    BY <1>1, <1>3 DEF IsInjective
  <2>2. /\ DOMAIN pipe = Dest
        /\ \A d \in Dest : {"used", "cleanedUp", "ondrain", "hears"} \subseteq DOMAIN pipe[d]
    BY DEF Init
  <2> QED
    BY <1>1, <1>3, <2>1, <2>2 DEF PipesFit
<1>7. SourceFits
  BY <1>1 DEF SourceFits
<1>8. EndFits
  <2>1. Range(emitted) = {}
    BY <1>1, <1>3 DEF Range
  <2> QED
    BY <1>1, <1>3, <2>1 DEF EndFits, EventsInOrder
<1>9. Closing
  BY <1>1, <1>3 DEF Closing, ClosesOnce, ClosesNow
<1>10. Stacked(stack, View) /\ TicksFit(ticks, r.ended)
  BY <1>1, <1>2, <1>3 DEF Stacked, Shape, TicksFit
<1>11. Ledger
  <2>1. Ahead(stack) = <<>> /\ Behind(stack) = <<>>
    BY <1>1, <1>3 DEF Ahead, Behind
  <2>2. <<>> \o <<>> \o <<>> \o <<>> = <<>>
    BY <1>2, LedgerOf, ConcatEmptySeq
  <2> QED
    BY <1>1, <2>1, <2>2 DEF Ledger
<1> QED
  BY <1>4, <1>5, <1>6, <1>7, <1>8, <1>9, <1>10, <1>11 DEF Inv

LEMMA Steps == ASSUME Inv, [Next]_vars PROVE Inv'
<1>1. CASE StreamStep
  <2>1. CASE \/ RunTick \/ ListenerReturns \/ Onreadable \/ StartRead \/ Take \/ EmitData \/ Flow
             \/ Push \/ Unshift \/ AddChunk
    BY <2>1, RunTickStep, ListenerReturnsStep, OnreadableStep, StartReadStep, TakeStep,
       EmitDataStep, FlowStep, PushStep, UnshiftStep, AddChunkStep
  <2>2. CASE \/ EmitReadable \/ EmitReadable_ \/ ReadableEmitted \/ ReadableAgain
             \/ MaybeReadMore \/ ReadMore \/ EndReadable \/ EndReadableNT
             \/ Resume \/ Resume_ \/ Resumed \/ Flowed \/ Pause
    BY <2>2, EmitReadableStep, EmitReadable_Step, ReadableEmittedStep, ReadableAgainStep,
       MaybeReadMoreStep, ReadMoreStep, EndReadableStep, EndReadableNTStep,
       ResumeStep, Resume_Step, ResumedStep, FlowedStep, PauseStep
  <2>3. CASE \/ OnData \/ OffData \/ OnReadable \/ OffReadable \/ UpdateReadableListening
             \/ Pipe \/ Piped \/ PausePipe \/ OndataRefused \/ OndataTaken \/ PipeOnDrain
    BY <2>3, OnDataStep, OffDataStep, OnReadableStep, OffReadableStep, UpdateStep,
       PipeStep, PipedStep, PausePipeStep, OndataSteps, PipeOnDrainStep
  <2>4. CASE \/ Unpipe \/ UnpipeAll \/ Cleanup \/ Onend \/ Destroy \/ EmitClose \/ DestCloses
             \/ SourceAnswersAtOnce \/ SourceKeeps
    BY <2>4, UnpipeStep, UnpipeAllStep, CleanupStep, OnendStep, DestroyStep, EmitCloseStep,
       DestClosesStep, AtOnceStep, KeepsStep
  <2> QED
    BY <1>1, <2>1, <2>2, <2>3, <2>4 DEF StreamStep
<1>2. CASE Outside
  BY <1>2, LaterStep, LateStep, DestStep DEF Outside
<1>3. CASE ClientStep
  BY <1>3, ListensStep, ReadsStep, PausesStep, PipesStep, DestroysStep, DestroysDestStep
  DEF ClientStep
<1>4. CASE UNCHANGED vars
  <2>1. UNCHANGED <<r, on, pipe, stack, ticks, source, client, pushed, delivered, emitted>>
    BY <1>4 DEF vars, log
  <2>2. View' = View /\ Unasked' = Unasked
    BY <2>1 DEF View, Unasked
  <2>3. Fields' /\ Heard' /\ Others' /\ PipesFit'
    BY <2>1 DEF Inv, Fields, Heard, Others, PipesFit
  <2>4. SourceFits' /\ EndFits' /\ Closing'
    BY <2>1, <2>2 DEF Inv, SourceFits, HasEnd, EndFits, EventsInOrder, Closing, ClosesOnce, ClosesNow
  <2>5. Stacked(stack', View') /\ TicksFit(ticks', r'.ended) /\ Ledger'
    BY <2>1, <2>2 DEF Inv, Ledger
  <2> QED
    BY <2>3, <2>4, <2>5 DEF Inv
<1> QED
  BY <1>1, <1>2, <1>3, <1>4 DEF Next, Rest

LEMMA Always == Spec => []Inv
  BY Initially, Steps, PTL DEF Spec

\* The types, and that awaitDrainWriters is a set only when it is marked as
\* one, in every state of every run (the shapes of the records of Readable, and
\* multiAwaitDrain of pipe).
THEOREM Types == Spec => []TypeOK
<1>1. ASSUME Inv PROVE TypeOK
  <2>1. Range(stack) \cup Range(ticks) \subseteq Frame
    <3>1. stack \in Seq(Frame) /\ ticks \in Seq(Frame)
      BY <1>1 DEF Inv, Stacked, Shape, TicksFit
    <3>2. \A s \in Seq(Frame) : Range(s) \subseteq Frame
      BY ElementOfSeq, LenProperties DEF Range
    <3> QED
      BY <3>1, <3>2
  <2>2. Range(r.pipes) \subseteq Dest
    <3>1. r.pipes \in Seq(Dest)
      BY <1>1 DEF Inv, Fields
    <3>2. \A s \in Seq(Dest) : Range(s) \subseteq Dest
      BY ElementOfSeq, LenProperties DEF Range
    <3> QED
      BY <3>1, <3>2
  <2>3. ~r.multi => Cardinality(r.awaiting) <= 1
    <3>1. \A d : Cardinality({d}) = 1
      BY FS_Singleton
    <3>2. Cardinality({}) = 0
      BY FS_EmptySet
    <3>3. r.multi \/ r.awaiting = {} \/ \E d \in Dest : r.awaiting = {d}
      BY <1>1 DEF Inv, PipesFit
    <3>4. r.awaiting = {} => Cardinality(r.awaiting) <= 1
      BY <3>2
    <3>5. ASSUME NEW d \in Dest, r.awaiting = {d} PROVE Cardinality(r.awaiting) <= 1
      <4>1. Cardinality(r.awaiting) = 1
        BY <3>1, <3>5
      <4> QED
        BY <4>1
    <3> QED
      BY <3>3, <3>4, <3>5
  <2> QED
    BY <1>1, <2>1, <2>2, <2>3 DEF Inv, Fields, PipesFit, TypeOK
<1> QED
  BY <1>1, Always, PTL

\* Between two handlers every chunk that push accepted has been given out, once
\* and in order, or is in the buffer (readableAddChunk, addChunk, read and
\* fromList, with unshift and whatever listeners call in between).
THEOREM KeepsEveryChunk == Spec => []NothingLostOrRepeated
<1>1. ASSUME Inv PROVE NothingLostOrRepeated
  BY <1>1, Still DEF NothingLostOrRepeated
<1> QED
  BY <1>1, Always, PTL

\* 'end' comes after the source's end and every chunk, and 'end', 'error' and
\* 'close' come once and in order (endReadable, endReadableNT, destroy).
THEOREM EndsProperly == Spec => []EndsWell
<1>1. ASSUME Inv, r.endEmitted PROVE source.eof /\ r.buffer = <<>> /\ delivered = pushed
  <2>1. source.eof /\ r.buffer = <<>> /\ delivered \in Seq(Nat) /\ <<>> \in Seq(Nat)
    BY <1>1, EmptySeq DEF Inv, EndFits, SourceFits, Others
  <2>2. \A i \in DOMAIN stack : stack[i].fn \notin {"data", "addChunk"}
    BY <1>1 DEF Inv, Stacked, Fits, View
  <2>3. /\ stack \in Seq(Frame) /\ DOMAIN stack = 1 .. Len(stack) /\ Len(stack) \in Nat
        /\ stack # <<>> => 1 \in DOMAIN stack
    <3>1. stack \in Seq(Frame)
      BY <1>1 DEF Inv, Stacked, Shape
    <3> QED
      BY <3>1, LenProperties, EmptySeq
  <2>4. Ahead(stack) = <<>>
    <3>1. stack # <<>> => stack[1].fn \notin {"data", "addChunk"}
      BY <2>2, <2>3
    <3>2. Len(stack) > 1 => stack[2].fn # "data"
      BY <2>2, <2>3
    <3> QED
      BY <3>1, <3>2 DEF Ahead
  <2>5. Behind(stack) = <<>>
    BY <2>2, <2>3 DEF Behind
  <2>6. delivered \o <<>> \o <<>> \o <<>> = pushed
    BY <1>1, <2>1, <2>4, <2>5 DEF Inv, Ledger
  <2> QED
    BY <2>1, <2>6, LedgerOf, ConcatEmptySeq
<1>2. ASSUME Inv PROVE EndsWell
  BY <1>1, <1>2 DEF EndsWell, EndComesLast, Inv, EndFits
<1> QED
  BY <1>2, Always, PTL

\* A source that pushes only when asked is not asked again before it has
\* answered (state.reading in read and in readableAddChunk).
THEOREM AsksOnce == Spec => []OneReadAtATime
<1>1. ASSUME Inv PROVE OneReadAtATime
  BY <1>1, Topmost DEF OneReadAtATime, Runs, Fits, View, Unasked
<1> QED
  BY <1>1, Always, PTL

-----------------------------------------------------------------------------
(* Waiting.                                                                 *)

\* Pieces of a stream that flows.
Looping(f) == f.fn \in {"read", "take", "data"} /\ f.loop = "flow"

\* Pieces such as a client that does not override the pause may cause: it
\* reads only what flows.
Leaves(f, may) ==
    /\ f.fn \notin {"off readable", "updateReadableListening"}
    /\ f.fn \in {"read", "take"} => IF f.n = 0 THEN f.fn = "take" => f.m = 0 ELSE f.loop = "flow"
    /\ f.fn = "data" => f.loop = "flow"
    /\ f.fn = "on data" /\ f.who = "user" => "on data" \in may

Sits(f, flows, p, may, over) ==
    /\ Looping(f) => flows
    /\ f.fn \in OfDest \ {"pipe"} => f.who \in Dest /\ p[f.who].used
    /\ f.fn = "on data" => f.who = "user" \/ (f.who \in Dest /\ p[f.who].used)
    /\ f.fn = "pipe" => "pipe" \in may
    /\ over \/ Leaves(f, may)
Sit     == {f \in Frame : Sits(f, Flows, pipe, client.is.may, Overrides)}
TickSit == {f \in Frame : Sits(f, FALSE, pipe, client.is.may, Overrides)}

\* Flow's read is on top.
Slow == {f \in Frame : f.fn = "read" => f.loop # "flow"}
FlowsOnTop(s) == \A i \in DOMAIN s : i # 1 => s[i] \in Slow

\* Who listens is known, and what is known of a destination.
Listener == {x \in Dest \cup {"user"} :
                IF x = "user" THEN Overrides \/ "on data" \in client.is.may ELSE pipe[x].used}
Listeners ==
    /\ on.data \in Seq(Listener) /\ on.end \in Seq({d \in Dest : pipe[d].used})
    /\ DOMAIN dest = Dest
    /\ \A d \in Dest :
          /\ {"status", "needDrain"} \subseteq DOMAIN dest[d]
          /\ dest[d].needDrain \/ dest[d].status # "open" \/ pipe[d].cleanedUp => pipe[d].used
          /\ pipe[d].used => "pipe" \in client.is.may

StaysPaused == "pipe" \notin client.is.may /\ r.paused = "true" => ~Flows

\* The only destination there is: full, or not yet listening.
Alone(d)  == \A e \in Dest \ {d} : ~pipe[e].used
In(s, x)  == \E i \in DOMAIN s : s[i] = x
Once(s, x) == \A i, j \in DOMAIN s : s[i] = x /\ s[j] = x => i = j
Full(d)   == dest[d].needDrain /\ In(on.data, d)
Fresh(d)  == ~dest[d].needDrain /\ ~pipe[d].cleanedUp /\ ~In(on.data, d)
Stops(s)  == s # <<>> /\ s[1].fn \in {"pausePipe", "pause"}

\* The pieces that make the stream flow or write to the destination: where
\* they are, and what is so while they wait.
Backed == {"resume", "ondrain", "on data", "ondata", "piped"}
Beside == {"user", "on data", "off data", "on readable", "resume", "emitReadable", "pause",
           "unpipe", "unpipe all", "cleanup", "destroy", "pipe"}
Placed(s, b) ==
    \A i \in DOMAIN s :
        /\ s[i].fn \in {"resume", "ondrain", "on data"} => i = 1
        /\ s[i].fn = "piped" => i = 1 \/ (i = 2 /\ s[1].fn \in {"on data", "resume"})
        /\ s[i].fn = "ondata" => i = 1 \/ (b /\ \A j \in 1 .. i - 1 : s[j].fn \in Beside)
Bides(f, d, full, need, fresh) ==
    /\ f.fn \in {"resume", "ondrain"} => ~full
    /\ f.fn \in {"ondata", "piped"} => ~need
    /\ f.fn = "on data" /\ f.who = d => fresh
Bide(d) == {f \in Frame : Bides(f, d, Full(d), dest[d].needDrain, Fresh(d))}

Heeds(d) ==
    /\ Full(d) => r.flowing = "false" \/ Stops(stack)
    /\ stack \in Seq(Bide(d)) /\ Placed(stack, "on data" \in client.is.may)
    /\ Once(on.data, d) /\ (pipe[d].cleanedUp => ~In(on.data, d))

Waiting ==
    /\ stack \in Seq(Sit) /\ ticks \in Seq(TickSit) /\ FlowsOnTop(stack)
    /\ Listeners /\ StaysPaused
    /\ ~Overrides => \A d \in Dest : Alone(d) => Heeds(d)

-----------------------------------------------------------------------------
LEMMA EachOf == ASSUME NEW S, NEW s \in Seq(S) PROVE \A i \in DOMAIN s : s[i] \in S
  BY ElementOfSeq, LenProperties

LEMMA Wider == ASSUME NEW S, NEW T, S \subseteq T PROVE Seq(S) \subseteq Seq(T)
<1>1. ASSUME NEW s \in Seq(S) PROVE s \in Seq(T)
  <2>1. \A i \in DOMAIN s : s[i] \in T
    BY ElementOfSeq, LenProperties
  <2> QED
    BY <2>1, OfElements
<1> QED
  BY <1>1

LEMMA Prepended ==
    ASSUME NEW c \in Seq(Frame), NEW u \in Seq(Frame), NEW t, t = c \o u,
           u \in Seq(Slow), c \in Seq(Slow) \/ Len(c) = 1
    PROVE  FlowsOnTop(t) /\ (Stops(c) => Stops(t))
<1>1. /\ Len(c) \in Nat /\ Len(u) \in Nat /\ DOMAIN c = 1 .. Len(c) /\ DOMAIN u = 1 .. Len(u)
      /\ DOMAIN t = 1 .. Len(c) + Len(u)
  BY OnTop
<1>2. \A i \in 1 .. Len(c) : t[i] = c[i]
  BY OnTop
<1>3. \A i \in Len(c) + 1 .. Len(c) + Len(u) : t[i] = u[i - Len(c)]
  BY OnTop
<1>4. \A i \in DOMAIN u : u[i] \in Slow
  BY <1>1, ElementOfSeq
<1>5. \A i \in DOMAIN c : i # 1 => c[i] \in Slow
  <2>1. CASE c \in Seq(Slow)
    BY <1>1, <2>1, ElementOfSeq
  <2>2. CASE Len(c) = 1
    BY <1>1, <2>2
  <2> QED
    BY <2>1, <2>2
<1>6. ASSUME NEW i \in DOMAIN t, i # 1 PROVE t[i] \in Slow
  <2>1. CASE i \in 1 .. Len(c)
    BY <1>1, <1>2, <1>5, <1>6, <2>1
  <2>2. CASE i \in Len(c) + 1 .. Len(c) + Len(u)
    <3>1. i - Len(c) \in DOMAIN u
      BY <1>1, <2>2
    <3> QED
      BY <1>3, <1>4, <2>2, <3>1
  <2> QED
    BY <1>1, <2>1, <2>2
<1>7. Stops(c) => Stops(t)
  <2>1. c # <<>> => 1 \in 1 .. Len(c) /\ 1 \in DOMAIN t
    BY <1>1, EmptySeq
  <2>2. c # <<>> => t[1] = c[1] /\ t # <<>>
    BY <1>2, <2>1
  <2> QED
    BY <2>2 DEF Stops
<1> QED
  BY <1>6, <1>7 DEF FlowsOnTop

\* A step that puts c before u on the stack.
LEMMA Put ==
    ASSUME NEW c, NEW u, stack' = c \o u,
           c \in Seq(Sit'), u \in Seq(Sit'),
           u \in Seq(Slow), c \in Seq(Slow) \/ Len(c) = 1,
           ticks' \in Seq(TickSit'), Listeners', StaysPaused',
           ~Overrides' => \A d \in Dest : Alone(d)' =>
              /\ Full(d)' => r'.flowing = "false" \/ Stops(c)
              /\ c \in Seq(Bide(d)') /\ u \in Seq(Bide(d)')
              /\ Placed(c \o u, "on data" \in client'.is.may)
              /\ Once(on.data, d)' /\ (pipe[d].cleanedUp => ~In(on.data, d))'
    PROVE  Waiting'
<1>1. stack' \in Seq(Sit')
  BY ConcatProperties
<1>2. c \in Seq(Frame) /\ u \in Seq(Frame)
  <2>1. Sit' \subseteq Frame
    BY DEF Sit
  <2> QED
    BY <2>1, Wider
<1>3. FlowsOnTop(stack') /\ (Stops(c) => Stops(stack'))
  BY <1>2, Prepended
<1>4. ASSUME ~Overrides', NEW d \in Dest, Alone(d)' PROVE Heeds(d)'
  <2>1. stack' \in Seq(Bide(d)')
    BY <1>4, ConcatProperties
  <2> QED
    BY <1>3, <1>4, <2>1 DEF Heeds
<1> QED
  BY <1>1, <1>3, <1>4 DEF Waiting

\* What is below the top.
LEMMA BelowTop ==
    ASSUME NEW s \in Seq(Frame), s # <<>>, NEW b, Placed(s, b), s[1].fn \notin Beside
    PROVE  Tail(s) \in Seq({f \in Frame : f.fn \notin Backed})
<1>1. /\ Tail(s) \in Seq(Frame) /\ Len(s) \in Nat \ {0} /\ DOMAIN s = 1 .. Len(s)
      /\ DOMAIN Tail(s) = 1 .. Len(s) - 1
  BY Below
<1>2. \A i \in 1 .. Len(s) - 1 : Tail(s)[i] = s[i + 1]
  BY Below
<1>3. ASSUME NEW i \in DOMAIN Tail(s) PROVE Tail(s)[i] \in {f \in Frame : f.fn \notin Backed}
  <2>1. i + 1 \in DOMAIN s /\ i + 1 # 1 /\ 1 \in 1 .. (i + 1) - 1 /\ Tail(s)[i] = s[i + 1]
    BY <1>1, <1>2, <1>3
  <2>2. /\ s[i + 1].fn \notin {"resume", "ondrain", "on data"}
        /\ s[i + 1].fn = "piped" => s[1].fn \in {"on data", "resume"}
        /\ s[i + 1].fn = "ondata" => s[1].fn \in Beside
    BY <2>1 DEF Placed
  <2>3. s[i + 1].fn \notin Backed
    BY <2>2 DEF Backed, Beside
  <2>4. Tail(s)[i] \in Frame
    BY <1>1, <1>3, ElementOfSeq
  <2> QED
    BY <2>1, <2>3, <2>4
<1> QED
  BY <1>1, <1>3, OfElements

LEMMA TailSlow ==
    ASSUME NEW s \in Seq(Frame), s # <<>>, FlowsOnTop(s) PROVE Tail(s) \in Seq(Slow)
<1>1. /\ Tail(s) \in Seq(Frame) /\ Len(s) \in Nat \ {0} /\ DOMAIN s = 1 .. Len(s)
      /\ DOMAIN Tail(s) = 1 .. Len(s) - 1
  BY Below
<1>2. \A i \in 1 .. Len(s) - 1 : Tail(s)[i] = s[i + 1]
  BY Below
<1>3. ASSUME NEW i \in DOMAIN Tail(s) PROVE Tail(s)[i] \in Slow
  <2>1. i + 1 \in DOMAIN s /\ i + 1 # 1 /\ Tail(s)[i] = s[i + 1]
    BY <1>1, <1>2, <1>3
  <2> QED
    BY <2>1 DEF FlowsOnTop
<1> QED
  BY <1>1, <1>3, OfElements

\* New pieces put on top of what is below.
LEMMA PlacedOn ==
    ASSUME NEW c \in Seq(Frame), NEW u \in Seq({f \in Frame : f.fn \notin Backed}),
           NEW b, Placed(c, b)
    PROVE  Placed(c \o u, b)
<1>1. PICK t : t = c \o u
  OBVIOUS
<1>2. u \in Seq(Frame)
  BY Wider
<1>3. /\ Len(c) \in Nat /\ Len(u) \in Nat /\ DOMAIN c = 1 .. Len(c) /\ DOMAIN u = 1 .. Len(u)
      /\ DOMAIN t = 1 .. Len(c) + Len(u)
  BY <1>1, <1>2, OnTop
<1>4. \A i \in 1 .. Len(c) : t[i] = c[i]
  BY <1>1, <1>2, OnTop
<1>5. \A i \in Len(c) + 1 .. Len(c) + Len(u) : t[i] = u[i - Len(c)]
  BY <1>1, <1>2, OnTop
<1>6. \A i \in DOMAIN u : u[i].fn \notin Backed
  BY <1>3, ElementOfSeq
<1>7. ASSUME NEW i \in DOMAIN t
      PROVE  /\ t[i].fn \in {"resume", "ondrain", "on data"} => i = 1
             /\ t[i].fn = "piped" => i = 1 \/ (i = 2 /\ t[1].fn \in {"on data", "resume"})
             /\ t[i].fn = "ondata" => i = 1 \/ (b /\ \A j \in 1 .. i - 1 : t[j].fn \in Beside)
  <2>1. CASE i \in 1 .. Len(c)
    <3>1. t[i] = c[i] /\ 1 \in 1 .. Len(c) /\ t[1] = c[1] /\ \A j \in 1 .. i - 1 : t[j] = c[j]
      BY <1>3, <1>4, <2>1
    <3> QED
      BY <1>3, <2>1, <3>1 DEF Placed
  <2>2. CASE i \in Len(c) + 1 .. Len(c) + Len(u)
    <3>1. i - Len(c) \in DOMAIN u
      BY <1>3, <2>2
    <3> QED
      BY <1>5, <1>6, <2>2, <3>1 DEF Backed
  <2>3. i \in 1 .. Len(c) \/ i \in Len(c) + 1 .. Len(c) + Len(u)
    BY <1>3, <1>7
  <2> QED
    BY <2>1, <2>2, <2>3
<1> QED
  BY <1>1, <1>7 DEF Placed

IsTail(u, s) == Len(u) = Len(s) - 1 /\ \A i \in 1 .. Len(s) - 1 : u[i] = s[i + 1]

\* What may take the place of f above a piece that waits.
MayStand(c, f) ==
    /\ \A i \in DOMAIN c : c[i].fn \in Beside /\ (c[i].fn \in {"on data", "resume"} => i = 1)
    /\ c # <<>> => /\ f.fn \in Beside \ {"resume"}
                   /\ f.fn = "on data" => Len(c) = 1 /\ c[1].fn = "resume"

LEMMA PlacedBeside ==
    ASSUME NEW c \in Seq(Frame), NEW s \in Seq(Frame), s # <<>>, NEW u \in Seq(Frame),
           IsTail(u, s), NEW b, Placed(s, b), MayStand(c, s[1]), NEW t, t = c \o u
    PROVE  Placed(t, b)
<1>1. Len(s) \in Nat \ {0} /\ DOMAIN s = 1 .. Len(s)
  BY LenProperties, EmptySeq
<1>2. /\ Len(c) \in Nat /\ Len(u) \in Nat /\ DOMAIN c = 1 .. Len(c) /\ DOMAIN u = 1 .. Len(u)
      /\ DOMAIN t = 1 .. Len(c) + Len(u)
  BY OnTop
<1>3. \A i \in 1 .. Len(c) : t[i] = c[i]
  BY OnTop
<1>4. \A i \in Len(c) + 1 .. Len(c) + Len(u) : t[i] = s[i - Len(c) + 1]
  <2>1. \A i \in Len(c) + 1 .. Len(c) + Len(u) : t[i] = u[i - Len(c)]
    BY OnTop
  <2>2. Len(u) = Len(s) - 1 /\ \A i \in 1 .. Len(s) - 1 : u[i] = s[i + 1]
    BY DEF IsTail
  <2>3. \A i \in Len(c) + 1 .. Len(c) + Len(u) : i - Len(c) \in 1 .. Len(s) - 1
    BY <1>1, <1>2, <2>2
  <2> QED
    BY <2>1, <2>2, <2>3
<1>5. c = <<>> => Len(c) = 0
  OBVIOUS
<1>6. \A i \in 1 .. Len(c) : t[i].fn \in Beside /\ (t[i].fn \in {"on data", "resume"} => i = 1)
  BY <1>2, <1>3 DEF MayStand
<1>7. Len(u) = Len(s) - 1
  BY DEF IsTail
<1>8. ASSUME NEW i \in Len(c) + 1 .. Len(c) + Len(u)
      PROVE  /\ t[i].fn \notin {"resume", "ondrain", "on data"}
             /\ t[i].fn = "piped" => i = 1 \/ (i = 2 /\ t[1].fn \in {"on data", "resume"})
             /\ t[i].fn = "ondata" => i = 1 \/ (b /\ \A j \in 1 .. i - 1 : t[j].fn \in Beside)
  <2>1. PICK k : k = i - Len(c) + 1
    OBVIOUS
  <2>2. k \in 1 .. Len(s) /\ k # 1 /\ t[i] = s[k] /\ 1 \in 1 .. k - 1 /\ i = Len(c) + (k - 1)
    BY <1>1, <1>2, <1>4, <1>8, <2>1, <1>7
  <2>3. /\ s[k].fn \notin {"resume", "ondrain", "on data"}
        /\ s[k].fn = "piped" => k = 2 /\ s[1].fn \in {"on data", "resume"}
        /\ s[k].fn = "ondata" => b /\ \A j \in 1 .. k - 1 : s[j].fn \in Beside
    BY <1>1, <2>2 DEF Placed
  <2>4. ASSUME s[k].fn = "piped" PROVE i = 1 \/ (i = 2 /\ t[1].fn \in {"on data", "resume"})
    <3>1. CASE c = <<>>
      <4>1. Len(c) = 0 /\ k = 2
        BY <1>5, <2>3, <2>4, <3>1
      <4> QED
        BY <2>2, <4>1
    <3>2. CASE c # <<>>
      <4>1. Len(c) = 1 /\ c[1].fn = "resume" /\ k = 2
        BY <2>3, <2>4, <3>2 DEF MayStand
      <4>2. 1 \in 1 .. Len(c) /\ i = 2
        BY <2>2, <4>1
      <4> QED
        BY <1>3, <4>1, <4>2
    <3> QED
      BY <3>1, <3>2
  <2>5. ASSUME s[k].fn = "ondata", NEW j \in 1 .. i - 1 PROVE t[j].fn \in Beside
    <3>1. \A l \in 1 .. k - 1 : s[l].fn \in Beside
      BY <2>3, <2>5
    <3>2. CASE j \in 1 .. Len(c)
      BY <1>6, <3>2, Zenon
    <3>3. CASE j \in Len(c) + 1 .. i - 1
      <4>1. j \in Len(c) + 1 .. Len(c) + Len(u) /\ j - Len(c) + 1 \in 1 .. k - 1
        BY <1>2, <1>7, <2>2, <3>3
      <4> QED
        BY <1>4, <3>1, <4>1
    <3> QED
      BY <1>2, <2>2, <3>2, <3>3
  <2> QED
    BY <2>2, <2>3, <2>4, <2>5
<1>9. ASSUME NEW i \in DOMAIN t
      PROVE  /\ t[i].fn \in {"resume", "ondrain", "on data"} => i = 1
             /\ t[i].fn = "piped" => i = 1 \/ (i = 2 /\ t[1].fn \in {"on data", "resume"})
             /\ t[i].fn = "ondata" => i = 1 \/ (b /\ \A j \in 1 .. i - 1 : t[j].fn \in Beside)
  <2>1. i \in 1 .. Len(c) \/ i \in Len(c) + 1 .. Len(c) + Len(u)
    BY <1>2, <1>9
  <2>2. CASE i \in 1 .. Len(c)
    <3>1. t[i].fn \in Beside /\ (t[i].fn \in {"on data", "resume"} => i = 1)
      BY <1>6, <2>2, Zenon
    <3> QED
      BY <3>1 DEF Beside
  <2> QED
    BY <1>8, <2>1, <2>2
<1> QED
  BY <1>9 DEF Placed

-----------------------------------------------------------------------------
(* What waits while the top runs.                                           *)

LEMMA WaitBelow ==
    ASSUME Inv, Waiting, stack # <<>>
    PROVE  /\ stack \in Seq(Frame) /\ Tail(stack) \in Seq(Frame) /\ IsTail(Tail(stack), stack)
           /\ Tail(stack) \in Seq(Slow) /\ Tail(stack) \in Seq(Sit)
           /\ Top = stack[1] /\ Top \in Sit
           /\ \A d \in Dest : ~Overrides /\ Alone(d) => Tail(stack) \in Seq(Bide(d)) /\ Top \in Bide(d)
<1>1. /\ stack \in Seq(Frame) /\ Tail(stack) \in Seq(Frame) /\ Top = stack[1]
  BY Topmost
<1>2. IsTail(Tail(stack), stack)
  <2>1. PICK s \in Seq(Frame) : s = stack
    BY <1>1
  <2>2. s # <<>>
    BY <2>1
  <2>3. Len(Tail(s)) = Len(s) - 1 /\ \A i \in 1 .. Len(Tail(s)) : Tail(s)[i] = s[i + 1]
    BY <2>2, HeadTailProperties
  <2> QED
    BY <2>1, <2>3 DEF IsTail
<1>3. Tail(stack) \in Seq(Slow)
  BY <1>1, TailSlow DEF Waiting
<1>4. Tail(stack) \in Seq(Sit) /\ Top \in Sit
  <2>1. stack \in Seq(Sit)
    BY DEF Waiting
  <2> HIDE DEF Sit
  <2> QED
    BY <2>1, Below DEF Top
<1>5. ASSUME NEW d \in Dest, ~Overrides, Alone(d) PROVE Tail(stack) \in Seq(Bide(d)) /\ Top \in Bide(d)
  <2>1. stack \in Seq(Bide(d))
    BY <1>5 DEF Waiting, Heeds
  <2> QED
    BY <2>1, Below DEF Top
<1> QED
  BY <1>1, <1>2, <1>3, <1>4, <1>5

\* Where _read or a chunk does not wait, nothing does that flows.
LEMMA Unlooped ==
    ASSUME Inv, Waiting, stack # <<>>, Top.fn \notin Quick \cup {"endReadable"}
    PROVE  Tail(stack) \in Seq({f \in Frame : ~Looping(f)})
<1>1. PICK s \in Seq(Frame), u \in Seq(Frame) :
         s = stack /\ u = Tail(stack) /\ IsTail(u, s) /\ s # <<>> /\ s[1] = Top
  BY WaitBelow
<1>2. Shape(s, r.sync) /\ FlowsOnTop(s)
  BY <1>1 DEF Inv, Stacked, Waiting, View
<1>3. /\ Len(s) \in Nat \ {0} /\ DOMAIN s = 1 .. Len(s) /\ DOMAIN u = 1 .. Len(s) - 1
      /\ \A i \in 1 .. Len(s) - 1 : u[i] = s[i + 1]
  BY <1>1, LenProperties, EmptySeq DEF IsTail
<1>4. ASSUME NEW i \in DOMAIN u PROVE u[i] \in {f \in Frame : ~Looping(f)}
  <2>1. i + 1 \in DOMAIN s /\ i + 1 # 1 /\ 1 \in 1 .. (i + 1) - 1 /\ u[i] = s[i + 1]
    BY <1>3, <1>4
  <2>2. /\ s[i + 1].fn = "data" => s[1].fn = "endReadable"
        /\ s[i + 1].fn = "take" => s[1].fn \in Quick
    BY <1>2, <2>1 DEF Shape
  <2>3. s[i + 1] \in Slow
    BY <1>2, <2>1 DEF FlowsOnTop
  <2> QED
    BY <1>1, <2>1, <2>2, <2>3 DEF Slow, Looping
<1>5. u \in Seq({f \in Frame : ~Looping(f)})
  BY <1>4, OfElements
<1> QED
  BY <1>1, <1>5

LEMMA Unbacked ==
    ASSUME Inv, Waiting, stack # <<>>, ~Overrides, NEW d \in Dest, Alone(d), Top.fn \notin Beside
    PROVE  Tail(stack) \in Seq({f \in Frame : f.fn \notin Backed})
<1>1. Placed(stack, "on data" \in client.is.may)
  BY DEF Waiting, Heeds
<1> QED
  BY <1>1, WaitBelow, BelowTop

\* Whatever step: what is so of the pieces that wait stays so.
Same == client'.is = client.is /\ \A d \in Dest : pipe[d].used => pipe'[d].used

LEMMA SitsOn ==
    ASSUME Same
    PROVE  /\ Overrides' = Overrides /\ TickSit \subseteq TickSit' /\ TickSit' \subseteq Sit'
           /\ (Flows => Flows') => Sit \subseteq Sit'
           /\ {f \in Sit : ~Looping(f)} \subseteq Sit'
           /\ \A d \in Dest : Alone(d)' => Alone(d)
<1>1. Overrides' = Overrides
  BY DEF Same, Overrides
<1>2. ASSUME NEW f \in Frame, NEW a \in BOOLEAN, NEW b \in BOOLEAN,
             Sits(f, a, pipe, client.is.may, Overrides), ~Looping(f) \/ (a => b)
      PROVE  Sits(f, b, pipe', client'.is.may, Overrides')
  BY <1>1, <1>2 DEF Same, Sits
<1>3. Flows \in BOOLEAN /\ Flows' \in BOOLEAN
  BY DEF Flows
<1>4. TickSit \subseteq TickSit'
  BY <1>2 DEF TickSit
<1>5. TickSit' \subseteq Sit'
  BY DEF TickSit, Sit, Sits
<1>6. (Flows => Flows') => Sit \subseteq Sit'
  BY <1>2, <1>3 DEF Sit
<1>7. {f \in Sit : ~Looping(f)} \subseteq Sit'
  BY <1>2, <1>3 DEF Sit
<1>8. \A d \in Dest : Alone(d)' => Alone(d)
  BY DEF Alone, Same
<1> QED
  BY <1>1, <1>4, <1>5, <1>6, <1>7, <1>8

Ticking == ticks' = ticks \/ \E e \in TickSit' : ticks' = Append(ticks, e)

LEMMA TicksWait == ASSUME Waiting, Same, Ticking PROVE ticks' \in Seq(TickSit')
<1>1. ticks \in Seq(TickSit')
  BY SitsOn, Wider DEF Waiting
<1>2. ASSUME NEW e \in TickSit', ticks' = Append(ticks, e) PROVE ticks' \in Seq(TickSit')
  BY <1>1, <1>2, AppendProperties
<1> QED
  BY <1>1, <1>2 DEF Ticking

LEMMA PlacedNext ==
    ASSUME Inv, Waiting, stack # <<>>, ~Overrides, NEW d \in Dest, Alone(d), NEW c \in Seq(Frame),
           \/ Top.fn \notin Beside /\ Placed(c, "on data" \in client.is.may)
           \/ MayStand(c, Top)
    PROVE  Placed(c \o Tail(stack), "on data" \in client.is.may)
<1>1. CASE Top.fn \notin Beside /\ Placed(c, "on data" \in client.is.may)
  BY <1>1, Unbacked, PlacedOn
<1>2. CASE MayStand(c, Top)
  <2>1. Placed(stack, "on data" \in client.is.may)
    BY DEF Waiting, Heeds
  <2> QED
    BY <1>2, <2>1, WaitBelow, PlacedBeside
<1> QED
  BY <1>1, <1>2

LEMMA NothingStands == \A f : MayStand(<<>>, f)
  BY DEF MayStand

LEMMA NotPlaced ==
    ASSUME NEW c \in Seq({f \in Frame : f.fn \notin Backed}), NEW b PROVE Placed(c, b)
<1>1. \A i \in DOMAIN c : c[i].fn \notin Backed
  BY ElementOfSeq, LenProperties
<1> QED
  BY <1>1 DEF Placed, Backed

\* Nothing is new to those who wait: neither the destinations nor who listens.
SameDests ==
    /\ DOMAIN dest' = Dest
    /\ \A d \in Dest :
          /\ {"status", "needDrain"} \subseteq DOMAIN dest'[d]
          /\ dest'[d].needDrain = dest[d].needDrain
          /\ dest'[d].status # "open" => pipe[d].used
SameWorld ==
    /\ on'.data = on.data /\ on'.end = on.end /\ pipe' = pipe /\ client'.is = client.is
    /\ SameDests
SameAll == SameWorld /\ r'.flowing = r.flowing

LEMMA BidesOn ==
    ASSUME SameWorld, NEW d \in Dest
    PROVE  /\ Full(d)' = Full(d) /\ Bide(d)' = Bide(d) /\ Alone(d)' = Alone(d)
           /\ Once(on.data, d)' = Once(on.data, d) /\ In(on.data, d)' = In(on.data, d)
<1>1. on'.data = on.data /\ pipe' = pipe /\ dest'[d].needDrain = dest[d].needDrain
  BY DEF SameWorld, SameDests
<1>2. In(on.data, d)' = In(on.data, d) /\ Once(on.data, d)' = Once(on.data, d) /\ Alone(d)' = Alone(d)
  BY <1>1 DEF In, Once, Alone
<1>3. Full(d)' = Full(d) /\ Fresh(d)' = Fresh(d)
  BY <1>1, <1>2 DEF Full, Fresh
<1>4. Bide(d)' = Bide(d)
  BY <1>1, <1>3 DEF Bide
<1> QED
  BY <1>2, <1>3, <1>4

LEMMA ListenOn == ASSUME Waiting, SameWorld PROVE Listeners' /\ Same
<1>1. Overrides' = Overrides /\ Same
  BY DEF SameWorld, Overrides, Same
<1>2. Listener' = Listener
  BY <1>1 DEF Listener, SameWorld
<1>3. Listeners'
  BY <1>2 DEF Waiting, Listeners, SameWorld, SameDests
<1> QED
  BY <1>1, <1>3

\* Most steps put pieces on the stack that do not make the stream flow.
LEMMA Mere ==
    ASSUME Inv, Waiting, stack # <<>>, Top.fn \notin {"pausePipe", "pause"},
           NEW c, stack' = c \o Tail(stack), c \in Seq(Sit'), c \in Seq(Slow) \/ Len(c) = 1,
           \/ c = <<>>
           \/ Top.fn \notin Beside /\ c \in Seq({f \in Frame : f.fn \notin Backed}),
           Ticking, SameAll, r'.paused = r.paused
    PROVE  Waiting'
<1> DEFINE u == Tail(stack)
<1>1. /\ Same /\ Listeners' /\ Overrides' = Overrides
      /\ u \in Seq(Slow) /\ u \in Seq(Sit') /\ ticks' \in Seq(TickSit')
  <2>1. Same /\ Listeners' /\ (Flows => Flows')
    BY ListenOn DEF SameAll, SameWorld, Flows
  <2>2. u \in Seq(Slow) /\ u \in Seq(Sit)
    BY WaitBelow
  <2> QED
    BY <2>1, <2>2, SitsOn, Wider, TicksWait
<1>2. StaysPaused'
  BY DEF Waiting, StaysPaused, SameAll, SameWorld, Flows
<1>3. ASSUME ~Overrides', NEW d \in Dest, Alone(d)'
      PROVE  /\ Full(d)' => r'.flowing = "false" \/ Stops(c)
             /\ c \in Seq(Bide(d)') /\ u \in Seq(Bide(d)')
             /\ Placed(c \o u, "on data" \in client'.is.may)
             /\ Once(on.data, d)' /\ (pipe[d].cleanedUp => ~In(on.data, d))'
  <2>1. ~Overrides /\ Alone(d) /\ Heeds(d)
    BY <1>1, <1>3, BidesOn DEF Waiting, SameAll
  <2>2. Full(d)' => r'.flowing = "false"
    <3>1. ~Stops(stack)
      BY WaitBelow DEF Stops
    <3> QED
      BY <2>1, <3>1, BidesOn DEF Heeds, SameAll, SameWorld
  <2>3. u \in Seq(Bide(d)')
    BY <2>1, WaitBelow, BidesOn DEF SameAll
  <2>4. c \in Seq(Bide(d)')
    <3>1. {f \in Frame : f.fn \notin Backed} \subseteq Bide(d)'
      BY DEF Bide, Bides, Backed
    <3>2. <<>> \in Seq(Bide(d)')
      BY EmptySeq
    <3> QED
      BY <3>1, <3>2, Wider
  <2>5. c \in Seq(Frame)
    <3>1. Sit' \subseteq Frame
      BY DEF Sit
    <3> QED
      BY <3>1, Wider
  <2>6. Placed(c \o u, "on data" \in client.is.may)
    <3>1. MayStand(c, Top) \/ (Top.fn \notin Beside /\ Placed(c, "on data" \in client.is.may))
      BY NothingStands, NotPlaced
    <3> QED
      BY <2>1, <2>5, <3>1, PlacedNext
  <2>7. Once(on.data, d)' /\ (pipe[d].cleanedUp => ~In(on.data, d))'
    BY <2>1, BidesOn DEF Heeds, SameAll, SameWorld
  <2> QED
    BY <2>2, <2>3, <2>4, <2>6, <2>7 DEF SameAll, SameWorld
<1> HIDE DEF u
<1>4. stack' = c \o u
  BY DEF u
<1> QED
  BY <1>1, <1>2, <1>3, <1>4, Put

LEMMA DestroyFrames ==
    \A n \in {0, 1} : /\ [Do("destroy") EXCEPT !.n = n] \in Frame
                      /\ [Do("destroy") EXCEPT !.n = n].fn = "destroy"
<1>1. "destroy" \in Pieces
  BY DEF Pieces
<1> QED
  BY <1>1, Frames, Zenon

\* Pieces that neither flow nor are about a destination or a listener.
Plain == {f \in Frame : f.fn \notin OfDest \cup Backed \cup
             {"read", "take", "data", "off readable", "updateReadableListening"}}
Mild  == Plain \cup {Read(0)}
Tame  == {"_read", "flow", "emitReadable", "emitReadable_", "onreadable", "readableEmitted",
          "readableAgain", "maybeReadMore", "maybeReadMore_", "endReadable", "endReadableNT",
          "user", "resume_", "resumed", "flowed", "pause", "destroy", "emitCloseNT"}

LEMMA Milds ==
    /\ \A f \in Tame : Do(f) \in Mild
    /\ Read(0) \in Mild
    /\ \A n \in {0, 1} : [Do("destroy") EXCEPT !.n = n] \in Mild
    /\ <<>> \in Seq(Mild)
    /\ \A f \in Mild : <<f>> \in Seq(Mild)
    /\ \A f, g \in Mild : <<f, g>> \in Seq(Mild)
    /\ \A a, b \in Seq(Mild) : a \o b \in Seq(Mild)
<1>1. Tame \subseteq Pieces /\ "destroy" \in Pieces
  BY DEF Tame, Pieces
<1>2. ASSUME NEW f \in Tame PROVE Do(f) \in Mild
  <2>1. Do(f) \in Frame /\ Do(f).fn = f
    BY <1>1, Frames
  <2> QED
    BY <2>1 DEF Mild, Plain, Tame, OfDest, Backed
<1>3. ASSUME NEW n \in {0, 1} PROVE [Do("destroy") EXCEPT !.n = n] \in Mild
  <2>1. [Do("destroy") EXCEPT !.n = n] \in Frame /\ [Do("destroy") EXCEPT !.n = n].fn = "destroy"
    BY DestroyFrames
  <2> QED
    BY <2>1 DEF Mild, Plain, OfDest, Backed
<1>4. Read(0) \in Mild
  BY DEF Mild
<1> HIDE DEF Mild
<1> QED
  BY <1>2, <1>3, <1>4, EmptySeq, ConcatProperties

LEMMA MildSits ==
    /\ Mild \subseteq Sit' /\ Mild \subseteq TickSit' /\ Mild \subseteq Slow
    /\ Mild \subseteq {f \in Frame : f.fn \notin Backed}
<1>1. Read(0) \in Frame /\ Read(0).fn = "read" /\ Read(0).n = 0 /\ Read(0).loop = ""
  <2>1. 0 \in -1 .. 1
    OBVIOUS
  <2>2. Read(0) \in Frame /\ Read(0).fn = "read"
    BY <2>1, Frames
  <2> QED
    BY <2>2 DEF Read, Do
<1>2. ASSUME NEW f \in Mild PROVE f \in Frame /\ (\A a, p, may, b : Sits(f, a, p, may, b))
  <2>1. CASE f \in Plain
    BY <2>1 DEF Plain, Sits, Looping, Leaves, Backed, OfDest
  <2>2. CASE f = Read(0)
    BY <1>1, <2>2 DEF Sits, Looping, Leaves, OfDest
  <2> QED
    BY <2>1, <2>2 DEF Mild, Plain
<1>3. Mild \subseteq Slow /\ Mild \subseteq {f \in Frame : f.fn \notin Backed}
  BY <1>1 DEF Mild, Plain, Slow, Backed
<1> QED
  BY <1>2, <1>3 DEF Sit, TickSit

LEMMA MildStep ==
    ASSUME Inv, Waiting, stack # <<>>, Top.fn \notin {"pausePipe", "pause"},
           NEW c \in Seq(Mild), stack' = c \o Tail(stack), c = <<>> \/ Top.fn \notin Beside,
           ticks' = ticks \/ \E e \in Mild : ticks' = Append(ticks, e),
           SameAll, r'.paused = r.paused
    PROVE  Waiting'
<1>1. Ticking
  BY MildSits DEF Ticking
<1>2. c \in Seq(Sit') /\ c \in Seq(Slow) /\ c \in Seq({f \in Frame : f.fn \notin Backed})
  BY MildSits, Wider
<1> QED
  BY <1>1, <1>2, Mere

LEMMA NotANumber == NaN \in -1 .. 1
  BY DEF NaN

LEMMA OneOf == \A S : \A f \in S : <<f>> \in Seq(S)
  OBVIOUS

LEMMA DestsStay == ASSUME Waiting, dest' = dest PROVE SameDests
  BY DEF Waiting, Listeners, SameDests

LEMMA WaitListenerReturns == ASSUME Inv, Waiting, ListenerReturns PROVE Waiting'
<1> USE DEF ListenerReturns, Becomes, Set, Then, World, log, Runs
<1>1. SameAll
  BY DestsStay DEF SameAll, SameWorld
<1> QED
  BY <1>1, Milds, MildStep

LEMMA WaitEmitReadable == ASSUME Inv, Waiting, EmitReadable PROVE Waiting'
<1> USE DEF EmitReadable, Becomes, Set, Then, World, log, Runs, Later
<1>1. SameAll /\ r'.paused = r.paused
  BY DestsStay DEF SameAll, SameWorld, Inv, Fields
<1>2. Do("emitReadable_") \in Mild
  BY Milds DEF Tame
<1> QED
  BY <1>1, <1>2, Milds, MildStep

LEMMA WaitEmitReadable_ == ASSUME Inv, Waiting, EmitReadable_ PROVE Waiting'
<1> USE DEF EmitReadable_, EmitsReadable, Becomes, Set, Then, World, log, Runs
<1>1. SameAll
  BY DestsStay DEF SameAll, SameWorld
<1>2. \E c \in Seq(Mild) : stack' = c \o Tail(stack)
  <2>1. Do("onreadable") \in Mild /\ Do("readableEmitted") \in Mild /\ Do("readableAgain") \in Mild
    BY Milds DEF Tame
  <2>2. /\ <<>> \in Seq(Mild) /\ <<Do("onreadable")>> \in Seq(Mild) /\ <<Do("readableAgain")>> \in Seq(Mild)
        /\ <<Do("readableEmitted"), Do("readableAgain")>> \in Seq(Mild)
    BY <2>1, Milds
  <2>3. (IF on.readable THEN <<Do("onreadable")>> ELSE <<>>)
            \o <<Do("readableEmitted"), Do("readableAgain")>> \in Seq(Mild)
    BY <2>2, Milds
  <2> QED
    BY <2>2, <2>3
<1> QED
  BY <1>1, <1>2, MildStep DEF Beside

LEMMA WaitReadableEmitted == ASSUME Inv, Waiting, ReadableEmitted PROVE Waiting'
<1> USE DEF ReadableEmitted, Becomes, Set, Then, World, log, Runs
<1>1. SameAll /\ r'.paused = r.paused
  BY DestsStay DEF SameAll, SameWorld, Inv, Fields
<1> QED
  BY <1>1, Milds, MildStep

LEMMA WaitReadableAgain == ASSUME Inv, Waiting, ReadableAgain PROVE Waiting'
<1> USE DEF ReadableAgain, Becomes, Set, Then, World, log, Runs
<1>1. SameAll /\ r'.paused = r.paused
  BY DestsStay DEF SameAll, SameWorld, Inv, Fields
<1>2. <<Do("flow")>> \in Seq(Mild)
  BY Milds DEF Tame
<1> QED
  BY <1>1, <1>2, MildStep DEF Beside

LEMMA WaitMaybeReadMore == ASSUME Inv, Waiting, MaybeReadMore PROVE Waiting'
<1> USE DEF MaybeReadMore, Becomes, Set, Then, World, log, Runs, Later
<1>1. SameAll /\ r'.paused = r.paused
  BY DestsStay DEF SameAll, SameWorld, Inv, Fields
<1>2. Do("maybeReadMore_") \in Mild
  BY Milds DEF Tame
<1> QED
  BY <1>1, <1>2, Milds, MildStep

LEMMA WaitReadMore == ASSUME Inv, Waiting, ReadMore PROVE Waiting'
<1> USE DEF ReadMore, Becomes, Set, Then, World, log, Runs
<1>1. SameAll /\ r'.paused = r.paused
  BY DestsStay DEF SameAll, SameWorld, Inv, Fields
<1>2. \E c \in Seq(Mild) : stack' = c \o Tail(stack)
  <2> DEFINE g == [Top EXCEPT !.m = Length, !.called = TRUE]
  <2>1. g \in Mild
    <3>1. Top \in Frame /\ Length \in Nat
      BY Topmost, LenProperties DEF Inv, Fields, Length
    <3>2. [Top EXCEPT !.m = Length] \in Frame
      BY <3>1, FrameKept
    <3>3. [[Top EXCEPT !.m = Length] EXCEPT !.called = TRUE] \in Frame
      BY <3>2, FrameKept
    <3>4. g = [[Top EXCEPT !.m = Length] EXCEPT !.called = TRUE] /\ g.fn = "maybeReadMore_"
      BY <3>1 DEF Frame
    <3> HIDE DEF g
    <3> QED
      BY <3>3, <3>4 DEF Mild, Plain, OfDest, Backed
  <2> HIDE DEF g
  <2>2. <<>> \in Seq(Mild) /\ <<Read(0), g>> \in Seq(Mild)
    BY <2>1, Milds
  <2> QED
    BY <2>2 DEF g
<1> QED
  BY <1>1, <1>2, MildStep DEF Beside

LEMMA WaitEndReadable == ASSUME Inv, Waiting, EndReadable PROVE Waiting'
<1> USE DEF EndReadable, Becomes, Set, Then, World, log, Runs, Later
<1>1. SameAll /\ r'.paused = r.paused
  BY DestsStay DEF SameAll, SameWorld, Inv, Fields
<1>2. Do("endReadableNT") \in Mild
  BY Milds DEF Tame
<1> QED
  BY <1>1, <1>2, Milds, MildStep

LEMMA WaitResume_ == ASSUME Inv, Waiting, Resume_ PROVE Waiting'
<1> USE DEF Resume_, Becomes, Set, Then, World, log, Runs, ReadZero
<1>1. SameAll /\ r'.paused = r.paused
  BY DestsStay DEF SameAll, SameWorld, Inv, Fields
<1>2. \E c \in Seq(Mild) : stack' = c \o Tail(stack)
  <2>1. /\ <<>> \in Seq(Mild) /\ <<Read(0)>> \in Seq(Mild) /\ <<Do("resumed")>> \in Seq(Mild)
    BY Milds DEF Tame
  <2>2. ReadZero \o <<Do("resumed")>> \in Seq(Mild)
    BY <2>1, Milds
  <2> QED
    BY <2>2
<1> QED
  BY <1>1, <1>2, MildStep DEF Beside

LEMMA WaitResumed == ASSUME Inv, Waiting, Resumed PROVE Waiting'
<1> USE DEF Resumed, Becomes, Set, Then, World, log, Runs
<1>1. SameAll /\ r'.paused = r.paused
  BY DestsStay DEF SameAll, SameWorld, Inv, Fields
<1>2. <<Do("flow"), Do("flowed")>> \in Seq(Mild)
  BY Milds DEF Tame
<1> QED
  BY <1>1, <1>2, MildStep DEF Beside

LEMMA WaitFlowed == ASSUME Inv, Waiting, Flowed PROVE Waiting'
<1> USE DEF Flowed, Becomes, Set, Then, World, log, Runs, ReadZero
<1>1. SameAll /\ r'.paused = r.paused
  BY DestsStay DEF SameAll, SameWorld, Inv, Fields
<1>2. \E c \in Seq(Mild) : stack' = c \o Tail(stack)
  BY Milds
<1> QED
  BY <1>1, <1>2, MildStep DEF Beside

LEMMA WaitDestroy == ASSUME Inv, Waiting, Destroy PROVE Waiting'
<1> USE DEF Destroy, Becomes, Set, Then, World, log, Runs, Later
<1>1. SameAll /\ r'.paused = r.paused
  BY DestsStay DEF SameAll, SameWorld, Inv, Fields
<1>2. \A n \in -1 .. 1 : [Do("emitCloseNT") EXCEPT !.n = n] \in Mild
  <2>1. Do("emitCloseNT") \in Frame
    <3>1. "emitCloseNT" \in Pieces
      BY DEF Pieces
    <3> QED
      BY <3>1, Frames
  <2>2. ASSUME NEW n \in -1 .. 1 PROVE [Do("emitCloseNT") EXCEPT !.n = n] \in Mild
    <3>1. [Do("emitCloseNT") EXCEPT !.n = n] \in Frame
      BY <2>1, <2>2, FrameKept
    <3>2. [Do("emitCloseNT") EXCEPT !.n = n].fn = "emitCloseNT"
      BY DEF Do
    <3> QED
      BY <3>1, <3>2 DEF Mild, Plain, OfDest, Backed
  <2> QED
    BY <2>2
<1>3. Top.n \in -1 .. 1
  BY Topmost DEF Frame
<1> QED
  BY <1>1, <1>2, <1>3, Milds, MildStep

LEMMA WaitEmitClose == ASSUME Inv, Waiting, EmitClose PROVE Waiting'
<1> USE DEF EmitClose, Becomes, Set, Then, World, log, Runs
<1>1. SameAll /\ r'.paused = r.paused
  BY DestsStay DEF SameAll, SameWorld, Inv, Fields
<1> QED
  BY <1>1, Milds, MildStep

LEMMA WaitSourceKeeps == ASSUME Inv, Waiting, SourceKeeps PROVE Waiting'
<1> USE DEF SourceKeeps, Becomes, Set, Then, World, log, Runs
<1>1. SameAll /\ r'.paused = r.paused
  BY DestsStay DEF SameAll, SameWorld, Inv, Fields
<1> QED
  BY <1>1, Milds, MildStep

LEMMA WaitOnend == ASSUME Inv, Waiting, Onend PROVE Waiting'
<1> USE DEF Onend, Then, log, Runs
<1>1. SameDests
  <2>1. Top.who \in Dest /\ pipe[Top.who].used
    BY WaitBelow DEF Sit, Sits, OfDest
  <2> QED
    BY <2>1 DEF Waiting, Listeners, SameDests
<1>2. SameAll /\ r'.paused = r.paused
  BY <1>1 DEF SameAll, SameWorld
<1> QED
  BY <1>2, Milds, MildStep

LEMMA WaitOndataTaken == ASSUME Inv, Waiting, OndataTaken PROVE Waiting'
<1> USE DEF OndataTaken, Then, log, Runs
<1>1. SameAll /\ r'.paused = r.paused
  BY DestsStay DEF SameAll, SameWorld
<1> QED
  BY <1>1, Milds, MildStep

\* What the client does in its 'readable' listener.
LEMMA WaitOnreadable == ASSUME Inv, Waiting, Onreadable PROVE Waiting'
<1> USE DEF Onreadable, Becomes, Set, Then, World, log, Runs
<1>1. SameAll /\ r'.paused = r.paused
  BY DestsStay DEF SameAll, SameWorld
<1>2. CASE client.is.reads = "as it likes"
  <2>1. <<Do("user")>> \in Seq(Mild) /\ stack' = <<Do("user")>> \o Tail(stack)
    BY <1>2, Milds DEF Tame
  <2> QED
    BY <1>1, <2>1, MildStep DEF Beside
<1>3. CASE client.is.reads # "as it likes"
  <2>1. PICK f : /\ f = Read(NaN) \/ f = [Read(NaN) EXCEPT !.loop = "onreadable"]
                 /\ stack' = <<f>> \o Tail(stack)
    BY <1>3
  <2>2. f \in Frame /\ f.fn = "read" /\ f.loop # "flow"
    <3>1. NaN \in -1 .. 1
      BY NotANumber
    <3>2. /\ Read(NaN) \in Frame /\ Read(NaN).fn = "read"
          /\ [Read(NaN) EXCEPT !.loop = "onreadable"] \in Frame
          /\ [Read(NaN) EXCEPT !.loop = "onreadable"].fn = "read"
      BY <3>1, Frames
    <3> QED
      BY <2>1, <3>2 DEF Read, Do
  <2>3. Overrides'
    BY <1>3 DEF Overrides
  <2>4. f \in Sit' /\ f \in Slow /\ f \in {g \in Frame : g.fn \notin Backed}
    BY <2>2, <2>3 DEF Sit, Sits, Looping, OfDest, Slow, Backed
  <2>5. <<f>> \in Seq(Sit') /\ <<f>> \in Seq(Slow) /\ <<f>> \in Seq({g \in Frame : g.fn \notin Backed})
    BY <2>4, OneOf
  <2> QED
    BY <1>1, <2>1, <2>5, Mere DEF Ticking, Beside
<1> QED
  BY <1>2, <1>3

-----------------------------------------------------------------------------
(* Reading and pushing.                                                     *)

LEMMA MildPushed ==
    ASSUME NEW g \in Frame
    PROVE  [g EXCEPT !.fn = "addChunk"] \in Mild /\ [g EXCEPT !.fn = "addChunk", !.called = TRUE] \in Mild
<1>1. "addChunk" \in Pieces
  BY DEF Pieces
<1>2. [g EXCEPT !.fn = "addChunk"] \in Frame /\ [g EXCEPT !.fn = "addChunk"].fn = "addChunk"
  BY <1>1, FrameKept
<1>3. [[g EXCEPT !.fn = "addChunk"] EXCEPT !.called = TRUE] \in Frame
  BY <1>2, FrameKept
<1>4. /\ [g EXCEPT !.fn = "addChunk", !.called = TRUE] = [[g EXCEPT !.fn = "addChunk"] EXCEPT !.called = TRUE]
      /\ [g EXCEPT !.fn = "addChunk", !.called = TRUE].fn = "addChunk"
  BY DEF Frame
<1> QED
  BY <1>2, <1>3, <1>4 DEF Mild, Plain, OfDest, Backed

LEMMA WaitPush == ASSUME Inv, Waiting, Push PROVE Waiting'
<1> USE DEF Push, Becomes, Set, Then, World, log, Runs
<1>1. SameAll /\ r'.paused = r.paused /\ ticks' = ticks
  <2>1. UNCHANGED <<on, pipe, dest, client, ticks>>
    OBVIOUS
  <2>2. r'.flowing = r.flowing /\ r'.paused = r.paused
    BY DEF Inv, Fields
  <2> QED
    BY <2>1, <2>2, DestsStay DEF SameAll, SameWorld
<1>2. \E c \in Seq(Mild) : stack' = c \o Tail(stack)
  <2>1. Top \in Frame /\ stack # <<>>
    BY Topmost
  <2>2. /\ <<>> \in Seq(Mild) /\ <<Do("emitReadable")>> \in Seq(Mild) /\ <<Do("emitReadable_")>> \in Seq(Mild)
        /\ <<Do("maybeReadMore")>> \in Seq(Mild) /\ <<[Do("destroy") EXCEPT !.n = 1]>> \in Seq(Mild)
    BY Milds DEF Tame
  <2>3. <<[Top EXCEPT !.fn = "addChunk"]>> \in Seq(Mild)
    BY <2>1, MildPushed, Milds
  <2> QED
    BY <2>2, <2>3
<1> QED
  BY <1>1, <1>2, MildStep DEF Beside

LEMMA WaitUnshift == ASSUME Inv, Waiting, Unshift PROVE Waiting'
<1> USE DEF Unshift, Becomes, Set, Then, World, log, Runs
<1>1. SameAll /\ r'.paused = r.paused /\ ticks' = ticks
  BY DestsStay DEF SameAll, SameWorld
<1>2. \E c \in Seq(Mild) : stack' = c \o Tail(stack)
  <2>1. Top \in Frame /\ stack # <<>>
    BY Topmost
  <2>2. <<[Do("destroy") EXCEPT !.n = 1]>> \in Seq(Mild)
    BY Milds
  <2>3. <<[Top EXCEPT !.fn = "addChunk", !.called = TRUE]>> \in Seq(Mild)
    BY <2>1, MildPushed, Milds
  <2> QED
    BY <2>2, <2>3
<1> QED
  BY <1>1, <1>2, MildStep DEF Beside

\* The pieces that flow, while the stream does.
LEMMA FlowSits ==
    ASSUME Same, Flows', NEW f \in Frame, f.fn \in {"read", "take", "data"}, f.loop = "flow",
           f.fn \in {"read", "take"} => f.n # 0
    PROVE  f \in Sit' /\ f \in {g \in Frame : g.fn \notin Backed} /\ (f.fn # "read" => f \in Slow)
  BY DEF Sit, Sits, Looping, Leaves, OfDest, Backed, Slow

LEMMA MildOrOne ==
    ASSUME NEW f \in Sit', NEW c \in Seq(Mild), f \in Slow, f.fn \notin Backed
    PROVE  /\ <<f>> \o c \in Seq(Sit') /\ <<f>> \o c \in Seq(Slow)
           /\ <<f>> \o c \in Seq({g \in Frame : g.fn \notin Backed})
<1>1. f \in {g \in Frame : g.fn \notin Backed}
  BY DEF Sit
<1>2. c \in Seq(Sit') /\ c \in Seq(Slow) /\ c \in Seq({g \in Frame : g.fn \notin Backed})
  BY MildSits, Wider
<1>3. <<f>> \in Seq(Sit') /\ <<f>> \in Seq(Slow) /\ <<f>> \in Seq({g \in Frame : g.fn \notin Backed})
  BY <1>1, OneOf
<1> QED
  BY <1>2, <1>3, ConcatProperties

LEMMA WaitFlow == ASSUME Inv, Waiting, Flow PROVE Waiting'
<1> USE DEF Flow, Becomes, Set, Then, World, log, Runs
<1>1. SameAll /\ r'.paused = r.paused /\ ticks' = ticks
  BY DestsStay DEF SameAll, SameWorld
<1>2. CASE Flows
  <2> DEFINE f == [Read(NaN) EXCEPT !.loop = "flow"]
  <2>1. f \in Frame /\ f.fn = "read" /\ f.loop = "flow" /\ f.n # 0
    <3>1. f \in Frame /\ f.fn = "read"
      BY Frames
    <3> QED
      BY <3>1 DEF Read, Do, NaN
  <2>2. stack' = <<f>> \o Tail(stack) /\ Flows' /\ Same
    BY <1>1, <1>2, ListenOn DEF SameAll, SameWorld, Flows
  <2> HIDE DEF f
  <2>3. f \in Sit' /\ f \in {g \in Frame : g.fn \notin Backed}
    BY <2>1, <2>2, FlowSits
  <2>4. <<f>> \in Seq(Sit') /\ <<f>> \in Seq({g \in Frame : g.fn \notin Backed}) /\ Len(<<f>>) = 1
    BY <2>3, OneOf
  <2> QED
    BY <1>1, <2>2, <2>4, Mere DEF Ticking, Beside
<1>3. CASE ~Flows
  <2>1. stack' = <<>> \o Tail(stack)
    BY <1>3
  <2> QED
    BY <1>1, <2>1, Milds, MildStep
<1> QED
  BY <1>2, <1>3

LEMMA WaitAddChunk == ASSUME Inv, Waiting, AddChunk PROVE Waiting'
<1> USE DEF AddChunk, AddsChunk, Becomes, Set, Then, World, log, Runs
<1>1. SameAll /\ r'.paused = r.paused /\ ticks' = ticks
  BY DestsStay DEF SameAll, SameWorld, Inv, Fields
<1>2. <<Do("maybeReadMore")>> \in Seq(Mild) /\ <<Do("emitReadable")>> \in Seq(Mild) /\ <<>> \in Seq(Mild)
  BY Milds DEF Tame
<1>3. CASE Flows /\ Length = 0 /\ ~r.sync /\ on.data # <<>>
  <2> DEFINE f == [Top EXCEPT !.fn = "data", !.loop = "flow"]
  <2>1. f \in Frame /\ f.fn = "data" /\ f.loop = "flow"
    <3>1. Top \in Frame /\ "data" \in Pieces
      BY Topmost DEF Pieces
    <3>2. [Top EXCEPT !.fn = "data"] \in Frame
      BY <3>1, FrameKept
    <3>3. [[Top EXCEPT !.fn = "data"] EXCEPT !.loop = "flow"] \in Frame
      BY <3>2, FrameKept
    <3>4. f = [[Top EXCEPT !.fn = "data"] EXCEPT !.loop = "flow"] /\ f.fn = "data" /\ f.loop = "flow"
      BY <3>1 DEF Frame
    <3> QED
      BY <3>3, <3>4
  <2>2. stack' = <<f, Do("maybeReadMore")>> \o Tail(stack) /\ Flows' /\ Same
    BY <1>1, <1>3, ListenOn DEF SameAll, SameWorld, Flows
  <2> HIDE DEF f
  <2>3. f \in Sit' /\ f \in {g \in Frame : g.fn \notin Backed} /\ f \in Slow
    BY <2>1, <2>2, FlowSits
  <2> DEFINE c == <<f>> \o <<Do("maybeReadMore")>>
  <2>4. c \in Seq(Sit') /\ c \in Seq(Slow) /\ c \in Seq({g \in Frame : g.fn \notin Backed})
    BY <1>2, <2>3, MildOrOne
  <2>5. stack' = c \o Tail(stack)
    BY <2>2
  <2> HIDE DEF c
  <2> QED
    BY <1>1, <2>4, <2>5, Mere DEF Ticking, Beside
<1>4. CASE ~(Flows /\ Length = 0 /\ ~r.sync /\ on.data # <<>>)
  <2>1. (IF r.needReadable THEN <<Do("emitReadable")>> ELSE <<>>) \o <<Do("maybeReadMore")>> \in Seq(Mild)
    BY <1>2, Milds
  <2>2. stack' = ((IF r.needReadable THEN <<Do("emitReadable")>> ELSE <<>>) \o <<Do("maybeReadMore")>>)
                     \o Tail(stack)
    BY <1>4
  <2> QED
    BY <1>1, <2>1, <2>2, MildStep DEF Beside
<1> QED
  BY <1>3, <1>4

LEMMA MildPushes ==
    ASSUME source.count \in Nat, NEW k \in 0 .. 2, NEW end \in BOOLEAN
    PROVE  Pushes(k, end) \in Seq(Mild)
<1> DEFINE c == Pushes(k, end)
<1>1. ArePushes(c, k, end)
  BY PushesAre
<1> HIDE DEF c
<1>2. c \in Seq(Frame) /\ \A i \in DOMAIN c : c[i].fn = "push" /\ c[i] \in Frame
  BY <1>1, ElementOfSeq, LenProperties DEF ArePushes
<1>3. \A i \in DOMAIN c : c[i] \in Mild
  BY <1>2 DEF Mild, Plain, OfDest, Backed
<1> QED
  BY <1>2, <1>3, OfElements DEF c

LEMMA WaitAtOnce == ASSUME Inv, Waiting, SourceAnswersAtOnce PROVE Waiting'
<1>1. PICK k \in 0 .. 2, end \in BOOLEAN : Gives(k, end) /\ stack' = Pushes(k, end) \o Tail(stack)
  BY DEF SourceAnswersAtOnce, Then
<1>2. /\ source.count \in Nat
      /\ UNCHANGED <<r, on, pipe, dest, ticks, client, pushed, delivered, got, emitted>>
  BY <1>1, Given
<1>3. SameAll /\ r'.paused = r.paused
  BY <1>2, DestsStay DEF SameAll, SameWorld
<1>4. Pushes(k, end) \in Seq(Mild)
  BY <1>2, MildPushes
<1>5. stack # <<>> /\ Top.fn = "_read"
  BY DEF SourceAnswersAtOnce, Runs
<1> QED
  BY <1>1, <1>2, <1>3, <1>4, <1>5, MildStep DEF Beside

-----------------------------------------------------------------------------
(* Steps that flow, stop or listen.                                         *)

\* What is below the top is neither resume, ondrain nor on('data').
LEMMA TailBides ==
    ASSUME Inv, Waiting, stack # <<>>, ~Overrides, NEW d \in Dest, Alone(d),
           dest'[d].needDrain => dest[d].needDrain
    PROVE  Tail(stack) \in Seq(Bide(d)')
<1>1. PICK s \in Seq(Frame), u \in Seq(Frame) :
         s = stack /\ u = Tail(stack) /\ IsTail(u, s) /\ s # <<>>
  BY WaitBelow
<1>2. Placed(s, "on data" \in client.is.may) /\ u \in Seq(Bide(d))
  BY <1>1, WaitBelow DEF Waiting, Heeds
<1>3. /\ Len(s) \in Nat \ {0} /\ DOMAIN s = 1 .. Len(s) /\ DOMAIN u = 1 .. Len(s) - 1
      /\ \A i \in 1 .. Len(s) - 1 : u[i] = s[i + 1]
  BY <1>1, LenProperties, EmptySeq DEF IsTail
<1>4. ASSUME NEW i \in DOMAIN u PROVE u[i] \in Bide(d)'
  <2>1. i + 1 \in DOMAIN s /\ i + 1 # 1 /\ u[i] = s[i + 1]
    BY <1>3, <1>4
  <2>2. u[i].fn \notin {"resume", "ondrain", "on data"}
    BY <1>2, <2>1 DEF Placed
  <2>3. u[i] \in Bide(d)
    BY <1>2, <1>4, EachOf
  <2> QED
    BY <2>2, <2>3 DEF Bide, Bides
<1>5. u \in Seq(Bide(d)')
  BY <1>4, OfElements
<1> QED
  BY <1>1, <1>5

\* A step that puts c in the place of the top.
LEMMA InItsPlace ==
    ASSUME Inv, Waiting, stack # <<>>, NEW c, stack' = c \o Tail(stack), Same,
           c \in Seq(Sit'), c \in Seq(Slow) \/ Len(c) = 1,
           (Flows => Flows') \/ Top.fn \notin Quick \cup {"endReadable"},
           Ticking, Listeners', StaysPaused',
           \A d \in Dest : ~Overrides /\ Alone(d)' =>
              /\ Full(d)' => r'.flowing = "false" \/ Stops(c)
              /\ c \in Seq(Bide(d)')
              /\ \/ dest'[d].needDrain => dest[d].needDrain
                 \/ Top.fn \notin Beside
              /\ \/ Top.fn \notin Beside /\ Placed(c, "on data" \in client.is.may)
                 \/ MayStand(c, Top)
                 \/ Placed(c \o Tail(stack), "on data" \in client.is.may)
              /\ Once(on.data, d)' /\ (pipe[d].cleanedUp => ~In(on.data, d))'
    PROVE  Waiting'
<1> DEFINE u == Tail(stack)
<1>1. Overrides' = Overrides /\ ticks' \in Seq(TickSit') /\ client'.is = client.is
  BY SitsOn, TicksWait DEF Same
<1>2. u \in Seq(Slow)
  BY WaitBelow
<1>3. u \in Seq(Sit')
  <2>1. CASE Flows => Flows'
    BY <2>1, WaitBelow, SitsOn, Wider
  <2>2. CASE Top.fn \notin Quick \cup {"endReadable"}
    <3> DEFINE still == {f \in Frame : ~Looping(f)}
    <3>1. u \in Seq(still) /\ u \in Seq(Sit)
      BY <2>2, Unlooped, WaitBelow
    <3>2. \A f \in still : ~Looping(f)
      OBVIOUS
    <3> HIDE DEF u, still
    <3>3. \A i \in DOMAIN u : u[i] \in still
      BY <3>1, EachOf
    <3>4. \A i \in DOMAIN u : u[i] \in Sit
      BY <3>1, EachOf
    <3>5. u \in Seq({f \in Sit : ~Looping(f)})
      BY <3>1, <3>2, <3>3, <3>4, OfElements
    <3> QED
      BY <3>5, SitsOn, Wider
  <2> QED
    BY <2>1, <2>2
<1>4. ASSUME ~Overrides', NEW d \in Dest, Alone(d)'
      PROVE  /\ Full(d)' => r'.flowing = "false" \/ Stops(c)
             /\ c \in Seq(Bide(d)') /\ u \in Seq(Bide(d)')
             /\ Placed(c \o u, "on data" \in client'.is.may)
             /\ Once(on.data, d)' /\ (pipe[d].cleanedUp => ~In(on.data, d))'
  <2>1. ~Overrides /\ Alone(d)
    BY <1>1, <1>4, SitsOn
  <2>2. /\ Full(d)' => r'.flowing = "false" \/ Stops(c)
        /\ c \in Seq(Bide(d)')
        /\ Once(on.data, d)' /\ (pipe[d].cleanedUp => ~In(on.data, d))'
    BY <1>4, <2>1
  <2>3. u \in Seq(Bide(d)')
    <3>1. CASE Top.fn \notin Beside
      <4>1. {f \in Frame : f.fn \notin Backed} \subseteq Bide(d)'
        BY DEF Bide, Bides, Backed
      <4> QED
        BY <2>1, <3>1, <4>1, Unbacked, Wider
    <3>2. CASE dest'[d].needDrain => dest[d].needDrain
      BY <2>1, <3>2, TailBides
    <3> QED
      BY <1>4, <2>1, <3>1, <3>2
  <2>4. c \in Seq(Frame)
    <3>1. Sit' \subseteq Frame
      BY DEF Sit
    <3> QED
      BY <3>1, Wider
  <2>5. Placed(c \o u, "on data" \in client.is.may)
    BY <1>4, <2>1, <2>4, PlacedNext
  <2> QED
    BY <1>1, <2>2, <2>3, <2>5
<1> HIDE DEF u
<1>5. stack' = c \o u
  BY DEF u
<1> QED
  BY <1>1, <1>2, <1>3, <1>4, <1>5, Put

LEMMA MildBefore ==
    ASSUME NEW f \in Sit', NEW c \in Seq(Mild), f \in Slow, f.fn \notin Backed
    PROVE  /\ c \o <<f>> \in Seq(Sit') /\ c \o <<f>> \in Seq(Slow)
           /\ c \o <<f>> \in Seq({g \in Frame : g.fn \notin Backed})
<1>1. f \in {g \in Frame : g.fn \notin Backed}
  BY DEF Sit
<1>2. c \in Seq(Sit') /\ c \in Seq(Slow) /\ c \in Seq({g \in Frame : g.fn \notin Backed})
  BY MildSits, Wider
<1>3. <<f>> \in Seq(Sit') /\ <<f>> \in Seq(Slow) /\ <<f>> \in Seq({g \in Frame : g.fn \notin Backed})
  BY <1>1, OneOf
<1> QED
  BY <1>2, <1>3, ConcatProperties

\* read does nothing for one who asks for nothing.
LEMMA WaitStartRead == ASSUME Inv, Waiting, StartRead PROVE Waiting'
<1> DEFINE Taking(m) == [Top EXCEPT !.fn = "take", !.m = m]
           Asking(m) == [Top EXCEPT !.fn = "take", !.m = m, !.called = TRUE]
<1>1. /\ stack # <<>> /\ Top.fn = "read" /\ Top \in Frame /\ r.buffer \in Seq(Nat)
      /\ Top.n \in -1 .. 1 /\ Top \in Sit
  BY Topmost, WaitBelow DEF StartRead, Runs, Inv, Fields, Frame
<1>2. UNCHANGED <<ticks, on, pipe, dest, client>>
  BY DEF StartRead, Becomes, World, log
<1>3. SameAll /\ r'.paused = r.paused
  <2>1. r'.flowing = r.flowing /\ r'.paused = r.paused
    BY DEF StartRead, Becomes, Set, Inv, Fields
  <2> QED
    BY <1>2, <2>1, DestsStay DEF SameAll, SameWorld
<1>4. \E m \in Nat : /\ Top.n = 0 => m = 0
                     /\ \/ \E c \in Seq(Mild) : stack' = c \o Tail(stack)
                        \/ stack' = <<Taking(m)>> \o Tail(stack)
                        \/ stack' = <<Do("_read"), Asking(m)>> \o Tail(stack)
  <2> DEFINE m == HowMuchToRead(Top.n)
  <2>1. m \in Nat /\ (Top.n = 0 => m = 0)
    <3>1. m \in 0 .. Len(r.buffer) /\ Len(r.buffer) \in Nat
      BY <1>1, HowMuch
    <3>2. Top.n = 0 => m = 0
      BY DEF HowMuchToRead
    <3> QED
      BY <3>1, <3>2
  <2>2. <<>> \in Seq(Mild) /\ <<Do("endReadable")>> \in Seq(Mild) /\ <<Do("emitReadable")>> \in Seq(Mild)
    BY Milds DEF Tame
  <2>3. \/ stack' = <<Do("endReadable")>> \o Tail(stack) \/ stack' = <<Do("emitReadable")>> \o Tail(stack)
        \/ stack' = <<>> \o Tail(stack) \/ stack' = <<Taking(m)>> \o Tail(stack)
        \/ stack' = <<Do("_read"), Asking(m)>> \o Tail(stack)
    BY ZenonT(40) DEF StartRead, Becomes, Then
  <2> HIDE DEF m, Taking, Asking
  <2> QED
    BY <2>1, <2>2, <2>3
<1>5. PICK m \in Nat : /\ Top.n = 0 => m = 0
                       /\ \/ \E c \in Seq(Mild) : stack' = c \o Tail(stack)
                          \/ stack' = <<Taking(m)>> \o Tail(stack)
                          \/ stack' = <<Do("_read"), Asking(m)>> \o Tail(stack)
  BY <1>4
<1>6. /\ Taking(m) \in Frame /\ Asking(m) \in Frame
       /\ Taking(m).fn = "take" /\ Taking(m).m = m /\ Asking(m).fn = "take" /\ Asking(m).m = m
       /\ Taking(m).n = Top.n /\ Asking(m).n = Top.n
       /\ Taking(m).loop = Top.loop /\ Asking(m).loop = Top.loop
  <2>1. Taking(m) \in Frame /\ Asking(m) \in Frame
    BY <1>1, TakeFrame
  <2>2. Taking(m).fn = "take" /\ Taking(m).m = m /\ Asking(m).fn = "take" /\ Asking(m).m = m
    BY <1>1, TakeFrame, ZenonT(40)
  <2>3. /\ Taking(m).n = Top.n /\ Asking(m).n = Top.n
        /\ Taking(m).loop = Top.loop /\ Asking(m).loop = Top.loop
    BY <1>1 DEF Frame
  <2> QED
    BY <2>1, <2>2, <2>3
<1> HIDE DEF Taking, Asking
<1>7. ASSUME NEW f, f = Taking(m) \/ f = Asking(m) PROVE f \in Sit' /\ f \in Slow /\ f.fn \notin Backed
  <2>1. f \in Frame /\ f.fn = "take" /\ f.m = m /\ f.n = Top.n /\ f.loop = Top.loop
    BY <1>7, <1>6
  <2>4. Looping(f) => Flows'
    <3>1. Looping(f) => Looping(Top)
      BY <1>1, <2>1 DEF Looping
    <3>2. Looping(Top) => Flows
      BY <1>1 DEF Sit, Sits
    <3> QED
      BY <1>3, <3>1, <3>2 DEF SameAll, Flows
  <2>5. Overrides' \/ Leaves(f, client'.is.may)
    <3>1. Overrides \/ Leaves(Top, client.is.may)
      BY <1>1 DEF Sit, Sits
    <3>2. Leaves(Top, client.is.may) => Leaves(f, client.is.may)
      BY <1>1, <1>5, <2>1 DEF Leaves
    <3> QED
      BY <1>2, <3>1, <3>2 DEF Overrides
  <2> QED
    BY <2>1, <2>4, <2>5 DEF Sit, Sits, OfDest, Slow, Backed
<1>8. <<Do("_read")>> \in Seq(Mild) /\ <<>> \in Seq(Mild)
  BY Milds DEF Tame
<1>9. ASSUME NEW c \in Seq(Mild), stack' = c \o Tail(stack) PROVE Waiting'
  BY <1>1, <1>2, <1>3, <1>9, MildStep DEF Beside
<1>10. ASSUME NEW f, f = Taking(m) \/ f = Asking(m), NEW a \in Seq(Mild),
             stack' = (a \o <<f>>) \o Tail(stack)
      PROVE  Waiting'
  <2> DEFINE c == a \o <<f>>
  <2>1. c \in Seq(Sit') /\ c \in Seq(Slow) /\ c \in Seq({g \in Frame : g.fn \notin Backed})
    BY <1>7, <1>10, MildBefore
  <2> HIDE DEF c
  <2>2. stack' = c \o Tail(stack)
    BY <1>10 DEF c
  <2> QED
    BY <1>1, <1>2, <1>3, <2>1, <2>2, Mere DEF Ticking, Beside
<1>11. /\ <<Taking(m)>> = <<>> \o <<Taking(m)>>
       /\ <<Do("_read"), Asking(m)>> = <<Do("_read")>> \o <<Asking(m)>>
  OBVIOUS
<1> QED
  BY <1>5, <1>8, <1>9, <1>10, <1>11

LEMMA WaitTake == ASSUME Inv, Waiting, Take PROVE Waiting'
<1> DEFINE m    == IF Top.called /\ ~r.reading THEN HowMuchToRead(Top.n) ELSE Top.m
           some == Length > 0 /\ m > 0
           f    == [Do("data") EXCEPT !.data = SubSeq(r.buffer, 1, m), !.loop = Top.loop]
           l    == IF some /\ Top.loop # "" THEN <<Do(Top.loop)>> ELSE <<>>
           d    == IF some THEN <<f>> ELSE <<>>
           e    == <<Do("endReadable")>>
<1>1. /\ stack # <<>> /\ Top.fn = "take" /\ Top \in Frame /\ r.buffer \in Seq(Nat)
      /\ Top.n \in -1 .. 1 /\ Top.m \in Nat /\ Top.m <= Len(r.buffer)
      /\ Top.loop \in {"", "flow", "onreadable"} /\ Top \in Sit
  BY Topmost, WaitBelow DEF Take, Runs, Inv, Fields, Frame, Fits, View
<1>2. UNCHANGED <<ticks, on, pipe, dest, client>>
  BY DEF Take, Becomes, World, log
<1>3. SameAll /\ r'.paused = r.paused
  <2>1. r'.flowing = r.flowing /\ r'.paused = r.paused
    <3> DEFINE rest == IF some THEN SubSeq(r.buffer, m + 1, Length) ELSE r.buffer
    <3>1. \E sync, need, then :
             r' = [[r EXCEPT !.sync = sync, !.buffer = rest, !.needReadable = need,
                             !.awaiting = IF some THEN {} ELSE @]
                      EXCEPT !.needReadable = then]
      BY TakeSets
    <3> HIDE DEF rest, some
    <3> QED
      BY <3>1 DEF Inv, Fields
  <2> QED
    BY <1>2, <2>1, DestsStay DEF SameAll, SameWorld
<1>4. \/ stack' = (e \o d \o l) \o Tail(stack)
      \/ stack' = (<<>> \o d \o l) \o Tail(stack)
  BY DEF Take, Becomes, Then
<1>5. m \in 0 .. Len(r.buffer) /\ Len(r.buffer) \in Nat
  <2>1. Len(r.buffer) \in Nat /\ HowMuchToRead(Top.n) \in 0 .. Len(r.buffer)
    BY <1>1, HowMuch
  <2>2. \A x, y \in Nat : x <= y => x \in 0 .. y
    OBVIOUS
  <2>3. Top.m \in 0 .. Len(r.buffer)
    BY <1>1, <2>1, <2>2
  <2> QED
    BY <2>1, <2>3
<1>6. some => f \in Sit' /\ f \in Slow /\ f.fn \notin Backed
  <2>1. some => f \in Frame
    <3>1. "data" \in Pieces /\ (some => SubSeq(r.buffer, 1, m) \in Seq(Nat))
      BY <1>1, <1>5, Split DEF Pieces
    <3>2. Do("data") \in Frame
      BY <3>1, Frames
    <3>3. some => [Do("data") EXCEPT !.data = SubSeq(r.buffer, 1, m)] \in Frame
      BY <3>1, <3>2, FrameKept
    <3>4. some => [[Do("data") EXCEPT !.data = SubSeq(r.buffer, 1, m)] EXCEPT !.loop = Top.loop] \in Frame
      BY <1>1, <3>3, FrameKept
    <3> QED
      BY <3>4 DEF Do
  <2>2. f.fn = "data" /\ f.loop = Top.loop
    BY DEF Do
  <2> HIDE DEF f
  <2>3. Looping(f) => Flows'
    <3>1. Looping(f) => Looping(Top)
      BY <1>1, <2>2 DEF Looping
    <3>2. Looping(Top) => Flows
      BY <1>1 DEF Sit, Sits
    <3> QED
      BY <1>3, <3>1, <3>2 DEF SameAll, Flows
  <2>4. some => Overrides' \/ Leaves(f, client'.is.may)
    <3>1. Overrides \/ Leaves(Top, client.is.may)
      BY <1>1 DEF Sit, Sits
    <3>2. Leaves(Top, client.is.may) => Top.loop = "flow" \/ (Top.n = 0 /\ Top.m = 0)
      BY <1>1 DEF Leaves
    <3>3. Top.n = 0 => HowMuchToRead(Top.n) = 0
      BY DEF HowMuchToRead
    <3>4. Top.n = 0 /\ Top.m = 0 => ~some
      BY <3>3
    <3>5. Top.loop = "flow" => Leaves(f, client.is.may)
      BY <2>2 DEF Leaves
    <3> QED
      BY <1>2, <3>1, <3>2, <3>4, <3>5 DEF Overrides
  <2> QED
    BY <2>1, <2>2, <2>3, <2>4 DEF Sit, Sits, OfDest, Slow, Backed
<1>7. l \in Seq(Mild) /\ e \in Seq(Mild) /\ <<>> \in Seq(Mild)
  BY <1>1, Milds DEF Tame
<1>8. \A a \in Seq(Mild) : /\ a \o d \in Seq(Sit') /\ a \o d \in Seq(Slow)
                           /\ a \o d \in Seq({g \in Frame : g.fn \notin Backed})
  <2> SUFFICES ASSUME NEW a \in Seq(Mild)
               PROVE  /\ a \o d \in Seq(Sit') /\ a \o d \in Seq(Slow)
                      /\ a \o d \in Seq({g \in Frame : g.fn \notin Backed})
    OBVIOUS
  <2> HIDE DEF some, f
  <2>1. CASE some
    BY <1>6, <2>1, MildBefore
  <2>2. CASE ~some
    <3>1. a \o <<>> \in Seq(Mild)
      BY Milds
    <3>2. a \o d \in Seq(Mild)
      BY <2>2, <3>1
    <3> QED
      BY <3>2, MildSits, Wider
  <2> QED
    BY <2>1, <2>2
<1> HIDE DEF some, f, l, d, e
<1>9. \A a \in Seq(Mild) : /\ (a \o d) \o l \in Seq(Sit') /\ (a \o d) \o l \in Seq(Slow)
                           /\ (a \o d) \o l \in Seq({g \in Frame : g.fn \notin Backed})
  <2>1. l \in Seq(Sit') /\ l \in Seq(Slow) /\ l \in Seq({g \in Frame : g.fn \notin Backed})
    BY <1>7, MildSits, Wider
  <2> QED
    BY <1>8, <2>1, ConcatProperties
<1>10. \E c : /\ stack' = c \o Tail(stack) /\ c \in Seq(Sit') /\ c \in Seq(Slow)
              /\ c \in Seq({g \in Frame : g.fn \notin Backed})
  BY <1>4, <1>7, <1>9
<1> QED
  BY <1>1, <1>2, <1>3, <1>10, Mere DEF Ticking, Beside

-----------------------------------------------------------------------------
(* Steps that leave the destinations and the listeners alone.               *)

LEMMA Turns ==
    ASSUME Inv, Waiting, stack # <<>>, NEW c \in Seq(Sit'), c \in Seq(Slow) \/ Len(c) = 1,
           stack' = c \o Tail(stack), SameWorld, Ticking, StaysPaused',
           (Flows => Flows') \/ Top.fn \notin Quick \cup {"endReadable"},
           \A d \in Dest : ~Overrides /\ Alone(d) =>
              /\ Full(d) => r'.flowing = "false" \/ Stops(c)
              /\ c \in Seq(Bide(d))
              /\ \/ Top.fn \notin Beside /\ Placed(c, "on data" \in client.is.may)
                 \/ MayStand(c, Top)
    PROVE  Waiting'
<1>1. Same /\ Listeners'
  BY ListenOn
<1>2. ASSUME NEW d \in Dest, ~Overrides, Alone(d)'
      PROVE  /\ Full(d)' => r'.flowing = "false" \/ Stops(c)
             /\ c \in Seq(Bide(d)')
             /\ dest'[d].needDrain => dest[d].needDrain
             /\ \/ Top.fn \notin Beside /\ Placed(c, "on data" \in client.is.may)
                \/ MayStand(c, Top)
             /\ Once(on.data, d)' /\ (pipe[d].cleanedUp => ~In(on.data, d))'
  <2>1. Alone(d) /\ Full(d)' = Full(d) /\ Bide(d)' = Bide(d)
    BY <1>2, BidesOn
  <2>2. dest'[d].needDrain => dest[d].needDrain
    BY DEF SameWorld, SameDests
  <2>3. Once(on.data, d)' /\ (pipe[d].cleanedUp => ~In(on.data, d))'
    BY <1>2, <2>1, BidesOn DEF Waiting, Heeds, SameWorld
  <2>4. /\ Full(d)' => r'.flowing = "false" \/ Stops(c)
        /\ c \in Seq(Bide(d)')
        /\ \/ Top.fn \notin Beside /\ Placed(c, "on data" \in client.is.may)
           \/ MayStand(c, Top)
    BY <1>2, <2>1
  <2> QED
    BY <2>2, <2>3, <2>4
<1> QED
  BY <1>1, <1>2, InItsPlace

\* Pieces that neither flow nor write.
Meek == {f \in Sit : f \in Slow /\ f.fn \notin Backed}

LEMMA Meeks ==
    /\ Mild \subseteq Meek'
    /\ \A c \in Seq(Meek') : /\ c \in Seq(Sit') /\ c \in Seq(Slow)
                             /\ \A d : c \in Seq(Bide(d)) /\ c \in Seq(Bide(d)')
                             /\ \A b : Placed(c, b)
<1>1. Mild \subseteq Meek'
  BY MildSits DEF Meek
<1>2. Meek' \subseteq Sit' /\ Meek' \subseteq Slow /\ Meek' \subseteq {f \in Frame : f.fn \notin Backed}
  BY DEF Meek, Sit
<1>3. \A d : Meek' \subseteq Bide(d) /\ Meek' \subseteq Bide(d)'
  BY <1>2 DEF Bide, Bides, Backed
<1>4. ASSUME NEW c \in Seq(Meek')
      PROVE  /\ c \in Seq(Sit') /\ c \in Seq(Slow)
             /\ \A d : c \in Seq(Bide(d)) /\ c \in Seq(Bide(d)')
             /\ \A b : Placed(c, b)
  <2>1. c \in Seq(Sit') /\ c \in Seq(Slow) /\ c \in Seq({f \in Frame : f.fn \notin Backed})
    BY <1>2, Wider
  <2>2. \A d : c \in Seq(Bide(d)) /\ c \in Seq(Bide(d)')
    BY <1>3, Wider
  <2>3. \A b : Placed(c, b)
    BY <2>1, NotPlaced
  <2> QED
    BY <2>1, <2>2, <2>3
<1> QED
  BY <1>1, <1>4

LEMMA MeekStep ==
    ASSUME Inv, Waiting, stack # <<>>, Top.fn \notin {"pausePipe", "pause"},
           NEW c \in Seq(Meek'), stack' = c \o Tail(stack),
           Top.fn \notin Beside \/ MayStand(c, Top),
           Ticking, SameAll, r'.paused = r.paused
    PROVE  Waiting'
<1>1. c \in Seq(Sit') /\ c \in Seq(Slow) /\ SameWorld /\ (Flows => Flows')
  BY Meeks DEF SameAll, Flows
<1>2. StaysPaused'
  BY DEF Waiting, StaysPaused, SameAll, SameWorld, Flows
<1>3. ASSUME NEW d \in Dest, ~Overrides, Alone(d)
      PROVE  /\ Full(d) => r'.flowing = "false" \/ Stops(c)
             /\ c \in Seq(Bide(d))
             /\ \/ Top.fn \notin Beside /\ Placed(c, "on data" \in client.is.may)
                \/ MayStand(c, Top)
  <2>1. ~Stops(stack)
    BY WaitBelow DEF Stops
  <2> QED
    BY <1>3, <2>1, Meeks DEF Waiting, Heeds, SameAll
<1> QED
  BY <1>1, <1>2, <1>3, Turns

\* Pieces about a destination that has been piped to.
LEMMA ForSits ==
    ASSUME NEW f \in OfDest \ {"pipe"}, NEW d \in Dest, pipe'[d].used
    PROVE  /\ For(f, d) \in TickSit' /\ For(f, d) \in Sit' /\ For(f, d).fn = f /\ For(f, d).who = d
           /\ For(f, d) \in Slow /\ (f \notin Backed => For(f, d) \in Meek')
<1>1. f \in Pieces /\ d \in Dest \cup {"user"}
  BY DEF OfDest, Pieces
<1>2. For(f, d) \in Frame /\ For(f, d).fn = f /\ For(f, d).who = d
  BY <1>1, FrameFor
<1>3. For(f, d) \in TickSit' /\ For(f, d) \in Sit'
  BY <1>2 DEF TickSit, Sit, Sits, Looping, OfDest, Leaves
<1>4. For(f, d) \in Slow /\ (f \notin Backed => For(f, d) \in Meek')
  BY <1>2, <1>3 DEF Slow, Meek, OfDest
<1> QED
  BY <1>2, <1>3, <1>4

LEMMA WaitEndReadableNT == ASSUME Inv, Waiting, EndReadableNT PROVE Waiting'
<1> DEFINE each == [i \in DOMAIN on.end |-> For("onend", on.end[i])]
<1>1. stack # <<>> /\ Top.fn = "endReadableNT" /\ UNCHANGED <<ticks, on, pipe, dest, client>>
  BY DEF EndReadableNT, EmitsEnd, Runs, Becomes, World, log
<1>2. SameAll /\ r'.paused = r.paused
  <2>1. r' = r \/ r' = [r EXCEPT !.endEmitted = TRUE]
    BY DEF EndReadableNT, EmitsEnd, Becomes, Set
  <2> QED
    BY <1>1, <2>1, DestsStay DEF SameAll, SameWorld, Inv, Fields
<1>3. stack' = <<>> \o Tail(stack) \/ stack' = (each \o <<Do("user"), Do("destroy")>>) \o Tail(stack)
  BY DEF EndReadableNT, EmitsEnd, Becomes, Then
<1>4. each \in Seq(Meek')
  <2>1. on.end \in Seq({d \in Dest : pipe[d].used})
    BY DEF Waiting, Listeners
  <2>2. DOMAIN on.end = 1 .. Len(on.end) /\ Len(on.end) \in Nat
    BY <2>1, LenProperties
  <2>3. \A i \in DOMAIN on.end : on.end[i] \in Dest /\ pipe[on.end[i]].used
    BY <2>1, EachOf
  <2>4. \A i \in DOMAIN on.end : For("onend", on.end[i]) \in Meek'
    BY <1>1, <2>3, ForSits DEF OfDest, Backed
  <2>5. each \in [1 .. Len(on.end) -> Meek']
    BY <2>2, <2>4
  <2> HIDE DEF each
  <2> QED
    BY <2>2, <2>5, Mapped
<1>5. <<Do("user"), Do("destroy")>> \in Seq(Meek') /\ <<>> \in Seq(Meek')
  <2>1. <<Do("user"), Do("destroy")>> \in Seq(Mild) /\ <<>> \in Seq(Mild)
    BY Milds DEF Tame
  <2> QED
    BY <2>1, Meeks, Wider
<1> HIDE DEF each
<1>6. \E c \in Seq(Meek') : stack' = c \o Tail(stack)
  BY <1>3, <1>4, <1>5, ConcatProperties
<1> QED
  BY <1>1, <1>2, <1>6, MeekStep DEF Ticking, Beside

LEMMA WaitDestCloses == ASSUME Inv, Waiting, DestCloses PROVE Waiting'
<1>1. /\ stack # <<>> /\ Top.fn = "dest closes" /\ UNCHANGED <<ticks, on, pipe, dest, client, r>>
      /\ stack' = <<For("unpipe", Top.who)>> \o Tail(stack)
  BY DEF DestCloses, Runs, Becomes, World, log, Set, Then
<1>2. SameAll /\ r'.paused = r.paused
  BY <1>1, DestsStay DEF SameAll, SameWorld
<1>3. Top.who \in Dest /\ pipe[Top.who].used
  BY <1>1, WaitBelow DEF Sit, Sits, OfDest
<1>4. For("unpipe", Top.who) \in Meek'
  BY <1>1, <1>3, ForSits DEF OfDest, Backed
<1>5. <<For("unpipe", Top.who)>> \in Seq(Meek')
  BY <1>4, OneOf
<1> QED
  BY <1>1, <1>2, <1>5, MeekStep DEF Ticking, Beside

LEMMA Pair == ASSUME NEW f, NEW g PROVE <<f>> \o <<g>> = <<f, g>> /\ <<>> \o <<g>> = <<g>>
<1> DEFINE a == <<f>>
           b == <<g>>
           t == <<f, g>>
<1>1. /\ a \in Seq({f, g}) /\ b \in Seq({f, g}) /\ Len(a) = 1 /\ Len(b) = 1
      /\ a[1] = f /\ b[1] = g
  OBVIOUS
<1>2. t \in Seq({f, g}) /\ Len(t) = 2 /\ t[1] = f /\ t[2] = g
  OBVIOUS
<1>3. <<>> \o b = b
  BY <1>1
<1> HIDE DEF a, b, t
<1>4. a \o b \in Seq({f, g}) /\ Len(a \o b) = 2 /\ (a \o b)[1] = f /\ (a \o b)[2] = g
  BY <1>1, ConcatProperties
<1>5. \A i \in 1 .. 2 : i = 1 \/ i = 2
  OBVIOUS
<1>6. \A i \in 1 .. 2 : t[i] = (a \o b)[i]
  BY <1>2, <1>4, <1>5
<1>7. t = a \o b
  BY <1>2, <1>4, <1>6, SeqEqual
<1> QED
  BY <1>3, <1>7 DEF a, b, t

LEMMA WaitUnpipe == ASSUME Inv, Waiting, Unpipe PROVE Waiting'
<1> DEFINE d    == Top.who
           a == <<Do("pause")>>
           b == <<For("cleanup", d)>>
<1>1. /\ stack # <<>> /\ Top.fn = "unpipe" /\ UNCHANGED <<ticks, on, pipe, dest, client>>
      /\ \/ r' = r /\ stack' = <<>> \o Tail(stack)
         \/ /\ \E left : r' = [r EXCEPT !.pipes = left]
            /\ stack' = (a \o b) \o Tail(stack) \/ stack' = (<<>> \o b) \o Tail(stack)
  BY DEF Unpipe, Becomes, Set, Then, Runs, World, log
<1>2. SameAll /\ r'.paused = r.paused
  BY <1>1, DestsStay DEF SameAll, SameWorld, Inv, Fields
<1>3. d \in Dest /\ pipe[d].used
  BY <1>1, WaitBelow DEF Sit, Sits, OfDest
<1>4. Do("pause") \in Meek' /\ For("cleanup", d) \in Meek' /\ For("cleanup", d).fn = "cleanup"
  <2>1. Do("pause") \in Mild
    BY Milds DEF Tame
  <2> QED
    BY <1>1, <1>3, <2>1, Meeks, ForSits DEF OfDest, Backed
<1>5. Do("pause").fn = "pause"
  BY DEF Do
<1>6. \E c \in Seq(Meek') : stack' = c \o Tail(stack) /\ MayStand(c, Top)
  <2> DEFINE f == Do("pause")
             g == For("cleanup", d)
  <2> HIDE DEF f, g
  <2>1. f \in Meek' /\ g \in Meek' /\ f.fn = "pause" /\ g.fn = "cleanup"
    BY <1>4, <1>5 DEF f, g
  <2>2. <<>> \in Seq(Meek') /\ <<g>> \in Seq(Meek') /\ <<f, g>> \in Seq(Meek')
    BY <2>1
  <2>3. MayStand(<<g>>, Top) /\ MayStand(<<f, g>>, Top)
    <3>1. \A i \in DOMAIN <<f, g>> : <<f, g>>[i] = f \/ <<f, g>>[i] = g
      OBVIOUS
    <3>2. \A i \in DOMAIN <<g>> : <<g>>[i] = g
      OBVIOUS
    <3>3. Top.fn \in Beside \ {"resume"} /\ Top.fn # "on data"
      BY <1>1 DEF Beside
    <3>4. \A h : h = f \/ h = g => h.fn \in Beside /\ h.fn \notin {"on data", "resume"}
      BY <2>1 DEF Beside
    <3> DEFINE x == <<g>>
               y == <<f, g>>
    <3>5. \A i \in DOMAIN x : x[i].fn \in Beside /\ x[i].fn \notin {"on data", "resume"}
      BY <3>2, <3>4
    <3>6. \A i \in DOMAIN y : y[i].fn \in Beside /\ y[i].fn \notin {"on data", "resume"}
      BY <3>1, <3>4
    <3> HIDE DEF x, y
    <3>7. MayStand(x, Top) /\ MayStand(y, Top)
      BY <3>3, <3>5, <3>6 DEF MayStand
    <3> QED
      BY <3>7 DEF x, y
  <2>4. <<f>> \o <<g>> = <<f, g>> /\ <<>> \o <<g>> = <<g>>
    BY Pair
  <2>5. \/ stack' = <<>> \o Tail(stack) \/ stack' = <<f, g>> \o Tail(stack) \/ stack' = <<g>> \o Tail(stack)
    BY <1>1, <2>4 DEF f, g
  <2> QED
    BY <2>2, <2>3, <2>5, NothingStands
<1> QED
  BY <1>1, <1>2, <1>6, MeekStep DEF Ticking

LEMMA WaitUnpipeAll == ASSUME Inv, Waiting, UnpipeAll PROVE Waiting'
<1> DEFINE each == [i \in DOMAIN r.pipes |-> For("cleanup", r.pipes[i])]
           f == Do("pause")
<1>1. /\ stack # <<>> /\ Top.fn = "unpipe all" /\ UNCHANGED <<ticks, on, pipe, dest, client>>
      /\ \/ r' = r /\ stack' = <<>> \o Tail(stack)
         \/ r' = [r EXCEPT !.pipes = <<>>] /\ stack' = (<<f>> \o each) \o Tail(stack)
  BY DEF UnpipeAll, Becomes, Set, Then, Runs, World, log
<1>2. SameAll /\ r'.paused = r.paused
  BY <1>1, DestsStay DEF SameAll, SameWorld, Inv, Fields
<1>3. r.pipes \in Seq(Dest) /\ \A i \in DOMAIN r.pipes : r.pipes[i] \in Dest /\ pipe[r.pipes[i]].used
  BY EachOf DEF Inv, Fields, PipesFit
<1>4. Len(r.pipes) \in Nat /\ DOMAIN r.pipes = 1 .. Len(r.pipes)
  BY <1>3, LenProperties
<1>5. \A i \in DOMAIN r.pipes : /\ For("cleanup", r.pipes[i]) \in Meek'
                                /\ For("cleanup", r.pipes[i]).fn = "cleanup"
  BY <1>1, <1>3, ForSits DEF OfDest, Backed
<1>6. each \in [1 .. Len(r.pipes) -> Meek']
  BY <1>4, <1>5
<1>7. \A i \in DOMAIN each : each[i].fn = "cleanup"
  BY <1>5
<1> HIDE DEF each
<1>8. each \in Seq(Meek') /\ DOMAIN each = 1 .. Len(r.pipes) /\ Len(each) = Len(r.pipes)
  BY <1>4, <1>6, Mapped
<1>9. f \in Meek' /\ f.fn = "pause"
  <2>1. Do("pause") \in Mild
    BY Milds DEF Tame
  <2> QED
    BY <2>1, Meeks DEF Do
<1> HIDE DEF f
<1> DEFINE c == <<f>> \o each
<1>10. c \in Seq(Meek') /\ \A i \in DOMAIN c : c[i].fn \in {"pause", "cleanup"}
  <2>1. <<f>> \in Seq(Meek') /\ Len(<<f>>) = 1 /\ <<f>>[1] = f
    BY <1>9
  <2>2. c \in Seq(Meek')
    BY <1>8, <2>1, ConcatProperties
  <2>3. DOMAIN c = 1 .. Len(<<f>>) + Len(each)
    BY <1>8, <2>1, OnTop
  <2>4. \A i \in 1 .. Len(<<f>>) : c[i] = <<f>>[i]
    BY <1>8, <2>1, OnTop
  <2>5. \A i \in Len(<<f>>) + 1 .. Len(<<f>>) + Len(each) : c[i] = each[i - Len(<<f>>)]
    BY <1>8, <2>1, OnTop
  <2> HIDE DEF c
  <2>6. ASSUME NEW i \in DOMAIN c PROVE c[i].fn \in {"pause", "cleanup"}
    <3>1. i = 1 \/ (i \in 1 + 1 .. 1 + Len(each) /\ i - 1 \in DOMAIN each)
      BY <1>4, <1>8, <2>1, <2>3, <2>6
    <3> QED
      BY <1>7, <1>9, <2>1, <2>4, <2>5, <3>1
  <2> QED
    BY <2>2, <2>6
<1>11. stack' = <<>> \o Tail(stack) \/ stack' = c \o Tail(stack)
  BY <1>1
<1> HIDE DEF c
<1>12. MayStand(c, Top)
  BY <1>1, <1>10 DEF MayStand, Beside
<1>13. <<>> \in Seq(Meek')
  BY EmptySeq
<1> QED
  BY <1>1, <1>2, <1>10, <1>11, <1>12, <1>13, NothingStands, MeekStep DEF Ticking

LEMMA ResumeSits ==
    LET c == <<Do("resume")>> IN
    /\ c \in Seq(Sit') /\ c \in Seq(Slow) /\ \A b : Placed(c, b)
    /\ \A d : ~Full(d) => c \in Seq(Bide(d))
    /\ \A d : ~Full(d)' => c \in Seq(Bide(d)')
    /\ \A f : f.fn \in Beside \ {"resume"} => MayStand(c, f)
<1> DEFINE f == Do("resume")
<1>1. f \in Frame /\ f.fn = "resume"
  <2>1. "resume" \in Pieces
    BY DEF Pieces
  <2> QED
    BY <2>1, Frames
<1> HIDE DEF f
<1>2. f \in Sit' /\ f \in Slow
  BY <1>1 DEF Sit, Sits, Looping, OfDest, Leaves, Slow
<1>3. \A d : (~Full(d) => f \in Bide(d)) /\ (~Full(d)' => f \in Bide(d)')
  BY <1>1 DEF Bide, Bides
<1> DEFINE c == <<f>>
<1>4. DOMAIN c = {1} /\ c[1] = f /\ Len(c) = 1
  OBVIOUS
<1>5. /\ c \in Seq(Sit') /\ c \in Seq(Slow)
      /\ \A d : (~Full(d) => c \in Seq(Bide(d))) /\ (~Full(d)' => c \in Seq(Bide(d)'))
  BY <1>2, <1>3, OneOf
<1> HIDE DEF c
<1>6. \A b : Placed(c, b)
  BY <1>1, <1>4 DEF Placed
<1>7. \A g : g.fn \in Beside \ {"resume"} => MayStand(c, g)
  BY <1>1, <1>4 DEF MayStand, Beside
<1> QED
  BY <1>5, <1>6, <1>7 DEF c, f

LEMMA WaitPiped == ASSUME Inv, Waiting, Piped PROVE Waiting'
<1> DEFINE d == Top.who
<1>1. /\ stack # <<>> /\ Top.fn = "piped" /\ UNCHANGED <<ticks, on, pipe, dest, client, r>>
      /\ \/ stack' = <<>> \o Tail(stack)
         \/ stack' = <<For("pausePipe", d)>> \o Tail(stack)
         \/ ~WritableNeedDrain(d) /\ stack' = <<Do("resume")>> \o Tail(stack)
  BY DEF Piped, Becomes, Set, Then, Runs, World, log
<1>2. SameAll /\ r'.paused = r.paused
  BY <1>1, DestsStay DEF SameAll, SameWorld
<1>3. d \in Dest /\ pipe[d].used
  BY <1>1, WaitBelow DEF Sit, Sits, OfDest
<1>4. CASE stack' = <<>> \o Tail(stack)
  BY <1>1, <1>2, <1>4, Milds, MildStep
<1>5. CASE stack' = <<For("pausePipe", d)>> \o Tail(stack)
  <2>1. <<For("pausePipe", d)>> \in Seq(Meek')
    BY <1>1, <1>3, ForSits, OneOf DEF OfDest, Backed
  <2> QED
    BY <1>1, <1>2, <1>5, <2>1, MeekStep DEF Ticking, Beside
<1>6. CASE stack' = <<Do("resume")>> \o Tail(stack)
  <2> DEFINE c == <<Do("resume")>>
  <2>1. c \in Seq(Sit') /\ c \in Seq(Slow) /\ \A b : Placed(c, b)
    BY ResumeSits
  <2>2. ASSUME NEW e \in Dest, ~Overrides, Alone(e) PROVE ~Full(e) /\ c \in Seq(Bide(e))
    <3>1. e = d
      BY <1>3, <2>2 DEF Alone
    <3>2. Top \in Bide(e)
      BY <1>1, <2>2, WaitBelow
    <3>3. ~Full(e)
      BY <1>1, <3>2 DEF Bide, Bides, Full
    <3> QED
      BY <3>3, ResumeSits
  <2>3. stack' = c \o Tail(stack)
    BY <1>6
  <2> HIDE DEF c
  <2>4. StaysPaused' /\ SameWorld /\ (Flows => Flows')
    BY <1>1, <1>2 DEF Waiting, StaysPaused, SameAll, SameWorld, Flows
  <2> QED
    BY <1>1, <2>1, <2>2, <2>3, <2>4, Turns DEF Ticking, Beside
<1> QED
  BY <1>1, <1>4, <1>5, <1>6

LEMMA WaitResume == ASSUME Inv, Waiting, Resume PROVE Waiting'
<1>1. /\ stack # <<>> /\ Top.fn = "resume" /\ UNCHANGED <<on, pipe, dest, client>>
      /\ stack' = <<>> \o Tail(stack)
  BY DEF Resume, Then, Runs, World, log
<1>2. SameWorld
  BY <1>1, DestsStay DEF SameWorld
<1>3. Ticking
  <2>1. Do("resume_") \in TickSit'
    BY Milds, MildSits DEF Tame
  <2> QED
    BY <2>1 DEF Resume, Later, Ticking
<1>4. r'.paused = "false" /\ (Flows => Flows')
  BY DEF Resume, Set, Inv, Fields, Flows
<1>5. StaysPaused'
  BY <1>4 DEF StaysPaused
<1>6. ASSUME NEW d \in Dest, ~Overrides, Alone(d) PROVE ~Full(d)
  BY <1>1, <1>6, WaitBelow DEF Bide, Bides
<1>7. <<>> \in Seq(Sit') /\ <<>> \in Seq(Slow) /\ \A d : <<>> \in Seq(Bide(d))
  BY EmptySeq
<1> QED
  BY <1>1, <1>2, <1>3, <1>4, <1>5, <1>6, <1>7, NothingStands, Turns

LEMMA WaitPause == ASSUME Inv, Waiting, Pause PROVE Waiting'
<1>1. /\ stack # <<>> /\ Top.fn = "pause" /\ UNCHANGED <<ticks, on, pipe, dest, client>>
      /\ stack' = <<>> \o Tail(stack) /\ r'.flowing = "false"
  BY DEF Pause, Becomes, Set, Then, Runs, World, log, Inv, Fields
<1>2. SameWorld /\ Ticking /\ StaysPaused'
  BY <1>1, DestsStay DEF SameWorld, Ticking, StaysPaused, Flows
<1>3. <<>> \in Seq(Sit') /\ <<>> \in Seq(Slow) /\ \A d : <<>> \in Seq(Bide(d))
  BY EmptySeq
<1>4. Top.fn \notin Quick \cup {"endReadable"}
  BY <1>1 DEF Quick
<1> QED
  BY <1>1, <1>2, <1>3, <1>4, NothingStands, Turns

LEMMA WaitOnReadable == ASSUME Inv, Waiting, OnReadable PROVE Waiting'
<1>1. /\ stack # <<>> /\ Top.fn = "on readable" /\ UNCHANGED <<pipe, dest, client>>
      /\ on'.data = on.data /\ on'.end = on.end
  BY DEF OnReadable, Runs, log, Inv, Heard
<1>2. SameWorld
  BY <1>1, DestsStay DEF SameWorld
<1>3. CASE r.endEmitted \/ r.readableListening
  <2>1. stack' = <<>> \o Tail(stack) /\ UNCHANGED <<r, ticks>>
    BY <1>3 DEF OnReadable, Then
  <2>2. SameAll /\ r'.paused = r.paused
    BY <1>2, <2>1 DEF SameAll
  <2> QED
    BY <1>1, <2>1, <2>2, Milds, MildStep
<1>4. CASE ~(r.endEmitted \/ r.readableListening)
  <2>1. r'.flowing = "false"
    BY <1>4 DEF OnReadable, Set, Inv, Fields
  <2>2. StaysPaused' /\ Top.fn \notin Quick \cup {"endReadable"}
    BY <1>1, <2>1 DEF StaysPaused, Flows, Quick
  <2>3. Ticking
    <3>1. Read(0) \in TickSit'
      BY Milds, MildSits
    <3> QED
      BY <1>4, <3>1 DEF OnReadable, Later, Ticking
  <2>4. \E c \in Seq(Mild) : stack' = c \o Tail(stack) /\ MayStand(c, Top)
    <3> DEFINE f == Do("emitReadable")
    <3>1. f \in Mild /\ f.fn = "emitReadable"
      BY Milds DEF Tame, Do
    <3>2. stack' = <<>> \o Tail(stack) \/ stack' = <<f>> \o Tail(stack)
      BY <1>4 DEF OnReadable, Then
    <3> HIDE DEF f
    <3> DEFINE c == <<f>>
    <3>3. DOMAIN c = {1} /\ c[1] = f /\ c \in Seq(Mild)
      BY <3>1
    <3>4. stack' = <<>> \o Tail(stack) \/ stack' = c \o Tail(stack)
      BY <3>2
    <3> HIDE DEF c
    <3>5. MayStand(c, Top)
      BY <1>1, <3>1, <3>3 DEF MayStand, Beside
    <3> QED
      BY <3>3, <3>4, <3>5, NothingStands, Milds
  <2>5. PICK c \in Seq(Mild) : stack' = c \o Tail(stack) /\ MayStand(c, Top)
    BY <2>4
  <2>6. c \in Seq(Sit') /\ c \in Seq(Slow) /\ \A d : c \in Seq(Bide(d))
    <3>1. c \in Seq(Meek')
      BY Meeks, Wider
    <3> QED
      BY <3>1, Meeks
  <2> QED
    BY <1>1, <1>2, <2>1, <2>2, <2>3, <2>5, <2>6, Turns
<1> QED
  BY <1>3, <1>4

LEMMA WaitOffReadable == ASSUME Inv, Waiting, OffReadable PROVE Waiting'
<1>1. /\ stack # <<>> /\ Top.fn = "off readable" /\ UNCHANGED <<r, pipe, dest, client>>
      /\ on'.data = on.data /\ on'.end = on.end /\ stack' = <<>> \o Tail(stack)
  BY DEF OffReadable, Runs, log, Inv, Heard, Then
<1>2. SameAll /\ r'.paused = r.paused
  BY <1>1, DestsStay DEF SameAll, SameWorld
<1>3. Ticking
  <2> DEFINE f == Do("updateReadableListening")
  <2>1. f \in Frame /\ f.fn = "updateReadableListening"
    <3>1. "updateReadableListening" \in Pieces
      BY DEF Pieces
    <3> QED
      BY <3>1, Frames
  <2>2. Overrides'
    <3>1. Overrides
      BY <1>1, WaitBelow DEF Sit, Sits, Leaves
    <3> QED
      BY <1>1, <3>1 DEF Overrides
  <2>3. ticks' = Append(ticks, f)
    BY DEF OffReadable, Later
  <2> HIDE DEF f
  <2>4. f \in TickSit'
    BY <2>1, <2>2 DEF TickSit, Sits, Looping, OfDest
  <2> QED
    BY <2>3, <2>4 DEF Ticking
<1>4. <<>> \in Seq(Sit') /\ <<>> \in Seq(Slow)
  BY EmptySeq
<1> QED
  BY <1>1, <1>2, <1>3, <1>4, Mere

LEMMA WaitUpdate == ASSUME Inv, Waiting, UpdateReadableListening PROVE Waiting'
<1>1. /\ stack # <<>> /\ Top.fn = "updateReadableListening"
      /\ UNCHANGED <<ticks, on, pipe, dest, client>>
      /\ stack' = <<>> \o Tail(stack) \/ stack' = <<Do("resume")>> \o Tail(stack)
  BY DEF UpdateReadableListening, Becomes, Then, Runs, World, log
<1>2. SameWorld /\ Ticking /\ Top.fn \notin Quick \cup {"endReadable"}
  BY <1>1, DestsStay DEF SameWorld, Ticking, Quick
<1>3. Overrides
  BY <1>1, WaitBelow DEF Sit, Sits, Leaves
<1>4. StaysPaused'
  <2>1. \/ r'.paused = "false" \/ r'.flowing = Unset
        \/ r'.paused = r.paused /\ r'.flowing = r.flowing
    BY DEF UpdateReadableListening, Becomes, Set, Inv, Fields
  <2> QED
    BY <1>1, <2>1 DEF Waiting, StaysPaused, Flows, Unset
<1>5. \E c : /\ stack' = c \o Tail(stack) /\ c \in Seq(Sit') /\ c \in Seq(Slow)
  <2>1. <<>> \in Seq(Sit') /\ <<>> \in Seq(Slow)
    BY EmptySeq
  <2> QED
    BY <1>1, <2>1, ResumeSits
<1> QED
  BY <1>1, <1>2, <1>3, <1>4, <1>5, Turns

LEMMA WaitPipeOnDrain == ASSUME Inv, Waiting, PipeOnDrain PROVE Waiting'
<1>1. /\ stack # <<>> /\ Top.fn = "ondrain" /\ UNCHANGED <<ticks, on, pipe, dest, client>>
      /\ stack' = <<>> \o Tail(stack) \/ stack' = <<Do("flow")>> \o Tail(stack)
      /\ r'.flowing = r.flowing \/ r'.flowing = "true"
  BY DEF PipeOnDrain, Becomes, Set, Then, Runs, World, log, Inv, Fields
<1>2. SameWorld /\ Ticking /\ (Flows => Flows')
  BY <1>1, DestsStay DEF SameWorld, Ticking, Flows
<1>3. StaysPaused'
  <2>1. Top.who \in Dest /\ pipe[Top.who].used
    BY <1>1, WaitBelow DEF Sit, Sits, OfDest
  <2>2. "pipe" \in client.is.may
    BY <2>1 DEF Waiting, Listeners
  <2> QED
    BY <1>1, <2>2 DEF StaysPaused
<1>4. ASSUME NEW d \in Dest, ~Overrides, Alone(d) PROVE ~Full(d)
  BY <1>1, <1>4, WaitBelow DEF Bide, Bides
<1>5. PICK c \in Seq(Meek') : stack' = c \o Tail(stack)
  <2>1. <<>> \in Seq(Mild) /\ <<Do("flow")>> \in Seq(Mild)
    BY Milds DEF Tame
  <2>2. Seq(Mild) \subseteq Seq(Meek')
    BY Meeks, Wider
  <2> QED
    BY <1>1, <2>1, <2>2
<1>6. c \in Seq(Sit') /\ c \in Seq(Slow) /\ (\A d : c \in Seq(Bide(d))) /\ \A b : Placed(c, b)
  BY Meeks
<1> QED
  BY <1>1, <1>2, <1>3, <1>4, <1>5, <1>6, Turns DEF Beside

-----------------------------------------------------------------------------
(* Steps that give out chunks, or change who listens.                       *)

LEMMA WaitOndataRefused == ASSUME Inv, Waiting, OndataRefused PROVE Waiting'
<1> DEFINE d == Top.who
           c == <<For("pausePipe", d)>>
<1>1. /\ stack # <<>> /\ Top.fn = "ondata" /\ UNCHANGED <<r, ticks, on, pipe, client>>
      /\ stack' = c \o Tail(stack)
      /\ dest' = dest \/ dest' = [dest EXCEPT ![d].needDrain = TRUE]
  BY DEF OndataRefused, Then, Runs
<1>2. d \in Dest /\ pipe[d].used
  BY <1>1, WaitBelow DEF Sit, Sits, OfDest
<1>3. Same /\ Ticking /\ Overrides' = Overrides
  BY <1>1, SitsOn DEF Same, Ticking
<1>4. Listeners'
  <2>1. Listener' = Listener
    BY <1>1, <1>3 DEF Listener
  <2> QED
    BY <1>1, <1>2, <2>1 DEF Waiting, Listeners
<1>5. StaysPaused'
  BY <1>1 DEF Waiting, StaysPaused, Flows
<1>6. c \in Seq(Meek') /\ Stops(c)
  <2> DEFINE f == For("pausePipe", d)
  <2>1. f \in Meek' /\ f.fn = "pausePipe"
    BY <1>1, <1>2, ForSits DEF OfDest, Backed
  <2> HIDE DEF f
  <2>2. <<f>> \in Seq(Meek') /\ Stops(<<f>>)
    BY <2>1, OneOf DEF Stops
  <2> QED
    BY <2>2 DEF f
<1> HIDE DEF c
<1>7. /\ c \in Seq(Sit') /\ c \in Seq(Slow) /\ (\A e : c \in Seq(Bide(e)')) /\ \A b : Placed(c, b)
  BY <1>6, Meeks
<1>8. ASSUME NEW e \in Dest, ~Overrides, Alone(e)'
      PROVE  Once(on.data, e)' /\ (pipe[e].cleanedUp => ~In(on.data, e))'
  <2>1. Heeds(e)
    BY <1>3, <1>8, SitsOn DEF Waiting
  <2> QED
    BY <1>1, <2>1 DEF Heeds, Once, In
<1> QED
  BY <1>1, <1>3, <1>4, <1>5, <1>6, <1>7, <1>8, InItsPlace DEF Beside, Flows

LEMMA WaitPausePipe == ASSUME Inv, Waiting, PausePipe PROVE Waiting'
<1> DEFINE d == Top.who
<1>1. /\ stack # <<>> /\ Top.fn = "pausePipe" /\ UNCHANGED <<ticks, on, dest, client>>
      /\ pipe' = [pipe EXCEPT ![d].ondrain = TRUE, ![d].hears = @ \/ ~pipe[d].ondrain]
  BY DEF PausePipe, Runs, log
<1>2. d \in Dest /\ pipe[d].used
  BY <1>1, WaitBelow DEF Sit, Sits, OfDest
<1>3. r'.flowing = r.flowing /\ r'.paused = r.paused
  BY DEF PausePipe, Set, Inv, Fields
<1>4. \A e \in Dest : pipe'[e].used = pipe[e].used /\ pipe'[e].cleanedUp = pipe[e].cleanedUp
  BY <1>1 DEF Inv, PipesFit
<1>5. Same /\ Ticking /\ Overrides' = Overrides
  BY <1>1, <1>4, SitsOn DEF Same, Ticking
<1>6. Listeners'
  <2>1. Listener' = Listener
    BY <1>1, <1>4, <1>5 DEF Listener
  <2>2. {e \in Dest : pipe[e].used}' = {e \in Dest : pipe[e].used}
    BY <1>4
  <2> QED
    BY <1>1, <1>4, <2>1, <2>2 DEF Waiting, Listeners
<1>7. StaysPaused'
  BY <1>1, <1>3 DEF Waiting, StaysPaused, Flows
<1>8. \E c \in Seq(Meek') : stack' = c \o Tail(stack) /\ (Stops(c) \/ pipe[d].cleanedUp)
  <2> DEFINE f == Do("pause")
  <2>1. f \in Mild /\ f.fn = "pause"
    BY Milds DEF Tame, Do
  <2>2. \/ stack' = <<f>> \o Tail(stack)
        \/ stack' = <<>> \o Tail(stack) /\ pipe[d].cleanedUp
    BY DEF PausePipe, Then
  <2> HIDE DEF f
  <2>3. <<f>> \in Seq(Mild) /\ <<>> \in Seq(Mild) /\ Stops(<<f>>)
    BY <2>1, OneOf, EmptySeq DEF Stops
  <2>4. Seq(Mild) \subseteq Seq(Meek')
    BY Meeks, Wider
  <2> QED
    BY <2>2, <2>3, <2>4
<1>9. PICK c \in Seq(Meek') : stack' = c \o Tail(stack) /\ (Stops(c) \/ pipe[d].cleanedUp)
  BY <1>8
<1>10. /\ c \in Seq(Sit') /\ c \in Seq(Slow) /\ (\A e : c \in Seq(Bide(e)')) /\ \A b : Placed(c, b)
  BY Meeks
<1>11. ASSUME NEW e \in Dest, ~Overrides, Alone(e)'
       PROVE  /\ Once(on.data, e)' /\ (pipe[e].cleanedUp => ~In(on.data, e))'
              /\ Full(e)' => Stops(c)
  <2>1. Heeds(e)
    BY <1>5, <1>11, SitsOn DEF Waiting
  <2>2. Once(on.data, e)' /\ (pipe[e].cleanedUp => ~In(on.data, e))'
    BY <1>1, <1>4, <2>1 DEF Heeds, Once, In
  <2>3. e = d
    BY <1>2, <1>4, <1>11 DEF Alone
  <2>4. Full(e)' => Stops(c)
    BY <1>4, <1>9, <2>2, <2>3 DEF Full
  <2> QED
    BY <2>2, <2>4
<1> QED
  BY <1>1, <1>3, <1>5, <1>6, <1>7, <1>9, <1>10, <1>11, InItsPlace DEF Beside, Flows

\* One who is added listens, and nobody else does who did not.
LEMMA OneAdded ==
    ASSUME NEW S, NEW s \in Seq(S), NEW e \in S, NEW x
    PROVE  /\ In(Append(s, e), x) <=> In(s, x) \/ e = x
           /\ Once(s, x) /\ (In(s, x) => e # x) => Once(Append(s, e), x)
<1>1. PICK t : t = Append(s, e)
  OBVIOUS
<1>2. /\ Len(s) \in Nat /\ DOMAIN s = 1 .. Len(s) /\ DOMAIN t = 1 .. Len(s) + 1
      /\ (\A i \in 1 .. Len(s) : t[i] = s[i]) /\ t[Len(s) + 1] = e
  BY <1>1, AppendProperties, LenProperties
<1>3. In(t, x) <=> In(s, x) \/ e = x
  <2>1. \A i \in DOMAIN t : i \in DOMAIN s \/ i = Len(s) + 1
    BY <1>2
  <2>2. Len(s) + 1 \in DOMAIN t /\ \A i \in DOMAIN s : i \in DOMAIN t
    BY <1>2
  <2> QED
    BY <1>2, <2>1, <2>2 DEF In
<1>4. ASSUME Once(s, x), In(s, x) => e # x PROVE Once(t, x)
  <2>1. \A i \in DOMAIN t : i \in DOMAIN s \/ i = Len(s) + 1
    BY <1>2
  <2> QED
    BY <1>2, <1>4, <2>1 DEF In, Once
<1> QED
  BY <1>1, <1>3, <1>4

LEMMA WaitOnData == ASSUME Inv, Waiting, OnData PROVE Waiting'
<1> DEFINE w == Top.who
<1>1. /\ stack # <<>> /\ Top.fn = "on data" /\ UNCHANGED <<ticks, pipe, dest, client>>
      /\ r'.flowing = r.flowing /\ r'.paused = r.paused
      /\ on'.data = Append(on.data, w) /\ on'.end = on.end
  BY DEF OnData, Runs, log, Set, Inv, Fields, Heard
<1>2. \/ stack' = <<>> \o Tail(stack)
      \/ r.flowing # "false" /\ stack' = <<Do("resume")>> \o Tail(stack)
  BY DEF OnData, Then
<1>3. Same /\ Ticking /\ Overrides' = Overrides
  BY <1>1, SitsOn DEF Same, Ticking
<1>4. w \in Listener /\ on.data \in Seq(Listener)
  <2>1. /\ w = "user" \/ (w \in Dest /\ pipe[w].used)
        /\ Overrides \/ (w = "user" => "on data" \in client.is.may)
    BY <1>1, WaitBelow DEF Sit, Sits, Leaves
  <2> QED
    BY <2>1, NameAssumption DEF Listener, Waiting, Listeners
<1>5. Listeners'
  <2>1. Listener' = Listener
    BY <1>1, <1>3 DEF Listener
  <2>2. on'.data \in Seq(Listener)
    BY <1>1, <1>4, AppendProperties
  <2> QED
    BY <1>1, <2>1, <2>2 DEF Waiting, Listeners
<1>6. StaysPaused'
  BY <1>1 DEF Waiting, StaysPaused, Flows
<1>7. ASSUME NEW e \in Dest, ~Overrides, Alone(e)'
      PROVE  /\ Once(on.data, e)' /\ (pipe[e].cleanedUp => ~In(on.data, e))'
             /\ Full(e)' => r.flowing = "false"
  <2>1. Alone(e) /\ Heeds(e) /\ Top \in Bide(e)
    BY <1>1, <1>3, <1>7, SitsOn, WaitBelow DEF Waiting
  <2>2. /\ In(on.data, e)' <=> In(on.data, e) \/ w = e
        /\ Once(on.data, e) /\ (In(on.data, e) => w # e) => Once(on.data, e)'
    <3>1. /\ In(Append(on.data, w), e) <=> In(on.data, e) \/ w = e
          /\ Once(on.data, e) /\ (In(on.data, e) => w # e) => Once(Append(on.data, w), e)
      BY <1>4, OneAdded
    <3>2. In(on.data, e)' <=> In(Append(on.data, w), e)
      BY <1>1 DEF In
    <3>3. Once(on.data, e)' <=> Once(Append(on.data, w), e)
      BY <1>1 DEF Once
    <3> QED
      BY <3>1, <3>2, <3>3
  <2>3. CASE w = e
    <3>1. Fresh(e)
      BY <1>1, <2>1, <2>3 DEF Bide, Bides
    <3> QED
      BY <1>1, <2>1, <2>2, <3>1 DEF Fresh, Full, Heeds
  <2>4. CASE w # e
    <3>1. ~Stops(stack)
      BY <1>1, WaitBelow DEF Stops
    <3> QED
      BY <1>1, <2>1, <2>2, <2>4, <3>1 DEF Full, Heeds
  <2> QED
    BY <2>3, <2>4
<1>8. CASE stack' = <<>> \o Tail(stack)
  <2>1. <<>> \in Seq(Sit') /\ <<>> \in Seq(Slow) /\ \A e : <<>> \in Seq(Bide(e)')
    BY EmptySeq
  <2> QED
    BY <1>1, <1>3, <1>5, <1>6, <1>7, <1>8, <2>1, NothingStands, InItsPlace DEF Flows
<1>9. CASE r.flowing # "false" /\ stack' = <<Do("resume")>> \o Tail(stack)
  <2> DEFINE c == <<Do("resume")>>
  <2>1. c \in Seq(Sit') /\ c \in Seq(Slow) /\ MayStand(c, Top)
    BY <1>1, ResumeSits DEF Beside
  <2>2. \A e : ~Full(e)' => c \in Seq(Bide(e)')
    BY ResumeSits
  <2>3. stack' = c \o Tail(stack)
    BY <1>9
  <2> HIDE DEF c
  <2> QED
    BY <1>1, <1>3, <1>5, <1>6, <1>7, <1>9, <2>1, <2>2, <2>3, InItsPlace DEF Flows
<1> QED
  BY <1>2, <1>8, <1>9

LEMMA OneRemoved ==
    ASSUME NEW S, NEW s \in Seq(S), NEW e, NEW x
    PROVE  /\ RemoveFirst(s, e) \in Seq(S)
           /\ In(RemoveFirst(s, e), x) => In(s, x)
           /\ Once(s, x) => Once(RemoveFirst(s, e), x) /\ (e = x => ~In(RemoveFirst(s, e), x))
<1>1. PICK t : t = RemoveFirst(s, e)
  OBVIOUS
<1>2. t \in Seq(S)
  BY <1>1, FirstOut
<1>3. PICK k \in Nat :
         ((\E i \in DOMAIN s : s[i] = e) => k \in DOMAIN s /\ s[k] = e) /\ Skips(t, s, k)
  BY <1>1, FirstOut
<1>4. /\ (\E i \in DOMAIN s : s[i] = e) => k \in DOMAIN s /\ s[k] = e
      /\ \A i \in DOMAIN t : \/ i < k /\ i \in DOMAIN s /\ t[i] = s[i]
                             \/ i >= k /\ i + 1 \in DOMAIN s /\ t[i] = s[i + 1]
  BY <1>3 DEF Skips
<1>5. (\A i \in DOMAIN t : i \in Int) /\ \A i \in DOMAIN s : i \in Int
  BY <1>2, LenProperties
<1>6. In(t, x) => In(s, x)
  BY <1>4 DEF In
<1>7. ASSUME Once(s, x) PROVE Once(t, x)
  BY <1>4, <1>5, <1>7 DEF Once
<1>8. ASSUME Once(s, x), e = x PROVE ~In(t, x)
  <2>1. ASSUME NEW i \in DOMAIN t, t[i] = x PROVE FALSE
    <3>1. k \in DOMAIN s /\ s[k] = x
      BY <1>4, <1>8, <2>1
    <3>2. CASE i < k /\ i \in DOMAIN s /\ t[i] = s[i]
      <4>1. i = k
        BY <1>8, <2>1, <3>1, <3>2 DEF Once
      <4> QED
        BY <1>5, <3>2, <4>1
    <3>3. CASE i >= k /\ i + 1 \in DOMAIN s /\ t[i] = s[i + 1]
      <4>1. i + 1 = k
        BY <1>8, <2>1, <3>1, <3>3 DEF Once
      <4> QED
        BY <1>5, <3>3, <4>1
    <3> QED
      BY <1>4, <2>1, <3>2, <3>3
  <2> QED
    BY <2>1 DEF In
<1> QED
  BY <1>1, <1>2, <1>6, <1>7, <1>8

LEMMA StillOf == ASSUME NEW S, NEW s \in Seq(S), NEW e PROVE RemoveFirst(s, e) \in Seq(S)
  BY Without

LEMMA WaitOffData == ASSUME Inv, Waiting, OffData PROVE Waiting'
<1> DEFINE w == Top.who
<1>1. /\ stack # <<>> /\ Top.fn = "off data" /\ UNCHANGED <<r, ticks, pipe, dest, client>>
      /\ on'.data = RemoveFirst(on.data, w) /\ on'.end = on.end
      /\ stack' = <<>> \o Tail(stack)
  BY DEF OffData, Runs, log, Then, Inv, Heard
<1>2. Same /\ Ticking /\ Overrides' = Overrides
  BY <1>1, SitsOn DEF Same, Ticking
<1>3. on.data \in Seq(Listener)
  BY DEF Waiting, Listeners
<1>4. Listeners'
  <2>1. Listener' = Listener
    BY <1>1, <1>2 DEF Listener
  <2>2. on'.data \in Seq(Listener)
    BY <1>1, <1>3, StillOf
  <2> QED
    BY <1>1, <2>1, <2>2 DEF Waiting, Listeners
<1>5. StaysPaused'
  BY <1>1 DEF Waiting, StaysPaused, Flows
<1>6. ASSUME NEW e \in Dest, ~Overrides, Alone(e)'
      PROVE  /\ Once(on.data, e)' /\ (pipe[e].cleanedUp => ~In(on.data, e))'
             /\ Full(e)' => r.flowing = "false"
  <2>1. Heeds(e)
    BY <1>2, <1>6, SitsOn DEF Waiting
  <2>2. (In(on.data, e)' => In(on.data, e)) /\ (Once(on.data, e) => Once(on.data, e)')
    <3>1. /\ In(RemoveFirst(on.data, w), e) => In(on.data, e)
          /\ Once(on.data, e) => Once(RemoveFirst(on.data, w), e)
      BY <1>3, OneRemoved
    <3>2. In(on.data, e)' <=> In(RemoveFirst(on.data, w), e)
      BY <1>1 DEF In
    <3>3. Once(on.data, e)' <=> Once(RemoveFirst(on.data, w), e)
      BY <1>1 DEF Once
    <3> QED
      BY <3>1, <3>2, <3>3
  <2>3. ~Stops(stack)
    BY <1>1, WaitBelow DEF Stops
  <2> QED
    BY <1>1, <2>1, <2>2, <2>3 DEF Full, Heeds
<1>7. <<>> \in Seq(Sit') /\ <<>> \in Seq(Slow) /\ \A e : <<>> \in Seq(Bide(e)')
  BY EmptySeq
<1> QED
  BY <1>1, <1>2, <1>4, <1>5, <1>6, <1>7, NothingStands, InItsPlace DEF Flows

\* Nothing that writes waits while the only destination is full, or before
\* there is one.
LEMMA TailQuiet ==
    ASSUME Inv, Waiting, stack # <<>>, ~Overrides, NEW d \in Dest, Alone(d),
           dest[d].needDrain \/ ~pipe[d].used
    PROVE  Tail(stack) \in Seq({f \in Frame : f.fn \notin Backed})
<1>1. PICK s \in Seq(Frame), u \in Seq(Frame) :
         s = stack /\ u = Tail(stack) /\ IsTail(u, s) /\ s # <<>>
  BY WaitBelow
<1>2. Placed(s, "on data" \in client.is.may) /\ u \in Seq(Bide(d)) /\ u \in Seq(Sit)
  BY <1>1, WaitBelow DEF Waiting, Heeds
<1>3. /\ Len(s) \in Nat \ {0} /\ DOMAIN s = 1 .. Len(s) /\ DOMAIN u = 1 .. Len(s) - 1
      /\ \A i \in 1 .. Len(s) - 1 : u[i] = s[i + 1]
  BY <1>1, LenProperties, EmptySeq DEF IsTail
<1>4. ASSUME NEW i \in DOMAIN u PROVE u[i] \in {f \in Frame : f.fn \notin Backed}
  <2>1. i + 1 \in DOMAIN s /\ i + 1 # 1 /\ u[i] = s[i + 1]
    BY <1>3, <1>4
  <2>2. u[i].fn \notin {"resume", "ondrain", "on data"}
    BY <1>2, <2>1 DEF Placed
  <2>3. u[i] \in Bide(d) /\ u[i] \in Sit
    BY <1>2, <1>4, EachOf
  <2>4. u[i].fn \notin {"ondata", "piped"}
    <3>1. CASE dest[d].needDrain
      BY <2>3, <3>1 DEF Bide, Bides
    <3>2. CASE ~pipe[d].used
      BY <2>3, <3>2 DEF Sit, Sits, OfDest, Alone
    <3> QED
      BY <3>1, <3>2
  <2>5. u[i] \in Frame
    BY <2>3 DEF Sit
  <2> QED
    BY <2>2, <2>4, <2>5 DEF Backed
<1>5. u \in Seq({f \in Frame : f.fn \notin Backed})
  BY <1>4, OfElements
<1> QED
  BY <1>1, <1>5

LEMMA WaitCleanup == ASSUME Inv, Waiting, Cleanup PROVE Waiting'
<1> DEFINE d == Top.who
           f == For("ondrain", d)
<1>1. /\ stack # <<>> /\ Top.fn = "cleanup" /\ UNCHANGED <<r, ticks, dest, client>>
      /\ on'.data = RemoveFirst(on.data, d) /\ on'.end = RemoveFirst(on.end, d)
      /\ pipe' = [pipe EXCEPT ![d].hears = FALSE, ![d].cleanedUp = TRUE]
      /\ \/ stack' = <<>> \o Tail(stack)
         \/ dest[d].needDrain /\ stack' = <<f>> \o Tail(stack)
  BY DEF Cleanup, CleansUp, Runs, log, Then, Inv, Heard
<1>2. d \in Dest /\ pipe[d].used
  BY <1>1, WaitBelow DEF Sit, Sits, OfDest
<1>3. \A e \in Dest : /\ pipe'[e].used = pipe[e].used
                      /\ e # d => pipe'[e].cleanedUp = pipe[e].cleanedUp
  BY <1>1 DEF Inv, PipesFit
<1>4. Same /\ Ticking /\ Overrides' = Overrides
  BY <1>1, <1>3, SitsOn DEF Same, Ticking
<1>5. Listeners'
  <2>1. Listener' = Listener
    BY <1>1, <1>3, <1>4 DEF Listener
  <2>2. {e \in Dest : pipe[e].used}' = {e \in Dest : pipe[e].used}
    BY <1>3
  <2> DEFINE Used == {e \in Dest : pipe[e].used}
  <2>3. on.data \in Seq(Listener) /\ on.end \in Seq(Used)
    BY DEF Waiting, Listeners
  <2> HIDE DEF Used
  <2>4. on'.data \in Seq(Listener) /\ on'.end \in Seq(Used)
    BY <1>1, <2>3, StillOf
  <2>5. \A e \in Dest :
          /\ {"status", "needDrain"} \subseteq DOMAIN dest'[e]
          /\ dest'[e].needDrain \/ dest'[e].status # "open" \/ pipe'[e].cleanedUp => pipe'[e].used
          /\ pipe'[e].used => "pipe" \in client'.is.may
    BY <1>1, <1>2, <1>3 DEF Waiting, Listeners
  <2> QED
    BY <1>1, <2>1, <2>2, <2>4, <2>5 DEF Waiting, Listeners, Used
<1>6. StaysPaused'
  BY <1>1 DEF Waiting, StaysPaused, Flows
<1>7. ASSUME NEW e \in Dest, ~Overrides, Alone(e)'
      PROVE  e = d /\ Alone(e) /\ Once(on.data, e)' /\ ~In(on.data, e)'
  <2>1. Heeds(e) /\ Alone(e)
    BY <1>4, <1>7, SitsOn DEF Waiting
  <2>2. e = d
    BY <1>2, <2>1 DEF Alone
  <2>3. Once(on.data, e)' /\ ~In(on.data, e)'
    <3>1. on.data \in Seq(Listener) /\ Once(on.data, e)
      BY <2>1 DEF Waiting, Listeners, Heeds
    <3>2. Once(RemoveFirst(on.data, d), e) /\ ~In(RemoveFirst(on.data, d), e)
      BY <2>2, <3>1, OneRemoved
    <3> QED
      BY <1>1, <3>2 DEF In, Once
  <2> QED
    BY <2>1, <2>2, <2>3
<1>8. CASE stack' = <<>> \o Tail(stack)
  <2>1. <<>> \in Seq(Sit') /\ <<>> \in Seq(Slow) /\ \A e : <<>> \in Seq(Bide(e)')
    BY EmptySeq
  <2> QED
    BY <1>1, <1>4, <1>5, <1>6, <1>7, <1>8, <2>1, NothingStands, InItsPlace DEF Flows, Full
<1>9. CASE dest[d].needDrain /\ stack' = <<f>> \o Tail(stack)
  <2>1. f \in Sit' /\ f \in Slow /\ f.fn = "ondrain" /\ f \in Frame
    <3>1. pipe'[d].used
      BY <1>2, <1>3
    <3>2. f \in Sit' /\ f \in Slow /\ f.fn = "ondrain"
      BY <1>2, <3>1, ForSits DEF OfDest
    <3> QED
      BY <3>2 DEF Sit
  <2> HIDE DEF f
  <2>2. \A e : ~In(on.data, e)' => f \in Bide(e)'
    BY <2>1 DEF Bide, Bides, Full
  <2> DEFINE c == <<f>>
  <2>3. DOMAIN c = {1} /\ c[1] = f
    OBVIOUS
  <2>4. /\ c \in Seq(Sit') /\ c \in Seq(Slow) /\ c \in Seq(Frame)
        /\ \A e : ~In(on.data, e)' => c \in Seq(Bide(e)')
    BY <2>1, <2>2, OneOf
  <2>5. stack' = c \o Tail(stack)
    BY <1>9
  <2> HIDE DEF c
  <2>6. \A b : Placed(c, b)
    BY <2>1, <2>3 DEF Placed
  <2>7. ASSUME NEW e \in Dest, ~Overrides, Alone(e)'
        PROVE  Placed(c \o Tail(stack), "on data" \in client.is.may)
    <3>1. Alone(e) /\ dest[e].needDrain
      BY <1>7, <1>9, <2>7
    <3>2. Tail(stack) \in Seq({g \in Frame : g.fn \notin Backed})
      BY <1>1, <2>7, <3>1, TailQuiet
    <3> QED
      BY <2>4, <2>6, <3>2, PlacedOn
  <2> QED
    BY <1>1, <1>4, <1>5, <1>6, <1>7, <2>4, <2>5, <2>7, InItsPlace DEF Flows, Full
<1> QED
  BY <1>1, <1>8, <1>9

LEMMA WaitPipe == ASSUME Inv, Waiting, Pipe PROVE Waiting'
<1> DEFINE d == Top.who
           f == For("on data", d)
           g == For("piped", d)
           e == For("onend", d)
<1>1. /\ stack # <<>> /\ Top.fn = "pipe" /\ UNCHANGED <<dest, client>>
      /\ r'.flowing = r.flowing /\ r'.paused = r.paused
      /\ pipe' = [pipe EXCEPT ![d].used = TRUE]
      /\ on'.data = on.data
      /\ \/ ticks' = Append(ticks, e) /\ on' = on
         \/ ticks' = ticks /\ on'.end = Append(on.end, d)
      /\ stack' = <<f, g>> \o Tail(stack)
  BY DEF Pipe, Pipes, Runs, log, Set, Then, Later, Inv, Fields, Heard
<1>2. d \in Dest /\ ~pipe[d].used /\ "pipe" \in client.is.may
  <2>1. d \in Dest /\ ~pipe[d].used
    BY <1>1, Topmost DEF Fits, OfDest, View
  <2>2. "pipe" \in client.is.may
    BY <1>1, WaitBelow DEF Sit, Sits
  <2> QED
    BY <2>1, <2>2
<1>3. /\ pipe'[d].used /\ pipe'[d].cleanedUp = pipe[d].cleanedUp
      /\ \A x \in Dest : /\ pipe[x].used => pipe'[x].used
                         /\ x # d => pipe'[x] = pipe[x]
  BY <1>1, <1>2 DEF Inv, PipesFit
<1>4. Same /\ Overrides' = Overrides
  BY <1>1, <1>3, SitsOn DEF Same
<1>5. /\ f \in Frame /\ f.fn = "on data" /\ f.who = d /\ f \in Sit' /\ f \in Slow
      /\ g \in Frame /\ g.fn = "piped" /\ g.who = d /\ g \in Sit' /\ g \in Slow
      /\ e \in TickSit'
  <2>1. f \in Frame /\ f.fn = "on data" /\ f.who = d
    <3>1. "on data" \in Pieces
      BY DEF Pieces
    <3> QED
      BY <1>2, <3>1, FrameFor
  <2>2. f \in Sit' /\ f \in Slow
    <3> HIDE DEF f
    <3>1. d # "user"
      BY <1>2, NameAssumption
    <3> QED
      BY <1>2, <1>3, <2>1, <3>1 DEF Sit, Sits, Looping, OfDest, Leaves, Slow
  <2>3. g.fn = "piped" /\ g.who = d /\ g \in Sit' /\ g \in Slow /\ e \in TickSit'
    <3>1. "piped" \in OfDest \ {"pipe"} /\ "onend" \in OfDest \ {"pipe"}
      BY DEF OfDest
    <3> HIDE DEF d
    <3>2. g.fn = "piped" /\ g.who = d /\ g \in Sit' /\ g \in Slow
      BY <1>2, <1>3, <3>1, ForSits
    <3>3. e \in TickSit'
      BY <1>2, <1>3, <3>1, ForSits
    <3> QED
      BY <3>2, <3>3
  <2>4. g \in Frame
    BY <2>3 DEF Sit
  <2> QED
    BY <2>1, <2>2, <2>3, <2>4
<1>6. Ticking
  BY <1>1, <1>5 DEF Ticking
<1>7. Listeners'
  <2>1. Listener \subseteq Listener'
    BY <1>1, <1>3, <1>4 DEF Listener
  <2> DEFINE Used == {x \in Dest : pipe'[x].used}
  <2>2. on'.data \in Seq(Listener')
    <3>1. on.data \in Seq(Listener)
      BY DEF Waiting, Listeners
    <3> QED
      BY <1>1, <2>1, <3>1, Wider
  <2>3. on'.end \in Seq(Used)
    <3>1. on.end \in Seq({x \in Dest : pipe[x].used})
      BY DEF Waiting, Listeners
    <3>2. {x \in Dest : pipe[x].used} \subseteq Used /\ d \in Used
      BY <1>2, <1>3
    <3> HIDE DEF Used
    <3>3. on.end \in Seq(Used)
      BY <3>1, <3>2, Wider
    <3>4. Append(on.end, d) \in Seq(Used)
      BY <3>2, <3>3, AppendProperties
    <3> QED
      BY <1>1, <3>3, <3>4
  <2>4. \A x \in Dest :
          /\ {"status", "needDrain"} \subseteq DOMAIN dest'[x]
          /\ dest'[x].needDrain \/ dest'[x].status # "open" \/ pipe'[x].cleanedUp => pipe'[x].used
          /\ pipe'[x].used => "pipe" \in client'.is.may
    BY <1>1, <1>2, <1>3 DEF Waiting, Listeners
  <2> QED
    BY <1>1, <2>2, <2>3, <2>4 DEF Waiting, Listeners
<1>8. StaysPaused'
  BY <1>1 DEF Waiting, StaysPaused, Flows
<1> HIDE DEF f, g, e
<1> DEFINE c == <<f, g>>
<1>9. /\ Len(c) = 2 /\ DOMAIN c = {1, 2} /\ c[1] = f /\ c[2] = g
      /\ \A S : f \in S /\ g \in S => c \in Seq(S)
  OBVIOUS
<1>10. stack' = c \o Tail(stack)
  BY <1>1
<1> HIDE DEF c
<1>11. c \in Seq(Sit') /\ c \in Seq(Slow) /\ c \in Seq(Frame) /\ \A b : Placed(c, b)
  <2>1. c \in Seq(Sit') /\ c \in Seq(Slow) /\ c \in Seq(Frame)
    BY <1>5, <1>9
  <2>2. \A b : Placed(c, b)
    BY <1>5, <1>9 DEF Placed
  <2> QED
    BY <2>1, <2>2
<1>12. ASSUME NEW x \in Dest, ~Overrides, Alone(x)'
       PROVE  /\ ~Full(x)' /\ c \in Seq(Bide(x)') /\ Once(on.data, x)'
              /\ (pipe[x].cleanedUp => ~In(on.data, x))'
              /\ Placed(c \o Tail(stack), "on data" \in client.is.may)
  <2>1. x = d /\ Alone(x) /\ Heeds(x)
    BY <1>2, <1>3, <1>4, <1>12, SitsOn DEF Alone, Waiting
  <2>2. ~dest[x].needDrain /\ ~pipe[x].cleanedUp
    BY <1>2, <2>1 DEF Waiting, Listeners
  <2>3. ~In(on.data, x)
    <3>1. on.data \in Seq(Listener)
      BY DEF Waiting, Listeners
    <3>2. \A i \in DOMAIN on.data : on.data[i] \in Listener
      BY <3>1, EachOf
    <3>3. x \notin Listener
      BY <1>2, <2>1, NameAssumption DEF Listener
    <3> QED
      BY <3>2, <3>3 DEF In
  <2>4. ~In(on.data, x)' /\ Once(on.data, x)' /\ ~dest'[x].needDrain /\ ~pipe'[x].cleanedUp
    BY <1>1, <1>3, <2>1, <2>2, <2>3 DEF In, Once, Heeds
  <2>5. ~Full(x)' /\ Fresh(x)'
    BY <2>4 DEF Full, Fresh
  <2>6. f \in Bide(x)' /\ g \in Bide(x)'
    BY <1>5, <2>4, <2>5 DEF Bide, Bides
  <2>7. c \in Seq(Bide(x)')
    BY <1>9, <2>6
  <2>8. Tail(stack) \in Seq({h \in Frame : h.fn \notin Backed})
    BY <1>1, <1>2, <1>12, <2>1, TailQuiet
  <2>9. Placed(c \o Tail(stack), "on data" \in client.is.may)
    BY <1>11, <2>8, PlacedOn
  <2> QED
    BY <2>4, <2>5, <2>7, <2>9
<1> QED
  BY <1>1, <1>4, <1>6, <1>7, <1>8, <1>10, <1>11, <1>12, InItsPlace DEF Flows, Full

LEMMA WaitEmitData == ASSUME Inv, Waiting, EmitData PROVE Waiting'
<1> DEFINE G(w) == IF w = "user" THEN Do("user") ELSE [Top EXCEPT !.fn = "ondata", !.who = w]
           c == [i \in DOMAIN on.data |-> G(on.data[i])]
<1>1. /\ stack # <<>> /\ Top.fn = "data" /\ UNCHANGED <<r, ticks, on, pipe, dest, client>>
      /\ stack' = c \o Tail(stack) /\ Top \in Frame
  BY Topmost DEF EmitData, Then, Runs
<1>2. SameAll /\ r'.paused = r.paused /\ SameWorld
  BY <1>1, DestsStay DEF SameAll, SameWorld
<1>3. /\ on.data \in Seq(Listener) /\ Len(on.data) \in Nat /\ DOMAIN on.data = 1 .. Len(on.data)
      /\ \A i \in DOMAIN on.data : on.data[i] \in Listener
  <2>1. on.data \in Seq(Listener)
    BY DEF Waiting, Listeners
  <2> QED
    BY <2>1, EachOf, LenProperties
<1>4. ASSUME NEW w \in Listener
      PROVE  /\ G(w) \in Frame /\ G(w) \in Sit' /\ G(w) \in Slow
             /\ w = "user" => G(w).fn = "user"
             /\ w # "user" => G(w).fn = "ondata" /\ G(w).who = w /\ w \in Dest /\ pipe[w].used
  <2>1. CASE w = "user"
    <3>1. Do("user") \in Mild /\ Do("user").fn = "user"
      BY Milds DEF Tame, Do
    <3>2. Do("user") \in Sit' /\ Do("user") \in Slow
      BY <3>1, MildSits
    <3> QED
      BY <2>1, <3>1, <3>2 DEF Sit
  <2>2. CASE w # "user"
    <3>1. w \in Dest /\ pipe[w].used /\ "ondata" \in Pieces
      BY <2>2 DEF Listener, Pieces
    <3>2. [Top EXCEPT !.fn = "ondata"] \in Frame
      BY <1>1, <3>1, FrameKept
    <3>3. [[Top EXCEPT !.fn = "ondata"] EXCEPT !.who = w] \in Frame
      BY <3>1, <3>2, FrameKept
    <3>4. /\ G(w) = [[Top EXCEPT !.fn = "ondata"] EXCEPT !.who = w]
          /\ G(w).fn = "ondata" /\ G(w).who = w
      BY <1>1, <2>2 DEF Frame
    <3>5. G(w) \in Frame
      BY <3>3, <3>4
    <3> HIDE DEF G
    <3>6. G(w) \in Sit' /\ G(w) \in Slow
      BY <1>1, <3>1, <3>4, <3>5 DEF Sit, Sits, Looping, OfDest, Leaves, Slow
    <3> QED
      BY <2>2, <3>1, <3>4, <3>5, <3>6
  <2> QED
    BY <2>1, <2>2
<1> HIDE DEF G
<1>5. DOMAIN c = DOMAIN on.data /\ \A i \in DOMAIN c : c[i] = G(on.data[i])
  OBVIOUS
<1>6. \A S : (\A i \in DOMAIN on.data : G(on.data[i]) \in S) => c \in Seq(S)
  <2> SUFFICES ASSUME NEW S, \A i \in DOMAIN on.data : G(on.data[i]) \in S PROVE c \in Seq(S)
    OBVIOUS
  <2>1. c \in [1 .. Len(on.data) -> S]
    BY <1>3
  <2> HIDE DEF c
  <2> QED
    BY <1>3, <2>1, Mapped
<1> HIDE DEF c
<1>7. c \in Seq(Sit') /\ c \in Seq(Slow)
  BY <1>3, <1>4, <1>6
<1>8. ASSUME NEW d \in Dest, ~Overrides, Alone(d)
      PROVE  ~Full(d) /\ c \in Seq(Bide(d)) /\ Placed(c, "on data" \in client.is.may)
  <2>1. Heeds(d)
    BY <1>8 DEF Waiting
  <2>2. ~Full(d)
    <3>1. Looping(Top)
      BY <1>1, <1>8, WaitBelow DEF Sit, Sits, Leaves, Looping
    <3>2. Flows
      BY <1>1, <3>1, WaitBelow DEF Sit, Sits
    <3>3. ~Stops(stack)
      BY <1>1, WaitBelow DEF Stops
    <3> QED
      BY <2>1, <3>2, <3>3 DEF Heeds, Flows
  <2>3. \A i \in DOMAIN on.data : on.data[i] # "user" => on.data[i] = d
    BY <1>3, <1>4, <1>8 DEF Alone
  <2>4. ASSUME NEW i \in DOMAIN on.data PROVE G(on.data[i]) \in Bide(d)
    <3>1. G(on.data[i]) \in Frame
      BY <1>3, <1>4
    <3>2. CASE on.data[i] = "user"
      <4>1. G(on.data[i]).fn = "user"
        BY <1>3, <1>4, <3>2
      <4> QED
        BY <3>1, <4>1 DEF Bide, Bides
    <3>3. CASE on.data[i] # "user"
      <4>1. G(on.data[i]).fn = "ondata"
        BY <1>3, <1>4, <3>3
      <4>2. ~dest[d].needDrain
        BY <2>2, <2>3, <3>3 DEF Full, In
      <4> QED
        BY <3>1, <4>1, <4>2 DEF Bide, Bides
    <3> QED
      BY <3>2, <3>3
  <2>5. c \in Seq(Bide(d))
    BY <1>6, <2>4
  <2>6. ASSUME NEW i \in DOMAIN c
        PROVE  /\ c[i].fn \in {"user", "ondata"}
               /\ c[i].fn = "ondata" =>
                     i = 1 \/ ("on data" \in client.is.may /\ \A j \in 1 .. i - 1 : c[j].fn \in Beside)
    <3>1. i \in DOMAIN on.data /\ c[i] = G(on.data[i]) /\ on.data[i] \in Listener
      BY <1>3, <1>5, <2>6
    <3>2. c[i].fn \in {"user", "ondata"}
      BY <1>4, <3>1
    <3>3. ASSUME c[i].fn = "ondata", i # 1, NEW j \in 1 .. i - 1
          PROVE  on.data[j] = "user" /\ on.data[j] \in Listener /\ c[j].fn = "user"
      <4>1. j \in DOMAIN on.data /\ j # i
        BY <1>3, <3>1
      <4>2. on.data[i] = d
        BY <1>4, <2>3, <3>1, <3>3
      <4>3. on.data[j] = "user"
        BY <2>1, <2>3, <3>1, <4>1, <4>2 DEF Heeds, Once
      <4>4. on.data[j] \in Listener /\ c[j] = G(on.data[j])
        BY <1>3, <1>5, <4>1
      <4> QED
        BY <1>4, <4>3, <4>4
    <3>4. ASSUME c[i].fn = "ondata", i # 1 PROVE "on data" \in client.is.may
      <4>1. 1 \in 1 .. i - 1
        BY <1>3, <3>1, <3>4
      <4>2. on.data[1] = "user" /\ on.data[1] \in Listener
        BY <3>3, <3>4, <4>1
      <4> QED
        BY <1>8, <4>2 DEF Listener
    <3>5. ASSUME c[i].fn = "ondata", i # 1, NEW j \in 1 .. i - 1 PROVE c[j].fn \in Beside
      BY <3>3, <3>5 DEF Beside
    <3> QED
      BY <3>2, <3>4, <3>5
  <2>7. Placed(c, "on data" \in client.is.may)
    BY <2>6 DEF Placed
  <2> QED
    BY <2>2, <2>5, <2>7
<1>9. StaysPaused' /\ Ticking
  BY <1>1 DEF Waiting, StaysPaused, Flows, Ticking
<1> QED
  BY <1>1, <1>2, <1>7, <1>8, <1>9, Turns DEF Beside, Flows

-----------------------------------------------------------------------------
(* Steps from outside: nothing waits.                                       *)

LEMMA AtRest ==
    ASSUME Waiting, stack = <<>>, Same, stack' \in Seq(Sit'), stack' \in Seq(Slow) \/ Len(stack') = 1,
           ticks' \in Seq(TickSit'), Listeners', StaysPaused',
           \A d \in Dest : ~Overrides /\ Alone(d)' =>
              /\ Full(d)' => r'.flowing = "false"
              /\ stack' \in Seq(Bide(d)') /\ Placed(stack', "on data" \in client.is.may)
              /\ Once(on.data, d)' /\ (pipe[d].cleanedUp => ~In(on.data, d))'
    PROVE  Waiting'
<1>1. PICK c : c = stack'
  OBVIOUS
<1>2. PICK u : u = <<>>
  OBVIOUS
<1>3. \A S : u \in Seq(S)
  BY <1>2, EmptySeq
<1>4. c \o u = c
  <2>1. c \in Seq(Sit')
    BY <1>1
  <2> QED
    BY <1>2, <2>1, ConcatEmptySeq
<1>5. Overrides' = Overrides /\ client'.is = client.is
  BY SitsOn DEF Same
<1>6. ASSUME ~Overrides', NEW d \in Dest, Alone(d)'
      PROVE  /\ Full(d)' => r'.flowing = "false" \/ Stops(c)
             /\ c \in Seq(Bide(d)') /\ u \in Seq(Bide(d)')
             /\ Placed(c \o u, "on data" \in client'.is.may)
             /\ Once(on.data, d)' /\ (pipe[d].cleanedUp => ~In(on.data, d))'
  BY <1>1, <1>3, <1>4, <1>5, <1>6
<1>7. stack' = c \o u
  BY <1>1, <1>4
<1> QED
  BY <1>1, <1>3, <1>6, <1>7, Put

LEMMA QuietAtRest ==
    ASSUME Inv, Waiting, stack = <<>>, SameAll, r'.paused = r.paused,
           stack' \in Seq(Sit'), stack' \in Seq(Slow) \/ Len(stack') = 1,
           stack' \in Seq({f \in Frame : f.fn \notin Backed}), ticks' \in Seq(TickSit')
    PROVE  Waiting'
<1>1. Same /\ Listeners' /\ SameWorld
  BY ListenOn DEF SameAll
<1>2. StaysPaused'
  BY DEF Waiting, StaysPaused, SameAll, SameWorld, Flows
<1>3. ASSUME NEW d \in Dest, ~Overrides, Alone(d)'
      PROVE  /\ Full(d)' => r'.flowing = "false"
             /\ stack' \in Seq(Bide(d)') /\ Placed(stack', "on data" \in client.is.may)
             /\ Once(on.data, d)' /\ (pipe[d].cleanedUp => ~In(on.data, d))'
  <2>1. Alone(d) /\ Heeds(d) /\ Full(d)' = Full(d)
    BY <1>1, <1>3, BidesOn DEF Waiting
  <2>2. Full(d)' => r'.flowing = "false"
    BY <2>1 DEF Heeds, Stops, SameAll
  <2>3. stack' \in Seq(Bide(d)') /\ Placed(stack', "on data" \in client.is.may)
    <3>1. {f \in Frame : f.fn \notin Backed} \subseteq Bide(d)'
      BY DEF Bide, Bides, Backed
    <3> QED
      BY <3>1, NotPlaced, Wider
  <2>4. Once(on.data, d)' /\ (pipe[d].cleanedUp => ~In(on.data, d))'
    BY <1>1, <2>1, BidesOn DEF Heeds, SameWorld
  <2> QED
    BY <2>2, <2>3, <2>4
<1> QED
  BY <1>1, <1>2, <1>3, AtRest

LEMMA WaitRunTick == ASSUME Inv, Waiting, RunTick PROVE Waiting'
<1> DEFINE f == Head(ticks)
<1>1. /\ stack = <<>> /\ ticks # <<>> /\ stack' = <<f>> /\ ticks' = Tail(ticks)
      /\ UNCHANGED <<r, on, pipe, dest, client>>
  BY DEF RunTick, World, log
<1>2. SameAll /\ r'.paused = r.paused /\ Same
  <2>1. SameAll
    BY <1>1, DestsStay DEF SameAll, SameWorld
  <2> QED
    BY <1>1, <2>1, ListenOn DEF SameAll
<1>3. f \in TickSit /\ Tail(ticks) \in Seq(TickSit)
  <2>1. ticks \in Seq(TickSit)
    BY DEF Waiting
  <2> HIDE DEF TickSit
  <2> QED
    BY <1>1, <2>1, Below
<1>4. f.fn \notin Backed
  <2>1. ticks \in Seq(Frame) /\ \A i \in DOMAIN ticks : ticks[i].fn \in InTicks
    BY DEF Inv, TicksFit, TickFits
  <2>2. f = ticks[1] /\ 1 \in DOMAIN ticks
    <3>1. Head(ticks) = ticks[1] /\ Len(ticks) \in Nat \ {0} /\ DOMAIN ticks = 1 .. Len(ticks)
      BY <1>1, <2>1, Below
    <3> QED
      BY <3>1
  <2>3. f.fn \in InTicks
    BY <2>1, <2>2
  <2> QED
    BY <2>3 DEF InTicks, Backed
<1>5. ticks' \in Seq(TickSit')
  BY <1>1, <1>2, <1>3, SitsOn, Wider
<1> HIDE DEF f
<1>6. f \in Sit' /\ f \in {g \in Frame : g.fn \notin Backed}
  BY <1>2, <1>3, <1>4, SitsOn DEF TickSit
<1>7. <<f>> \in Seq(Sit') /\ <<f>> \in Seq({g \in Frame : g.fn \notin Backed}) /\ Len(<<f>>) = 1
  BY <1>6, OneOf
<1> QED
  BY <1>1, <1>2, <1>5, <1>7, QuietAtRest

LEMMA MildAtRest ==
    ASSUME Inv, Waiting, stack = <<>>, UNCHANGED <<r, ticks, on, pipe, dest, client>>,
           stack' \in Seq(Mild)
    PROVE  Waiting'
<1>1. SameAll /\ r'.paused = r.paused
  BY DestsStay DEF SameAll, SameWorld
<1>2. ticks' \in Seq(TickSit')
  <2>1. Same /\ Ticking
    BY <1>1, ListenOn DEF SameAll, Ticking
  <2> QED
    BY <2>1, TicksWait
<1>3. stack' \in Seq(Sit') /\ stack' \in Seq(Slow) /\ stack' \in Seq({f \in Frame : f.fn \notin Backed})
  BY MildSits, Wider
<1> QED
  BY <1>1, <1>2, <1>3, QuietAtRest

LEMMA WaitLater ==
    ASSUME Inv, Waiting, SourceAnswersLater \/ SourcePushesUnasked
    PROVE  Waiting'
<1>1. PICK k \in 0 .. 2, end \in BOOLEAN : Gives(k, end) /\ stack' = Pushes(k, end)
  <2>1. CASE SourceAnswersLater
    <3>1. 0 .. 1 \subseteq 0 .. 2
      OBVIOUS
    <3> QED
      BY <2>1, <3>1 DEF SourceAnswersLater
  <2>2. CASE SourcePushesUnasked
    <3>1. 0 \in 0 .. 2 /\ 1 \in 0 .. 2
      OBVIOUS
    <3> QED
      BY <2>2, <3>1 DEF SourcePushesUnasked
  <2> QED
    BY <2>1, <2>2
<1>2. stack = <<>>
  BY DEF SourceAnswersLater, SourcePushesUnasked
<1>3. source.count \in Nat /\ UNCHANGED <<r, on, pipe, dest, ticks, client, pushed, delivered, got, emitted>>
  BY <1>1, Given
<1>4. stack' \in Seq(Mild)
  BY <1>1, <1>3, MildPushes
<1> QED
  BY <1>2, <1>3, <1>4, MildAtRest

LEMMA WaitLate == ASSUME Inv, Waiting, SourcePushesLate PROVE Waiting'
<1> DEFINE f == PushOf(<<source.count + 1>>)
<1>1. stack = <<>> /\ stack' = <<f>> /\ UNCHANGED <<r, on, pipe, dest, ticks, client>>
  BY DEF SourcePushesLate, log
<1>2. f \in Mild
  <2>1. <<source.count + 1>> \in Seq(Nat) /\ "push" \in Pieces
    BY DEF Inv, Others, Pieces
  <2>2. f \in Frame /\ f.fn = "push"
    BY <2>1, Frames DEF PushOf
  <2> HIDE DEF f
  <2> QED
    BY <2>2 DEF Mild, Plain, OfDest, Backed
<1> HIDE DEF f
<1> QED
  BY <1>1, <1>2, OneOf, MildAtRest

LEMMA WaitDestFinishes == ASSUME Inv, Waiting, NEW d \in Dest, DestFinishes(d) PROVE Waiting'
<1> DEFINE f == For("unpipe", d)
<1>1. /\ stack = <<>> /\ stack' = <<f>> /\ dest[d].status = "ending"
      /\ dest' = [dest EXCEPT ![d].status = "finished"]
      /\ UNCHANGED <<r, on, pipe, ticks, client>>
  BY DEF DestFinishes, Elsewhere, log
<1>2. pipe[d].used
  BY <1>1 DEF Waiting, Listeners
<1>3. SameAll /\ r'.paused = r.paused
  <2>1. SameDests
    BY <1>1, <1>2 DEF Waiting, Listeners, SameDests
  <2> QED
    BY <1>1, <2>1 DEF SameAll, SameWorld
<1>4. ticks' \in Seq(TickSit')
  <2>1. Same /\ Ticking
    BY <1>1, <1>3, ListenOn DEF SameAll, Ticking
  <2> QED
    BY <2>1, TicksWait
<1>5. f \in Sit' /\ f \in {g \in Frame : g.fn \notin Backed}
  <2>1. f \in Sit' /\ f.fn = "unpipe"
    BY <1>1, <1>2, ForSits DEF OfDest
  <2> QED
    BY <2>1 DEF Sit, Backed
<1> HIDE DEF f
<1>6. <<f>> \in Seq(Sit') /\ <<f>> \in Seq({g \in Frame : g.fn \notin Backed}) /\ Len(<<f>>) = 1
  BY <1>5, OneOf
<1> QED
  BY <1>1, <1>3, <1>4, <1>6, QuietAtRest

LEMMA WaitDestDrains == ASSUME Inv, Waiting, NEW d \in Dest, DestDrains(d) PROVE Waiting'
<1> DEFINE f == For("ondrain", d)
<1>1. /\ stack = <<>>
      /\ stack' = <<>> \/ stack' = <<f>>
      /\ dest[d].needDrain /\ dest' = [dest EXCEPT ![d].needDrain = FALSE]
      /\ UNCHANGED <<r, on, pipe, ticks, client>>
  BY DEF DestDrains, Elsewhere, log, WritableNeedDrain
<1>2. pipe[d].used /\ pipe'[d].used
  BY <1>1 DEF Waiting, Listeners
<1>3. Same /\ Overrides' = Overrides /\ ticks' \in Seq(TickSit')
  <2>1. Same /\ Ticking
    BY <1>1 DEF Same, Ticking
  <2> QED
    BY <2>1, TicksWait, SitsOn
<1>4. Listeners'
  <2>1. Listener' = Listener
    BY <1>1, <1>3 DEF Listener
  <2> QED
    BY <1>1, <2>1 DEF Waiting, Listeners
<1>5. StaysPaused'
  BY <1>1 DEF Waiting, StaysPaused, Flows
<1>6. f \in Sit' /\ f.fn = "ondrain" /\ f \in Frame /\ f \in Slow
  <2>1. f \in Sit' /\ f.fn = "ondrain" /\ f \in Slow
    BY <1>2, ForSits DEF OfDest
  <2> QED
    BY <2>1 DEF Sit
<1> HIDE DEF f
<1>7. ASSUME NEW e \in Dest, ~Overrides, Alone(e)'
      PROVE  /\ ~Full(e)' /\ f \in Bide(e)'
             /\ Once(on.data, e)' /\ (pipe[e].cleanedUp => ~In(on.data, e))'
  <2>1. e = d /\ Heeds(e)
    BY <1>2, <1>3, <1>7, SitsOn DEF Alone, Waiting
  <2>2. ~dest'[e].needDrain
    BY <1>1, <2>1 DEF Waiting, Listeners
  <2>3. ~Full(e)'
    BY <2>2 DEF Full
  <2>4. f \in Bide(e)'
    BY <1>6, <2>3 DEF Bide, Bides
  <2>5. Once(on.data, e)' /\ (pipe[e].cleanedUp => ~In(on.data, e))'
    BY <1>1, <2>1 DEF Heeds, Once, In
  <2> QED
    BY <2>3, <2>4, <2>5
<1> DEFINE c == <<f>>
<1>8. c \in Seq(Slow) /\ DOMAIN c = {1} /\ c[1] = f /\ \A S : f \in S => c \in Seq(S)
  BY <1>6, OneOf
<1>9. stack' = <<>> \/ stack' = c
  BY <1>1
<1> HIDE DEF c
<1>10. \A b : Placed(<<>>, b) /\ Placed(c, b)
  BY <1>6, <1>8, EmptySeq, NotPlaced DEF Placed
<1>11. stack' \in Seq(Sit') /\ stack' \in Seq(Slow) /\ \A b : Placed(stack', b)
  BY <1>6, <1>8, <1>9, <1>10, EmptySeq
<1>12. ASSUME NEW e \in Dest, ~Overrides, Alone(e)' PROVE stack' \in Seq(Bide(e)')
  BY <1>7, <1>8, <1>9, <1>12, EmptySeq
<1> QED
  BY <1>1, <1>3, <1>4, <1>5, <1>7, <1>11, <1>12, AtRest

-----------------------------------------------------------------------------
(* Steps of the client, at rest or from a listener.                         *)

\* A call over what waits.
LEMMA PlacedOver ==
    ASSUME NEW s \in Seq(Frame), NEW b, Placed(s, b), s = <<>> \/ s[1].fn = "user",
           NEW f \in Frame, f.fn \in Beside, NEW t, t = <<f>> \o s
    PROVE  Placed(t, b)
<1> DEFINE c == <<f>>
<1>1. c \in Seq(Frame) /\ Len(c) = 1 /\ c[1] = f /\ t = c \o s
  OBVIOUS
<1> HIDE DEF c
<1>2. Len(s) \in Nat /\ DOMAIN s = 1 .. Len(s) /\ DOMAIN t = 1 .. 1 + Len(s)
  BY <1>1, OnTop
<1>3. /\ \A i \in 1 .. Len(c) : t[i] = c[i]
      /\ \A i \in Len(c) + 1 .. Len(c) + Len(s) : t[i] = s[i - Len(c)]
  BY <1>1, OnTop
<1>4. t[1] = f /\ \A i \in 2 .. 1 + Len(s) : t[i] = s[i - 1]
  BY <1>1, <1>2, <1>3
<1>5. 1 \in DOMAIN s => s[1].fn = "user"
  BY <1>2
<1>6. ASSUME NEW i \in DOMAIN t, i # 1
      PROVE  /\ t[i].fn \notin {"resume", "ondrain", "on data", "piped"}
             /\ t[i].fn = "ondata" => b /\ \A j \in 1 .. i - 1 : t[j].fn \in Beside
  <2>1. i - 1 \in DOMAIN s /\ t[i] = s[i - 1] /\ i - 1 \in Nat /\ 1 \in DOMAIN s
    BY <1>2, <1>4, <1>6
  <2>2. CASE i - 1 = 1
    BY <1>5, <2>1, <2>2
  <2>3. CASE i - 1 # 1
    <3>1. /\ s[i - 1].fn \notin {"resume", "ondrain", "on data", "piped"}
          /\ s[i - 1].fn = "ondata" => b /\ \A j \in 1 .. (i - 1) - 1 : s[j].fn \in Beside
      BY <1>5, <2>1, <2>3 DEF Placed
    <3>2. ASSUME s[i - 1].fn = "ondata", NEW j \in 1 .. i - 1 PROVE t[j].fn \in Beside
      <4>1. CASE j = 1
        BY <1>4, <4>1
      <4>2. CASE j # 1
        <5>1. j \in 2 .. 1 + Len(s) /\ j - 1 \in 1 .. (i - 1) - 1
          BY <1>2, <1>6, <3>2, <4>2
        <5> QED
          BY <1>4, <3>1, <3>2, <5>1
      <4> QED
        BY <4>1, <4>2
    <3> QED
      BY <2>1, <3>1, <3>2
  <2> QED
    BY <2>2, <2>3
<1>7. f.fn # "piped" /\ f.fn # "ondata"
  BY DEF Beside
<1> QED
  BY <1>4, <1>6, <1>7 DEF Placed

\* Nothing that writes waits for a client who does not listen.
LEMMA NothingWrites ==
    ASSUME NEW s \in Seq(Frame), Placed(s, FALSE), s = <<>> \/ s[1].fn = "user"
    PROVE  s \in Seq({f \in Frame : f.fn \notin Backed})
<1>1. Len(s) \in Nat /\ DOMAIN s = 1 .. Len(s)
  BY LenProperties
<1>2. ASSUME NEW i \in DOMAIN s PROVE s[i] \in {f \in Frame : f.fn \notin Backed}
  <2>1. 1 \in DOMAIN s /\ s[1].fn = "user" /\ s[i] \in Frame
    <3>1. s # <<>> /\ 1 \in DOMAIN s
      BY <1>1, <1>2
    <3> QED
      BY <3>1, EachOf
  <2>2. s[i].fn \notin Backed
    <3>1. i = 1 => s[i].fn = "user"
      BY <2>1
    <3>2. i # 1 => s[i].fn \notin {"resume", "ondrain", "on data", "ondata", "piped"}
      BY <1>2, <2>1 DEF Placed
    <3> QED
      BY <3>1, <3>2 DEF Backed
  <2> QED
    BY <2>1, <2>2
<1> QED
  BY <1>2, OfElements

LEMMA FromClient ==
    ASSUME Inv, Waiting, stack = <<>> \/ Runs("user")
    PROVE  /\ stack \in Seq(Frame) /\ stack \in Seq(Slow) /\ stack \in Seq(Sit)
           /\ stack = <<>> \/ stack[1].fn = "user"
           /\ ~Stops(stack)
<1>1. stack \in Seq(Frame) /\ stack \in Seq(Sit)
  BY DEF Inv, Stacked, Shape, Waiting
<1>2. stack = <<>> \/ stack[1].fn = "user"
  BY Topmost DEF Runs
<1>3. stack \in Seq(Slow)
  <2>1. ASSUME NEW i \in DOMAIN stack PROVE stack[i] \in Slow
    <3>1. stack # <<>> /\ stack[i] \in Frame
      BY <1>1, <2>1, EachOf
    <3>2. i = 1 => stack[i].fn = "user"
      BY <1>2, <3>1
    <3> QED
      BY <2>1, <3>1, <3>2 DEF Waiting, FlowsOnTop, Slow
  <2> QED
    BY <1>1, <2>1, OfElements
<1>4. ~Stops(stack)
  BY <1>2 DEF Stops
<1> QED
  BY <1>1, <1>2, <1>3, <1>4

LEMMA CallWaits ==
    ASSUME Inv, Waiting, stack = <<>> \/ Runs("user"), NEW c, stack' = c \o stack,
           c \in Seq(Sit'), c \in Seq(Slow), SameAll, r'.paused = r.paused, Ticking,
           \A d \in Dest : ~Overrides /\ Alone(d) =>
              c \in Seq(Bide(d)) /\ Placed(c \o stack, "on data" \in client.is.may)
    PROVE  Waiting'
<1>1. Same /\ Listeners' /\ SameWorld /\ Overrides' = Overrides
  BY ListenOn, SitsOn DEF SameAll
<1>2. StaysPaused' /\ ticks' \in Seq(TickSit') /\ (Flows => Flows')
  BY <1>1, TicksWait DEF Waiting, StaysPaused, SameAll, SameWorld, Flows
<1>3. stack \in Seq(Slow) /\ stack \in Seq(Sit')
  BY <1>1, <1>2, FromClient, SitsOn, Wider
<1>4. ASSUME ~Overrides', NEW d \in Dest, Alone(d)'
      PROVE  /\ Full(d)' => r'.flowing = "false" \/ Stops(c)
             /\ c \in Seq(Bide(d)') /\ stack \in Seq(Bide(d)')
             /\ Placed(c \o stack, "on data" \in client'.is.may)
             /\ Once(on.data, d)' /\ (pipe[d].cleanedUp => ~In(on.data, d))'
  <2>1. Alone(d) /\ Heeds(d) /\ Full(d)' = Full(d) /\ Bide(d)' = Bide(d)
    BY <1>1, <1>4, BidesOn DEF Waiting
  <2>2. Full(d)' => r'.flowing = "false"
    BY <2>1, FromClient DEF Heeds, SameAll
  <2>3. stack \in Seq(Bide(d)')
    BY <2>1 DEF Heeds
  <2>4. Once(on.data, d)' /\ (pipe[d].cleanedUp => ~In(on.data, d))'
    BY <1>1, <2>1, BidesOn DEF Heeds, SameWorld
  <2>5. c \in Seq(Bide(d)') /\ Placed(c \o stack, "on data" \in client'.is.may)
    BY <1>1, <1>4, <2>1 DEF Same
  <2> QED
    BY <2>2, <2>3, <2>4, <2>5
<1> QED
  BY <1>1, <1>2, <1>3, <1>4, Put

LEMMA CalledWaits ==
    ASSUME Inv, Waiting, NEW call, NEW f \in Sit, Calls(call, f), dest' = dest,
           f \in Slow, ~Looping(f),
           \/ Overrides
           \/ f.fn \in Beside \ {"resume"} /\ (f.fn = "on data" => f.who = "user")
           \/ f.fn = "unshift" /\ "on data" \notin client.is.may
    PROVE  Waiting'
<1>1. /\ stack = <<>> \/ Runs("user")
      /\ client'.is = client.is /\ UNCHANGED <<r, on, pipe, ticks, dest>>
      /\ stack' = <<f>> \o stack
  BY DEF Calls, MayCall, log, Inv, Others
<1>2. SameAll /\ r'.paused = r.paused /\ Ticking /\ Same
  <2>1. SameAll
    BY <1>1, DestsStay DEF SameAll, SameWorld
  <2> QED
    BY <1>1, <2>1, ListenOn DEF SameAll, Ticking
<1>3. f \in Sit' /\ f \in Frame
  BY <1>2, SitsOn DEF Sit
<1> DEFINE c == <<f>>
<1>4. c \in Seq(Sit') /\ c \in Seq(Slow) /\ c \in Seq(Frame) /\ \A S : f \in S => c \in Seq(S)
  BY <1>3, OneOf
<1>5. stack' = c \o stack
  BY <1>1
<1>6. ASSUME NEW d \in Dest, ~Overrides, Alone(d)
      PROVE  c \in Seq(Bide(d)) /\ Placed(c \o stack, "on data" \in client.is.may)
  <2>1. Placed(stack, "on data" \in client.is.may)
    BY <1>6 DEF Waiting, Heeds
  <2>2. /\ stack \in Seq(Frame)
        /\ stack = <<>> \/ stack[1].fn = "user"
    BY <1>1, FromClient
  <2>3. CASE f.fn \in Beside \ {"resume"} /\ (f.fn = "on data" => f.who = "user")
    <3>1. f \in Bide(d)
      BY <1>3, <2>3, NameAssumption DEF Bide, Bides, Beside
    <3>2. Placed(c \o stack, "on data" \in client.is.may)
      BY <1>3, <2>1, <2>2, <2>3, PlacedOver
    <3> QED
      BY <1>4, <3>1, <3>2
  <2>4. CASE f.fn = "unshift" /\ "on data" \notin client.is.may
    <3>1. f \in {g \in Frame : g.fn \notin Backed} /\ f \in Bide(d)
      BY <1>3, <2>4 DEF Backed, Bide, Bides
    <3>2. Placed(stack, FALSE)
      BY <2>1, <2>4 DEF Placed
    <3>3. stack \in Seq({g \in Frame : g.fn \notin Backed})
      BY <2>2, <3>2, NothingWrites
    <3>4. Placed(c, "on data" \in client.is.may)
      BY <1>4, <3>1, NotPlaced
    <3> QED
      BY <1>4, <3>1, <3>3, <3>4, PlacedOn
  <2> QED
    BY <1>6, <2>3, <2>4
<1> HIDE DEF c
<1> QED
  BY <1>1, <1>2, <1>4, <1>5, <1>6, CallWaits

LEMMA WaitListens == ASSUME Inv, Waiting, ClientListens PROVE Waiting'
<1>1. {"on data", "off data", "on readable", "off readable"} \subseteq Pieces /\ "user" \in Dest \cup {"user"}
  BY DEF Pieces
<1>2. /\ For("on data", "user") \in Frame /\ For("on data", "user").fn = "on data"
      /\ For("on data", "user").who = "user"
      /\ For("off data", "user") \in Frame /\ For("off data", "user").fn = "off data"
  BY <1>1, FrameFor
<1>3. /\ Do("on readable") \in Frame /\ Do("on readable").fn = "on readable"
      /\ Do("off readable") \in Frame /\ Do("off readable").fn = "off readable"
  BY <1>1, Frames
<1>4. dest' = dest
  BY DEF ClientListens
<1>5. CASE Calls("on data", For("on data", "user"))
  <2> DEFINE f == For("on data", "user")
  <2>1. Calls("on data", f) /\ "on data" \in client.is.may
    BY <1>5 DEF Calls, MayCall
  <2>2. f \in Frame /\ f.fn = "on data" /\ f.who = "user"
    BY <1>2
  <2> HIDE DEF f
  <2>3. f \in Sit /\ f \in Slow /\ ~Looping(f)
    BY <2>1, <2>2 DEF Sit, Sits, Looping, OfDest, Leaves, Slow
  <2> QED
    BY <1>4, <2>1, <2>2, <2>3, CalledWaits DEF Beside
<1>6. CASE Calls("off data", For("off data", "user"))
  <2> DEFINE f == For("off data", "user")
  <2>1. Calls("off data", f)
    BY <1>6
  <2>2. f \in Frame /\ f.fn = "off data"
    BY <1>2
  <2> HIDE DEF f
  <2>3. f \in Sit /\ f \in Slow /\ ~Looping(f)
    BY <2>2 DEF Sit, Sits, Looping, OfDest, Leaves, Slow
  <2> QED
    BY <1>4, <2>1, <2>2, <2>3, CalledWaits DEF Beside
<1>7. CASE Calls("on readable", Do("on readable"))
  <2> DEFINE f == Do("on readable")
  <2>1. Calls("on readable", f)
    BY <1>7
  <2>2. f \in Frame /\ f.fn = "on readable"
    BY <1>3
  <2> HIDE DEF f
  <2>3. f \in Sit /\ f \in Slow /\ ~Looping(f)
    BY <2>2 DEF Sit, Sits, Looping, OfDest, Leaves, Slow
  <2> QED
    BY <1>4, <2>1, <2>2, <2>3, CalledWaits DEF Beside
<1>8. CASE Calls("off readable", Do("off readable"))
  <2> DEFINE f == Do("off readable")
  <2>1. Calls("off readable", f) /\ Overrides
    BY <1>8 DEF Calls, MayCall, Overrides
  <2>2. f \in Frame /\ f.fn = "off readable"
    BY <1>3
  <2> HIDE DEF f
  <2>3. f \in Sit /\ f \in Slow /\ ~Looping(f)
    BY <2>1, <2>2 DEF Sit, Sits, Looping, OfDest, Slow
  <2> QED
    BY <1>4, <2>1, <2>2, <2>3, CalledWaits
<1> QED
  BY <1>5, <1>6, <1>7, <1>8 DEF ClientListens

\* A client that reads overrides whatever was asked.
LEMMA ReaderWaits ==
    ASSUME Inv, Waiting, NEW n \in {NaN, 1}, NEW call \in {"read()", "read(1)"},
           Calls(call, Read(n)), dest' = dest
    PROVE  Waiting'
<1> DEFINE f == Read(n)
<1>1. Calls(call, f) /\ Overrides
  BY DEF Calls, MayCall, Overrides
<1>2. f \in Frame /\ f.fn = "read" /\ f.loop = ""
  <2>1. n \in -1 .. 1
    BY NotANumber
  <2>2. Read(n) \in Frame /\ Read(n).fn = "read"
    BY <2>1, Frames
  <2> QED
    BY <2>2 DEF Read, Do
<1> HIDE DEF f
<1>3. f \in Sit /\ f \in Slow /\ ~Looping(f)
  BY <1>1, <1>2 DEF Sit, Sits, Looping, OfDest, Slow
<1> QED
  BY <1>1, <1>3, CalledWaits

LEMMA WaitReads == ASSUME Inv, Waiting, ClientReads PROVE Waiting'
<1>1. dest' = dest
  BY DEF ClientReads
<1>2. ASSUME delivered # <<>>, Calls("unshift", [Do("unshift") EXCEPT !.data = <<Last(delivered)>>])
      PROVE  Waiting'
  <2> DEFINE f == [Do("unshift") EXCEPT !.data = <<Last(delivered)>>]
  <2>1. Calls("unshift", f) /\ "unshift" \in client.is.may
    BY <1>2 DEF Calls, MayCall
  <2>2. f \in Frame /\ f.fn = "unshift"
    <3>1. delivered \in Seq(Nat)
      BY DEF Inv, Others
    <3>2. Last(delivered) \in Nat
      BY <1>2, <3>1, LastBack
    <3> DEFINE b == <<Last(delivered)>>
    <3>3. b \in Seq(Nat) /\ "unshift" \in Pieces
      BY <3>2 DEF Pieces
    <3> HIDE DEF b
    <3>4. [Do("unshift") EXCEPT !.data = b] \in Frame /\ [Do("unshift") EXCEPT !.data = b].fn = "unshift"
      BY <3>3, Frames
    <3> QED
      BY <3>4 DEF b
  <2> HIDE DEF f
  <2>3. f \in Sit /\ f \in Slow /\ ~Looping(f)
    BY <2>2 DEF Sit, Sits, Looping, OfDest, Leaves, Slow
  <2>4. Overrides \/ "on data" \notin client.is.may
    BY <2>1 DEF Overrides
  <2> QED
    BY <1>1, <2>1, <2>2, <2>3, <2>4, CalledWaits
<1>3. CASE Calls("read()", Read(NaN))
  BY <1>1, <1>3, ReaderWaits
<1>4. CASE Calls("read(1)", Read(1))
  BY <1>1, <1>4, ReaderWaits
<1> QED
  BY <1>2, <1>3, <1>4 DEF ClientReads

\* The other calls, which may wait on top of whatever does.
LEMMA BesideWaits ==
    ASSUME Inv, Waiting, NEW call, NEW f \in Frame, Calls(call, f), dest' = dest,
           f.fn \in Beside \ {"resume", "on data", "pipe"},
           f.fn \in OfDest => f.who \in Dest /\ pipe[f.who].used
    PROVE  Waiting'
<1>1. f \in Sit /\ f \in Slow /\ ~Looping(f)
  BY DEF Sit, Sits, Looping, Leaves, Slow, Beside
<1> QED
  BY <1>1, CalledWaits

LEMMA WaitPauses == ASSUME Inv, Waiting, ClientPauses PROVE Waiting'
<1>1. dest' = dest /\ (Calls("pause", Do("pause")) \/ Calls("resume", Do("resume")))
  BY DEF ClientPauses
<1>2. "pause" \in Pieces /\ "resume" \in Pieces
  BY DEF Pieces
<1>3. /\ Do("pause") \in Frame /\ Do("pause").fn = "pause"
      /\ Do("resume") \in Frame /\ Do("resume").fn = "resume"
  BY <1>2, Frames
<1>4. CASE Calls("pause", Do("pause"))
  BY <1>1, <1>3, <1>4, BesideWaits DEF Beside, OfDest
<1>5. CASE Calls("resume", Do("resume"))
  <2> DEFINE f == Do("resume")
  <2>1. Calls("resume", f) /\ Overrides
    BY <1>5 DEF Calls, MayCall, Overrides
  <2>2. f \in Frame /\ f.fn = "resume"
    BY <1>3
  <2> HIDE DEF f
  <2>3. f \in Sit /\ f \in Slow /\ ~Looping(f)
    BY <2>1, <2>2 DEF Sit, Sits, Looping, OfDest, Slow
  <2> QED
    BY <1>1, <2>1, <2>3, CalledWaits
<1> QED
  BY <1>1, <1>4, <1>5

LEMMA WaitPipes == ASSUME Inv, Waiting, ClientPipes PROVE Waiting'
<1>1. dest' = dest
  BY DEF ClientPipes
<1>2. {"pipe", "unpipe", "unpipe all"} \subseteq Pieces
  BY DEF Pieces
<1>3. ASSUME NEW d \in Dest, Calls("pipe", For("pipe", d)) PROVE Waiting'
  <2> DEFINE f == For("pipe", d)
  <2>1. Calls("pipe", f) /\ "pipe" \in client.is.may
    BY <1>3 DEF Calls, MayCall
  <2>2. f \in Frame /\ f.fn = "pipe"
    BY <1>2, FrameFor
  <2> HIDE DEF f
  <2>3. f \in Sit /\ f \in Slow /\ ~Looping(f)
    BY <2>1, <2>2 DEF Sit, Sits, Looping, Leaves, Slow
  <2> QED
    BY <1>1, <2>1, <2>2, <2>3, CalledWaits DEF Beside
<1>4. ASSUME NEW d \in Dest, d \in Range(r.pipes), Calls("unpipe", For("unpipe", d)) PROVE Waiting'
  <2> DEFINE f == For("unpipe", d)
  <2>1. Calls("unpipe", f)
    BY <1>4
  <2>2. f \in Frame /\ f.fn = "unpipe" /\ f.who = d
    BY <1>2, FrameFor
  <2>3. pipe[d].used
    BY <1>4 DEF Inv, PipesFit, Range
  <2> HIDE DEF f
  <2> QED
    BY <1>1, <2>1, <2>2, <2>3, BesideWaits DEF Beside
<1>5. ASSUME Calls("unpipe all", Do("unpipe all")) PROVE Waiting'
  <2>1. Do("unpipe all") \in Frame /\ Do("unpipe all").fn = "unpipe all"
    BY <1>2, Frames
  <2> QED
    BY <1>1, <1>5, <2>1, BesideWaits DEF Beside, OfDest
<1> QED
  BY <1>3, <1>4, <1>5 DEF ClientPipes

LEMMA WaitDestroys == ASSUME Inv, Waiting, ClientDestroys PROVE Waiting'
<1>1. ASSUME NEW n \in {0, 1}, Calls("destroy", [Do("destroy") EXCEPT !.n = n]), dest' = dest
      PROVE  Waiting'
  <2>1. [Do("destroy") EXCEPT !.n = n] \in Frame /\ [Do("destroy") EXCEPT !.n = n].fn = "destroy"
    BY DestroyFrames
  <2> QED
    BY <1>1, <2>1, BesideWaits DEF Beside, OfDest
<1> QED
  BY <1>1 DEF ClientDestroys

LEMMA WaitDestroysDest == ASSUME Inv, Waiting, ClientDestroysDest PROVE Waiting'
<1>1. PICK d \in Dest : /\ client' = [client EXCEPT !.calls = @ + 1]
                        /\ ticks' = Append(ticks, For("dest closes", d))
                        /\ pipe[d].used /\ MayCall("destroy dest")
                        /\ dest' = [dest EXCEPT ![d].status = "destroyed"]
                        /\ UNCHANGED <<r, on, pipe, stack>>
  BY DEF ClientDestroysDest, Later
<1>2. client'.is = client.is
  BY <1>1 DEF Inv, Others
<1>3. SameAll /\ r'.paused = r.paused
  <2>1. SameDests
    BY <1>1 DEF Waiting, Listeners, SameDests
  <2> QED
    BY <1>1, <1>2, <2>1 DEF SameAll, SameWorld
<1>4. Ticking
  <2>1. For("dest closes", d) \in TickSit'
    BY <1>1, ForSits DEF OfDest
  <2> QED
    BY <1>1, <2>1 DEF Ticking
<1>5. stack = <<>> \/ Runs("user")
  BY <1>1 DEF MayCall
<1> DEFINE c == <<>>
<1>6. stack \in Seq(Frame)
  BY <1>5, FromClient
<1>7. c \o stack = stack /\ \A S : c \in Seq(S)
  BY <1>6, ConcatEmptySeq, EmptySeq
<1>8. ASSUME NEW e \in Dest, ~Overrides, Alone(e)
      PROVE  c \in Seq(Bide(e)) /\ Placed(c \o stack, "on data" \in client.is.may)
  BY <1>7, <1>8 DEF Waiting, Heeds
<1>9. stack' = c \o stack
  BY <1>1, <1>7
<1> HIDE DEF c
<1> QED
  BY <1>3, <1>4, <1>5, <1>7, <1>8, <1>9, CallWaits

-----------------------------------------------------------------------------

LEMMA WaitInit == ASSUME Init PROVE Waiting
<1>1. /\ stack = <<>> /\ ticks = <<>> /\ on.data = <<>> /\ on.end = <<>>
      /\ r.flowing = Unset /\ r.paused = Unset
      /\ \A d \in Dest : /\ ~pipe[d].used /\ ~pipe[d].cleanedUp
                         /\ dest[d].status = "open" /\ ~dest[d].needDrain
                         /\ {"status", "needDrain"} \subseteq DOMAIN dest[d]
      /\ DOMAIN dest = Dest
  BY DEF Init
<1>2. \A S : <<>> \in Seq(S)
  BY EmptySeq
<1>3. FlowsOnTop(stack) /\ \A b : Placed(stack, b)
  BY <1>1 DEF FlowsOnTop, Placed
<1>4. Listeners
  BY <1>1, <1>2 DEF Listeners
<1>5. StaysPaused
  BY <1>1 DEF StaysPaused, Unset
<1>6. \A d \in Dest : Heeds(d)
  <2>1. ASSUME NEW d \in Dest PROVE Heeds(d)
    <3>1. ~Full(d) /\ ~In(on.data, d) /\ Once(on.data, d)
      BY <1>1 DEF Full, Once, In
    <3>2. stack \in Seq(Bide(d)) /\ Placed(stack, "on data" \in client.is.may)
      BY <1>1, <1>2, <1>3
    <3> QED
      BY <3>1, <3>2 DEF Heeds
  <2> QED
    BY <2>1
<1> QED
  BY <1>1, <1>2, <1>3, <1>4, <1>5, <1>6 DEF Waiting

LEMMA WaitSteps == ASSUME Inv, Waiting, [Next]_vars PROVE Waiting'
<1>1. CASE StreamStep
  <2>1. CASE \/ RunTick \/ ListenerReturns \/ Onreadable \/ StartRead \/ Take \/ EmitData \/ Flow
             \/ Push \/ Unshift \/ AddChunk
    BY <2>1, WaitRunTick, WaitListenerReturns, WaitOnreadable, WaitStartRead, WaitTake,
       WaitEmitData, WaitFlow, WaitPush, WaitUnshift, WaitAddChunk
  <2>2. CASE \/ EmitReadable \/ EmitReadable_ \/ ReadableEmitted \/ ReadableAgain
             \/ MaybeReadMore \/ ReadMore \/ EndReadable \/ EndReadableNT
             \/ Resume \/ Resume_ \/ Resumed \/ Flowed \/ Pause
    BY <2>2, WaitEmitReadable, WaitEmitReadable_, WaitReadableEmitted, WaitReadableAgain,
       WaitMaybeReadMore, WaitReadMore, WaitEndReadable, WaitEndReadableNT,
       WaitResume, WaitResume_, WaitResumed, WaitFlowed, WaitPause
  <2>3. CASE \/ OnData \/ OffData \/ OnReadable \/ OffReadable \/ UpdateReadableListening
             \/ Pipe \/ Piped \/ PausePipe \/ OndataRefused \/ OndataTaken \/ PipeOnDrain
    BY <2>3, WaitOnData, WaitOffData, WaitOnReadable, WaitOffReadable, WaitUpdate,
       WaitPipe, WaitPiped, WaitPausePipe, WaitOndataRefused, WaitOndataTaken, WaitPipeOnDrain
  <2>4. CASE \/ Unpipe \/ UnpipeAll \/ Cleanup \/ Onend \/ Destroy \/ EmitClose \/ DestCloses
             \/ SourceAnswersAtOnce \/ SourceKeeps
    BY <2>4, WaitUnpipe, WaitUnpipeAll, WaitCleanup, WaitOnend, WaitDestroy, WaitEmitClose,
       WaitDestCloses, WaitAtOnce, WaitSourceKeeps
  <2> QED
    BY <1>1, <2>1, <2>2, <2>3, <2>4 DEF StreamStep
<1>2. CASE Outside
  BY <1>2, WaitLater, WaitLate, WaitDestDrains, WaitDestFinishes DEF Outside
<1>3. CASE ClientStep
  BY <1>3, WaitListens, WaitReads, WaitPauses, WaitPipes, WaitDestroys, WaitDestroysDest
  DEF ClientStep
<1>4. CASE UNCHANGED vars
  <2>1. UNCHANGED <<r, on, pipe, dest, stack, ticks, client>>
    BY <1>4 DEF vars
  <2>2. Flows' = Flows /\ Overrides' = Overrides /\ Listener' = Listener
    BY <2>1 DEF Flows, Overrides, Listener
  <2>3. Sit' = Sit /\ TickSit' = TickSit
    BY <2>1, <2>2 DEF Sit, TickSit
  <2>4. Listeners' /\ StaysPaused'
    BY <2>1, <2>2 DEF Waiting, Listeners, StaysPaused
  <2>5. \A d \in Dest : Alone(d)' = Alone(d) /\ Full(d)' = Full(d) /\ Bide(d)' = Bide(d)
    BY <2>1 DEF Alone, Full, Bide, Fresh, In
  <2>6. \A d \in Dest : Heeds(d) => Heeds(d)'
    BY <2>1, <2>5 DEF Heeds, In, Once
  <2> QED
    BY <2>1, <2>2, <2>3, <2>4, <2>5, <2>6 DEF Waiting
<1> QED
  BY <1>1, <1>2, <1>3, <1>4 DEF Next, Rest

LEMMA AlwaysWaits == Spec => [](Inv /\ Waiting)
<1>1. Init => Inv /\ Waiting
  BY Initially, WaitInit
<1>2. Inv /\ Waiting /\ [Next]_vars => (Inv /\ Waiting)'
  BY Steps, WaitSteps
<1> QED
  BY <1>1, <1>2, PTL DEF Spec

\* Whoever has asked the stream to wait is left alone: on a stream that is
\* paused and never piped nothing flows, and a destination that has answered
\* false is not written to before it drains, when it is the only one and the
\* client leaves the stream to the pipe (pause and flow of readable.js; ondata,
\* pause and pipeOnDrain in its pipe).
THEOREM LeavesAlone == Spec => []WaitsWhenAsked
<1>1. ASSUME Inv, Waiting PROVE PausedIsQuiet
  <2>1. ASSUME "pipe" \notin client.is.may, Runs("data"), Top.loop = "flow", r.paused = "true"
        PROVE  FALSE
    <3>1. Top \in Sit /\ Looping(Top)
      BY <1>1, <2>1, WaitBelow DEF Runs, Looping
    <3>2. Flows
      BY <3>1 DEF Sit, Sits
    <3> QED
      BY <1>1, <2>1, <3>2 DEF Waiting, StaysPaused
  <2> QED
    BY <2>1 DEF PausedIsQuiet
<1>2. ASSUME Inv, Waiting PROVE BackPressure
  <2>1. ASSUME NEW d \in Dest, Runs("ondata"), Top.who = d, WritableNeedDrain(d), ~Overrides,
               Alone(d)
        PROVE  FALSE
    <3>1. Top \in Bide(d) /\ Top.fn = "ondata"
      BY <1>2, <2>1, WaitBelow DEF Runs
    <3> QED
      BY <2>1, <3>1 DEF Bide, Bides, WritableNeedDrain
  <2> QED
    BY <2>1 DEF BackPressure, Alone
<1>3. Inv /\ Waiting => WaitsWhenAsked
  BY <1>1, <1>2 DEF WaitsWhenAsked
<1> QED
  BY <1>3, AlwaysWaits, PTL
=============================================================================
