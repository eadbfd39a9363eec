--------------------------- MODULE WritableProofs ---------------------------
(***************************************************************************)
(* Proofs about Writable, for every stream the model describes and every    *)
(* bound: the sink has one write at a time, _destroy waits for _construct,  *)
(* the sink gets the chunks in the order of the writes, and length counts   *)
(* the chunks that are not written yet.                                     *)
(*                                                                          *)
(* All rest on where the pieces of handlers can be on the stack.  A piece   *)
(* that starts, makes or ends a write is never below another: what it finds *)
(* when it runs is what its caller saw.  For the order, Ordered below also  *)
(* says what may run above a loop over the buffer, where in the buffer each *)
(* loop stands, and that the chunks the sink has had, the one in hand, the  *)
(* rest of the buffer and the next write are in line.  For the count,       *)
(* Booked says the same of the loops that fail the buffer, and that every   *)
(* chunk in length is in hand, in the buffer, or with the sink.             *)
(***************************************************************************)
EXTENDS Writable, FiniteSetTheorems, SequenceTheorems, WellFoundedInduction, TLAPS

\* The pieces that have a write in hand, and those about to start one.
Asked == {"sinkWrite", "onwrite"}
Ready == {"doWrite", "clearBuffer", "clearBufferLoop"}
Hot   == Asked \cup Ready
Special == Hot \cup {"_destroy"}

IsPiece(f) == {"fn", "cb", "ids", "err", "n"} \subseteq DOMAIN f /\ f.n \in Int

\* The sink does not call back twice, or has not done anything wrong so far.
Sole(v, k) == "twice" \notin v.stream.faults \/ k = 0

\* What a stack may look like when the stream is in state v.
Stacked(s, v, k) ==
    /\ s \in Seq(Range(s))
    /\ \A i \in DOMAIN s :
          /\ IsPiece(s[i])
          /\ Sole(v, k) /\ i > 1 => s[i].fn \notin Hot
          /\ s[i].fn = "_destroy" => v.constructed
\* A queue, or the lower part of a stack, in which none of those pieces is.
Cold(s) ==
    /\ s \in Seq(Range(s))
    /\ \A i \in DOMAIN s : IsPiece(s[i]) /\ s[i].fn \notin Special

Fields(v) ==
    /\ {"stream", "length", "writing", "writelen", "bufferedIndex", "constructed"} \subseteq DOMAIN v
    /\ v.length \in Int /\ v.writelen \in Int /\ v.bufferedIndex \in Int

Faithful == Sole(w, faults)
Writes   == \E a \in owed : a.fn = "onwrite"
HeadFits(f, v) == (f.fn \in Asked => v.writing /\ ~Writes) /\ (f.fn \in Ready => ~v.writing)

OwedFits ==
    \A a \in owed : /\ IsPiece(a) /\ a.fn \in {"onwrite", "onFinish", "onConstruct", "onDestroy"}
                    /\ a.fn = "onDestroy" => w.constructed
OneOwed == \A a, b \in owed : a.fn = "onwrite" /\ b.fn = "onwrite" => a = b

Inv ==
    /\ Fields(w) /\ Stacked(stack, w, faults) /\ Cold(ticks) /\ OwedFits /\ faults \in Nat
    /\ Faithful => /\ stack # <<>> => HeadFits(Head(stack), w)
                   /\ OneOwed
                   /\ Writes => w.writing

-----------------------------------------------------------------------------
(* Sequences of pieces.                                                     *)

LEMMA OfElements ==
    ASSUME NEW S, NEW s \in Seq(S), NEW T, \A i \in DOMAIN s : s[i] \in T
    PROVE  s \in Seq(T)
<1>1. /\ s \in [1 .. Len(s) -> S] /\ Len(s) \in Nat /\ DOMAIN s = 1 .. Len(s)
  BY LenProperties
<1>2. s \in [1 .. Len(s) -> T]
  BY <1>1
<1>3. Seq(T) = UNION {[1 .. n -> T] : n \in Nat}
  BY SeqDef
<1> QED
  BY <1>1, <1>2, <1>3

LEMMA OfItsRange == ASSUME NEW S, NEW s, s \in Seq(S) PROVE s \in Seq(Range(s))
<1>1. \A i \in DOMAIN s : s[i] \in Range(s)
  BY DEF Range
<1>2. \A T : (\A i \in DOMAIN s : s[i] \in T) => s \in Seq(T)
  BY OfElements
<1>3. (\A i \in DOMAIN s : s[i] \in Range(s)) => s \in Seq(Range(s))
  BY <1>2
<1> QED
  BY <1>1, <1>3

LEMMA HeadIsFirst == ASSUME NEW s, s \in Seq(Range(s)), s # <<>> PROVE Head(s) = s[1]
  OBVIOUS

\* What is put on top of a stack in place of its top.
LEMMA Replaced ==
    ASSUME NEW s, NEW c, NEW t, s \in Seq(Range(s)), s # <<>>, c \in Seq(Range(c)), t = c \o Tail(s)
    PROVE  /\ t \in Seq(Range(t))
           /\ DOMAIN t = 1 .. Len(c) + Len(s) - 1 /\ DOMAIN c = 1 .. Len(c) /\ DOMAIN s = 1 .. Len(s)
           /\ Len(c) \in Nat /\ Len(s) \in Nat \ {0}
           /\ \A i \in 1 .. Len(c) : t[i] = c[i]
           /\ \A i \in Len(c) + 1 .. Len(c) + Len(s) - 1 : t[i] = s[i - Len(c) + 1]
<1> DEFINE S == Range(s) \cup Range(c)
<1>1. s \in Seq(S) /\ c \in Seq(S)
  BY SeqMonotonic
<1>2. /\ Tail(s) \in Seq(S) /\ Len(Tail(s)) = Len(s) - 1
      /\ \A i \in 1 .. Len(Tail(s)) : Tail(s)[i] = s[i + 1]
  BY <1>1, HeadTailProperties
<1>3. /\ Len(c) \in Nat /\ Len(s) \in Nat \ {0} /\ DOMAIN c = 1 .. Len(c) /\ DOMAIN s = 1 .. Len(s)
  BY <1>1, LenProperties, EmptySeq
<1> HIDE DEF S
<1>4. /\ t \in Seq(S) /\ Len(t) = Len(c) + (Len(s) - 1)
      /\ \A i \in 1 .. Len(c) + (Len(s) - 1) :
            t[i] = IF i <= Len(c) THEN c[i] ELSE Tail(s)[i - Len(c)]
  BY <1>1, <1>2, ConcatProperties
<1>5. t \in Seq(Range(t)) /\ DOMAIN t = 1 .. Len(t)
  BY <1>4, OfItsRange, LenProperties
<1>6. \A i \in 1 .. Len(c) : t[i] = c[i]
  BY <1>3, <1>4
<1>7. \A i \in Len(c) + 1 .. Len(c) + Len(s) - 1 : t[i] = s[i - Len(c) + 1]
  BY <1>2, <1>3, <1>4
<1> QED
  BY <1>3, <1>4, <1>5, <1>6, <1>7

\* The same of what may be where.
LEMMA StackedReplaced ==
    ASSUME NEW s, NEW v, NEW c, NEW t, NEW u, NEW k, NEW l,
           Stacked(s, v, k), s # <<>>, Stacked(c, u, l), t = c \o Tail(s),
           u.stream = v.stream, v.constructed => u.constructed, l = 0 => k = 0
    PROVE  /\ Stacked(t, u, l)
           /\ c # <<>> => t # <<>> /\ Head(t) = Head(c)
           /\ Sole(u, l) /\ c = <<>> /\ t # <<>> => Head(t).fn \notin Hot
<1>1. /\ t \in Seq(Range(t))
      /\ DOMAIN t = 1 .. Len(c) + Len(s) - 1 /\ DOMAIN c = 1 .. Len(c) /\ DOMAIN s = 1 .. Len(s)
      /\ Len(c) \in Nat /\ Len(s) \in Nat \ {0}
      /\ \A i \in 1 .. Len(c) : t[i] = c[i]
      /\ \A i \in Len(c) + 1 .. Len(c) + Len(s) - 1 : t[i] = s[i - Len(c) + 1]
  <2>1. s \in Seq(Range(s)) /\ c \in Seq(Range(c))
    BY DEF Stacked
  <2>2. t \in Seq(Range(t)) /\ Len(c) \in Nat /\ Len(s) \in Nat \ {0}
    BY <2>1, Replaced
  <2>3. DOMAIN t = 1 .. Len(c) + Len(s) - 1 /\ DOMAIN c = 1 .. Len(c) /\ DOMAIN s = 1 .. Len(s)
    BY <2>1, Replaced
  <2>4. \A i \in 1 .. Len(c) : t[i] = c[i]
    BY <2>1, Replaced
  <2>5. \A i \in Len(c) + 1 .. Len(c) + Len(s) - 1 : t[i] = s[i - Len(c) + 1]
    BY <2>1, Replaced
  <2> QED
    BY <2>2, <2>3, <2>4, <2>5
<1>2. ASSUME NEW i \in DOMAIN t
      PROVE  /\ IsPiece(t[i])
             /\ Sole(u, l) /\ i > 1 => t[i].fn \notin Hot
             /\ t[i].fn = "_destroy" => u.constructed
  <2>1. CASE i \in 1 .. Len(c)
    BY <1>1, <2>1 DEF Stacked
  <2>2. CASE i \in Len(c) + 1 .. Len(c) + Len(s) - 1
    <3>1. i - Len(c) + 1 \in DOMAIN s /\ i - Len(c) + 1 > 1
      BY <1>1, <2>2
    <3> QED
      BY <1>1, <2>2, <3>1 DEF Stacked, Sole
  <2> QED
    BY <1>1, <2>1, <2>2
<1>3. Stacked(t, u, l)
  BY <1>1, <1>2 DEF Stacked
<1>4. c # <<>> => t # <<>> /\ Head(t) = Head(c)
  <2> SUFFICES ASSUME c # <<>> PROVE t # <<>> /\ Head(t) = Head(c)
    OBVIOUS
  <2>1. Len(c) \in Nat \ {0}
    BY EmptySeq DEF Stacked
  <2>2. t # <<>>
    BY <1>1, <2>1
  <2> QED
    BY <1>1, <2>1, <2>2, HeadIsFirst DEF Stacked
<1>5. Sole(u, l) /\ c = <<>> /\ t # <<>> => Head(t).fn \notin Hot
  <2> SUFFICES ASSUME Sole(u, l), c = <<>>, t # <<>> PROVE Head(t).fn \notin Hot
    OBVIOUS
  <2>1. Len(c) = 0 /\ Len(t) \in Nat \ {0} /\ DOMAIN t = 1 .. Len(t)
    BY <1>1, EmptySeq, LenProperties
  <2>2. Head(t) = s[2] /\ 2 \in DOMAIN s
    BY <1>1, <2>1, HeadIsFirst
  <2> QED
    BY <2>2 DEF Stacked, Sole
<1> QED
  BY <1>3, <1>4, <1>5

\* A piece that may be anywhere.
Plain(f) == IsPiece(f) /\ f.fn \notin Special

LEMMA ShortSequences ==
    /\ Cold(<<>>)
    /\ \A a : Plain(a) => Cold(<<a>>)
    /\ \A a, b : Plain(a) /\ Plain(b) => Cold(<<a, b>>)
    /\ \A a, b, c : Plain(a) /\ Plain(b) /\ Plain(c) => Cold(<<a, b, c>>)
<1>1. Cold(<<>>)
  BY DEF Cold
<1>2. ASSUME NEW a, Plain(a) PROVE Cold(<<a>>)
  <2>1. <<a>> \in Seq({a})
    OBVIOUS
  <2>2. <<a>> \in Seq(Range(<<a>>))
    BY <2>1, OfItsRange
  <2>3. \A i \in DOMAIN <<a>> : <<a>>[i] \in {a}
    OBVIOUS
  <2> QED
    BY <1>2, <2>2, <2>3 DEF Cold, Plain
<1>3. ASSUME NEW a, NEW b, Plain(a), Plain(b) PROVE Cold(<<a, b>>)
  <2>1. <<a, b>> \in Seq({a, b})
    OBVIOUS
  <2>2. <<a, b>> \in Seq(Range(<<a, b>>))
    BY <2>1, OfItsRange
  <2>3. \A i \in DOMAIN <<a, b>> : <<a, b>>[i] \in {a, b}
    OBVIOUS
  <2> QED
    BY <1>3, <2>2, <2>3 DEF Cold, Plain
<1>4. ASSUME NEW a, NEW b, NEW c, Plain(a), Plain(b), Plain(c) PROVE Cold(<<a, b, c>>)
  <2>1. <<a, b, c>> \in Seq({a, b, c})
    OBVIOUS
  <2>2. <<a, b, c>> \in Seq(Range(<<a, b, c>>))
    BY <2>1, OfItsRange
  <2>3. \A i \in DOMAIN <<a, b, c>> : <<a, b, c>>[i] \in {a, b, c}
    OBVIOUS
  <2> QED
    BY <1>4, <2>2, <2>3 DEF Cold, Plain
<1> QED
  BY <1>1, <1>2, <1>3, <1>4

LEMMA ColdConcat == ASSUME NEW a, NEW b, Cold(a), Cold(b) PROVE Cold(a \o b)
<1> DEFINE S == Range(a) \cup Range(b)
<1>1. a \in Seq(S) /\ b \in Seq(S)
  BY SeqMonotonic DEF Cold
<1> HIDE DEF S
<1>2. /\ a \o b \in Seq(S) /\ Len(a \o b) = Len(a) + Len(b)
      /\ \A i \in 1 .. Len(a) + Len(b) :
            (a \o b)[i] = IF i <= Len(a) THEN a[i] ELSE b[i - Len(a)]
  BY <1>1, ConcatProperties
<1>3. /\ Len(a) \in Nat /\ DOMAIN a = 1 .. Len(a) /\ Len(b) \in Nat /\ DOMAIN b = 1 .. Len(b)
      /\ DOMAIN (a \o b) = 1 .. Len(a) + Len(b)
  BY <1>1, <1>2, LenProperties
<1>4. ASSUME NEW i \in DOMAIN (a \o b) PROVE Plain((a \o b)[i])
  <2>1. CASE i <= Len(a)
    BY <1>2, <1>3, <2>1 DEF Cold, Plain
  <2>2. CASE ~(i <= Len(a))
    <3>1. i - Len(a) \in DOMAIN b
      BY <1>3, <2>2
    <3> QED
      BY <1>2, <1>3, <2>2, <3>1 DEF Cold, Plain
  <2> QED
    BY <2>1, <2>2
<1>5. a \o b \in Seq(Range(a \o b))
  BY <1>2, OfItsRange
<1> QED
  BY <1>4, <1>5 DEF Cold, Plain

LEMMA ColdAppend == ASSUME NEW q, NEW a, Cold(q), Plain(a) PROVE Cold(Append(q, a))
<1>1. q \in Seq(Range(q) \cup {a})
  BY SeqMonotonic DEF Cold
<1>2. Append(q, a) = q \o <<a>>
  BY <1>1
<1> QED
  BY <1>2, ShortSequences, ColdConcat

\* One piece on top, and below it such as may be anywhere.
LEMMA OnTop ==
    ASSUME NEW x, NEW c, NEW v, NEW k, IsPiece(x), x.fn = "_destroy" => v.constructed, Cold(c)
    PROVE  Stacked(<<x>> \o c, v, k) /\ <<x>> \o c # <<>> /\ Head(<<x>> \o c) = x
<1> DEFINE S == {x} \cup Range(c)
<1>1. <<x>> \in Seq(S) /\ c \in Seq(S)
  BY SeqMonotonic DEF Cold
<1> HIDE DEF S
<1>2. /\ <<x>> \o c \in Seq(S) /\ Len(<<x>> \o c) = 1 + Len(c)
      /\ \A i \in 1 .. 1 + Len(c) :
            (<<x>> \o c)[i] = IF i <= 1 THEN x ELSE c[i - 1]
  BY <1>1, ConcatProperties
<1>3. /\ Len(c) \in Nat /\ DOMAIN c = 1 .. Len(c) /\ DOMAIN (<<x>> \o c) = 1 .. 1 + Len(c)
  BY <1>1, <1>2, LenProperties
<1>4. ASSUME NEW i \in DOMAIN (<<x>> \o c)
      PROVE  (i = 1 /\ (<<x>> \o c)[i] = x) \/ (i > 1 /\ Plain((<<x>> \o c)[i]))
  <2>1. CASE i = 1
    BY <1>2, <1>3, <2>1
  <2>2. CASE i > 1
    <3>1. i - 1 \in DOMAIN c
      BY <1>3, <2>2
    <3> QED
      BY <1>2, <1>3, <2>2, <3>1 DEF Cold, Plain
  <2> QED
    BY <1>3, <2>1, <2>2
<1>5. <<x>> \o c \in Seq(Range(<<x>> \o c))
  BY <1>2, OfItsRange
<1>6. Stacked(<<x>> \o c, v, k)
  BY <1>4, <1>5 DEF Stacked, Plain, Special
<1>7. <<x>> \o c # <<>> /\ Head(<<x>> \o c) = x
  BY <1>1, <1>2, <1>3
<1> QED
  BY <1>6, <1>7

-----------------------------------------------------------------------------
(* Steps.                                                                   *)

\* What a step may do with the state, whatever it puts on the stack.
Kept == /\ Fields(w') /\ w'.stream = w.stream /\ (w.constructed => w'.constructed)
        /\ Cold(ticks') /\ owed' = owed /\ faults' \in Nat /\ (faults' = 0 => faults = 0)

LEMMA TopStep ==
    ASSUME Inv, Kept, stack # <<>>, NEW c, Stacked(c, w', faults'), stack' = c \o Tail(stack),
           Faithful' => /\ c # <<>> => HeadFits(Head(c), w')
                        /\ Writes => w'.writing
    PROVE  Inv'
<1>1. /\ Stacked(stack', w', faults')
      /\ c # <<>> => stack' # <<>> /\ Head(stack') = Head(c)
      /\ Sole(w', faults') /\ c = <<>> /\ stack' # <<>> => Head(stack').fn \notin Hot
  <2>1. /\ Stacked(stack, w, faults) /\ w'.stream = w.stream /\ (w.constructed => w'.constructed)
        /\ (faults' = 0 => faults = 0) /\ stack # <<>> /\ Stacked(c, w', faults') /\ stack' = c \o Tail(stack)
    BY DEF Inv, Kept
  <2>2. Stacked(stack', w', faults')
    BY <2>1, StackedReplaced, Zenon
  <2>3. c # <<>> => stack' # <<>> /\ Head(stack') = Head(c)
    BY <2>1, StackedReplaced
  <2>4. Sole(w', faults') /\ c = <<>> /\ stack' # <<>> => Head(stack').fn \notin Hot
    BY <2>1, StackedReplaced
  <2> QED
    BY <2>2, <2>3, <2>4
<1>2. (Faithful => OneOwed)' /\ Writes' = Writes /\ OwedFits' /\ (Faithful' => Faithful)
  BY DEF Inv, Kept, OneOwed, OwedFits, Writes, Faithful, Sole
<1>3. (Faithful => (stack # <<>> => HeadFits(Head(stack), w)))'
  <2> SUFFICES ASSUME Faithful', stack' # <<>> PROVE HeadFits(Head(stack), w)'
    OBVIOUS
  <2>1. CASE c # <<>>
    BY <1>1, <1>2, <2>1 DEF HeadFits
  <2>2. CASE c = <<>>
    BY <1>1, <1>2, <2>2 DEF HeadFits, Hot, Faithful
  <2> QED
    BY <2>1, <2>2
<1> QED
  BY <1>1, <1>2, <1>3 DEF Inv, Kept

LEMMA ColdIsFree ==
    ASSUME Inv, Kept, stack # <<>>, NEW c, Cold(c), stack' = c \o Tail(stack),
           Faithful => (Writes => w'.writing)
    PROVE  Inv'
<1>1. Stacked(c, w', faults')
  BY DEF Cold, Stacked, Special
<1>2. c # <<>> => Head(c).fn \notin Hot
  <2>1. c # <<>> => Head(c) = c[1] /\ 1 \in DOMAIN c
    BY HeadIsFirst DEF Cold
  <2> QED
    BY <2>1 DEF Cold, Special
<1>3. Faithful' => /\ c # <<>> => HeadFits(Head(c), w')
                   /\ Writes => w'.writing
  BY <1>2 DEF HeadFits, Hot, Faithful, Sole, Kept
<1> QED
  BY <1>1, <1>3, TopStep

LEMMA ColdStep ==
    ASSUME Inv, Kept, stack # <<>>, NEW c, Cold(c), stack' = c \o Tail(stack),
           w'.writing = w.writing
    PROVE  Inv'
  BY ColdIsFree DEF Inv
\* A step that puts on the stack only what may be anywhere, or unwinds it.
Mild == /\ stack # <<>> /\ Kept /\ w'.writing = w.writing
        /\ stack' = <<>> \/ \E c : Cold(c) /\ stack' = c \o Tail(stack)

LEMMA MildStep == ASSUME Inv, Mild PROVE Inv'
<1>1. CASE stack' = <<>>
  <2>1. Stacked(stack', w', faults')
    BY <1>1 DEF Stacked
  <2> QED
    BY <1>1, <2>1 DEF Inv, Mild, Kept, OneOwed, OwedFits, Writes, Faithful, Sole
<1>2. CASE \E c : Cold(c) /\ stack' = c \o Tail(stack)
  BY <1>2, ColdStep DEF Mild
<1> QED
  BY <1>1, <1>2 DEF Mild

\* The pieces the handlers are built from.
LEMMA Pieces ==
    /\ \A f : IsPiece(Do(f)) /\ Do(f).fn = f
    /\ \A f, er : IsPiece(Err(f, er)) /\ Err(f, er).fn = f
    /\ \A er : IsPiece(Emit(er)) /\ Emit(er).fn = "emit"
    /\ \A cb, er : IsPiece(Callback(cb, er)) /\ Callback(cb, er).fn = "callback"
    /\ IsPiece(User) /\ User.fn = "user"
  BY DEF IsPiece, Do, Err, Emit, Callback, User

LEMMA TopFits ==
    ASSUME Inv, stack # <<>>
    PROVE  /\ IsPiece(Top)
           /\ Top.fn = "_destroy" => w.constructed
           /\ Faithful => HeadFits(Top, w)
<1>1. Top = stack[1] /\ 1 \in DOMAIN stack
  BY HeadIsFirst DEF Inv, Stacked, Top
<1> QED
  BY <1>1 DEF Inv, Stacked, Top

LEMMA CountedUp == ASSUME NEW q, NEW k, Cold(q) PROVE Cold([q EXCEPT ![k].n = @ + 1])
<1> DEFINE r == [q EXCEPT ![k].n = @ + 1]
<1>1. DOMAIN r = DOMAIN q
  OBVIOUS
<1>2. \A i \in DOMAIN q : r[i] = IF i = k THEN [q[i] EXCEPT !.n = @ + 1] ELSE q[i]
  OBVIOUS
<1>3. \A i \in DOMAIN q : Plain(r[i])
  BY <1>2 DEF Cold, IsPiece, Plain
<1>4. Len(q) \in Nat /\ DOMAIN q = 1 .. Len(q)
  BY LenProperties DEF Cold
<1>5. r \in [1 .. Len(q) -> Range(r)]
  BY <1>1, <1>4 DEF Range
<1>6. r \in Seq(Range(r))
  <2>1. Seq(Range(r)) = UNION {[1 .. n -> Range(r)] : n \in Nat}
    BY SeqDef
  <2> HIDE DEF r
  <2> QED
    BY <1>4, <1>5, <2>1
<1> QED
  BY <1>1, <1>3, <1>6 DEF Cold, Plain

LEMMA Copies == ASSUME NEW a, NEW n \in Int, Plain(a) PROVE Cold([i \in 1 .. n |-> a])
<1> DEFINE r == [i \in 1 .. n |-> a]
<1>1. r \in Seq({a})
  <2>1. CASE n \in Nat
    BY <2>1
  <2>2. CASE n \notin Nat
    <3>1. 1 .. n = 1 .. 0
      BY <2>2
    <3> QED
      BY <3>1
  <2> QED
    BY <2>1, <2>2
<1>2. r \in Seq(Range(r))
  BY <1>1, OfItsRange
<1> QED
  BY <1>2 DEF Cold, Plain

\* The handlers around a write that neither start, make nor end one.
LEMMA MildWriteSteps ==
    ASSUME Inv,
           \/ EmitEvent \/ RunCallback \/ UserReturns \/ SyncFalse \/ Cork
           \/ ClearBufferEnd \/ OnwriteSync \/ AfterWriteTick \/ AfterWrite
           \/ SettleWrite \/ AfterWriteEnd \/ OnwriteError
    PROVE  Mild
<1> USE DEF Runs, Then, Continue, Quiet, Set
<1>1. CASE EmitEvent
  <2>1. stack # <<>> /\ Kept /\ w'.writing = w.writing
    BY <1>1 DEF EmitEvent, Kept, Inv, Fields
  <2>2. Cold(<<User>>)
    BY Pieces, ShortSequences DEF Plain, Special, Hot, Asked, Ready
  <2> QED
    BY <1>1, <2>1, <2>2 DEF EmitEvent, Mild
<1>2. CASE RunCallback
  <2>1. stack # <<>> /\ Kept /\ w'.writing = w.writing
    BY <1>2 DEF RunCallback, Kept, Inv, Fields
  <2>2. Cold(<<>>) /\ Cold(<<User, Callback(Tail(Top.cb), Top.err)>>)
    BY Pieces, ShortSequences DEF Plain, Special, Hot, Asked, Ready
  <2> QED
    BY <1>2, <2>1, <2>2 DEF RunCallback, Mild
<1>3. CASE UserReturns
  <2>1. stack # <<>> /\ Kept /\ w'.writing = w.writing
    BY <1>3 DEF UserReturns, Kept, Inv, Fields
  <2>2. Cold(<<>>)
    BY ShortSequences
  <2> QED
    BY <1>3, <2>1, <2>2 DEF UserReturns, Mild
<1>4. CASE SyncFalse
  <2>1. stack # <<>> /\ Kept /\ w'.writing = w.writing
    BY <1>4 DEF SyncFalse, Kept, Inv, Fields
  <2>2. Cold(<<>>)
    BY ShortSequences
  <2> QED
    BY <1>4, <2>1, <2>2 DEF SyncFalse, Mild
<1>5. CASE Cork
  <2>1. stack # <<>> /\ Kept /\ w'.writing = w.writing
    BY <1>5 DEF Cork, Kept, Inv, Fields
  <2>2. Cold(<<>>)
    BY ShortSequences
  <2> QED
    BY <1>5, <2>1, <2>2 DEF Cork, Mild
<1>6. CASE ClearBufferEnd
  <2>1. stack # <<>> /\ Kept /\ w'.writing = w.writing
    BY <1>6 DEF ClearBufferEnd, Reset, Kept, Inv, Fields
  <2>2. Cold(<<>>)
    BY ShortSequences
  <2> QED
    BY <1>6, <2>1, <2>2 DEF ClearBufferEnd, Mild
<1>7. CASE OnwriteSync
  <2>1. Plain([Do("afterWriteTick") EXCEPT !.cb = Top.cb, !.n = 1])
    BY DEF Do, IsPiece, Plain, Special, Hot, Asked, Ready
  <2>2. Cold(ticks')
    <3>1. Cold(Append(ticks, [Do("afterWriteTick") EXCEPT !.cb = Top.cb, !.n = 1]))
      BY <2>1, ColdAppend DEF Inv
    <3>2. Cold([ticks EXCEPT ![LastTick].n = @ + 1])
      BY CountedUp DEF Inv
    <3> QED
      BY <1>7, <3>1, <3>2 DEF OnwriteSync, Later
  <2>3. stack # <<>> /\ Kept /\ w'.writing = w.writing
    BY <1>7, <2>2 DEF OnwriteSync, Kept, Inv, Fields
  <2> QED
    BY <1>7, <2>3, ShortSequences DEF OnwriteSync, Mild
<1>8. CASE AfterWriteTick
  <2>1. stack # <<>> /\ Kept /\ w'.writing = w.writing
    BY <1>8 DEF AfterWriteTick, Kept, Inv, Fields
  <2>2. Plain([Top EXCEPT !.fn = "afterWrite"])
    <3>1. IsPiece(Top)
      BY <1>8, TopFits DEF AfterWriteTick
    <3> QED
      BY <3>1 DEF IsPiece, Plain, Special, Hot, Asked, Ready
  <2> QED
    BY <1>8, <2>1, <2>2, ShortSequences DEF AfterWriteTick, Mild
<1>9. CASE AfterWrite
  <2>1. stack # <<>> /\ Kept /\ w'.writing = w.writing
    BY <1>9 DEF AfterWrite, Kept, Inv, Fields
  <2> DEFINE settled == [i \in 1 .. Top.n |-> [Top EXCEPT !.fn = "settleWrite"]]
  <2>2. IsPiece(Top) /\ Top.n \in Int
    BY <1>9, TopFits DEF AfterWrite, IsPiece
  <2>3. Plain([Top EXCEPT !.fn = "settleWrite"])
    BY <2>2 DEF IsPiece, Plain, Special, Hot, Asked, Ready
  <2>4. Cold(settled)
    BY <2>2, <2>3, Copies
  <2>5. Cold(<<Emit("drain")>>) /\ Cold(<<>>) /\ Cold(<<Do("afterWriteEnd")>>)
    BY Pieces, ShortSequences DEF Plain, Special, Hot, Asked, Ready
  <2> QED
    BY <1>9, <2>1, <2>4, <2>5, ColdConcat DEF AfterWrite, Mild
<1>10. CASE SettleWrite
  <2>1. stack # <<>> /\ Kept /\ w'.writing = w.writing
    BY <1>10 DEF SettleWrite, Kept, Inv, Fields
  <2>2. Cold(<<Callback(Top.cb, None)>>)
    BY Pieces, ShortSequences DEF Plain, Special, Hot, Asked, Ready
  <2> QED
    BY <1>10, <2>1, <2>2 DEF SettleWrite, Mild
<1>11. CASE AfterWriteEnd
  <2>1. stack # <<>> /\ Kept /\ w'.writing = w.writing
    BY <1>11 DEF AfterWriteEnd, Kept, Inv, Fields
  <2>2. Cold(<<Do("finishMaybe")>>) /\ Cold(<<Do("errorBuffer")>>) /\ Cold(<<>>)
    BY Pieces, ShortSequences DEF Plain, Special, Hot, Asked, Ready
  <2> QED
    BY <1>11, <2>1, <2>2, ColdConcat DEF AfterWriteEnd, Mild
<1>12. CASE OnwriteError
  <2>1. stack # <<>> /\ Kept /\ w'.writing = w.writing
    BY <1>12 DEF OnwriteError, Kept, Inv, Fields
  <2>2. Cold(<<Callback(Top.cb, Top.err), Do("errorBuffer"), Err("errorOrDestroy", Top.err)>>)
    BY Pieces, ShortSequences DEF Plain, Special, Hot, Asked, Ready
  <2> QED
    BY <1>12, <2>1, <2>2 DEF OnwriteError, Mild
<1> QED
  BY <1>1, <1>2, <1>3, <1>4, <1>5, <1>6, <1>7, <1>8, <1>9, <1>10, <1>11, <1>12
\* Neither do those around end and errors.
LEMMA MildEndSteps ==
    ASSUME Inv,
           \/ ErrorBuffer \/ ErrorBufferLoop \/ ResetBuffer \/ EndOnce \/ Ended
           \/ EndCallback \/ FinishMaybe \/ FinishIfSettled \/ Prefinish
           \/ OnFinish \/ ErrorOrDestroyIfSync \/ FinishLater \/ Finish
    PROVE  Mild
<1> USE DEF Runs, Then, Continue, Quiet, Set
<1>1. CASE ErrorBuffer
  <2>1. stack # <<>> /\ Kept /\ w'.writing = w.writing
    BY <1>1 DEF ErrorBuffer, Kept, Inv, Fields
  <2>2. Cold(<<[Do("errorBufferLoop") EXCEPT !.n = w.bufferedIndex]>>) /\ Cold(<<>>)
    <3>1. Plain([Do("errorBufferLoop") EXCEPT !.n = w.bufferedIndex])
      BY DEF Do, IsPiece, Plain, Special, Hot, Asked, Ready, Inv, Fields
    <3> QED
      BY <3>1, ShortSequences
  <2> QED
    BY <1>1, <2>1, <2>2 DEF ErrorBuffer, Mild
<1>2. CASE ErrorBufferLoop
  <2>0. \/ w' = w \/ w' = [w EXCEPT !.length = @ - 1]
        \/ w' = [w EXCEPT !.onFinished = <<>>]
    BY <1>2 DEF ErrorBufferLoop, ErroredLength
  <2>1. stack # <<>> /\ Kept /\ w'.writing = w.writing
    <3>1. Fields(w') /\ w'.stream = w.stream /\ w'.constructed = w.constructed /\ w'.writing = w.writing
      BY <2>0 DEF Inv, Fields
    <3> QED
      BY <1>2, <3>1 DEF ErrorBufferLoop, Kept, Inv
  <2>2. Plain([Top EXCEPT !.n = @ + 1])
    <3>1. IsPiece(Top) /\ Top.fn = "errorBufferLoop"
      BY <1>2, TopFits DEF ErrorBufferLoop
    <3> QED
      BY <3>1 DEF IsPiece, Plain, Special, Hot, Asked, Ready
  <2>3. /\ Cold(<<Callback(w.buffered[Top.n + 1].cb, "destroyed"), [Top EXCEPT !.n = @ + 1]>>)
        /\ Cold(<<Callback(w.onFinished, "destroyed"), Do("resetBuffer")>>)
    BY <2>2, Pieces, ShortSequences, ZenonT(40) DEF Plain, Special, Hot, Asked, Ready
  <2> QED
    BY <1>2, <2>1, <2>3 DEF ErrorBufferLoop, Mild
<1>3. CASE ResetBuffer
  <2>1. stack # <<>> /\ Kept /\ w'.writing = w.writing
    BY <1>3 DEF ResetBuffer, Reset, Kept, Inv, Fields
  <2>2. Cold(<<>>)
    BY ShortSequences
  <2> QED
    BY <1>3, <2>1, <2>2 DEF ResetBuffer, Mild
<1>4. CASE EndOnce
  <2>1. stack # <<>> /\ Kept /\ w'.writing = w.writing
    BY <1>4 DEF EndOnce, Kept, Inv, Fields
  <2> DEFINE rest(er) == [Top EXCEPT !.fn = "endCallback", !.err = er]
  <2>2. \A er : Plain(rest(er))
    <3>1. IsPiece(Top)
      BY <1>4, TopFits DEF EndOnce
    <3> QED
      BY <3>1 DEF IsPiece, Plain, Special, Hot, Asked, Ready
  <2>3. \A er : Cold(<<rest(er)>>) /\ Cold(<<Do("finishMaybeSync"), Do("ended"), rest(er)>>)
    <3>1. Plain(Do("finishMaybeSync")) /\ Plain(Do("ended"))
      BY Pieces DEF Plain, Special, Hot, Asked, Ready
    <3> HIDE DEF rest
    <3> QED
      BY <2>2, <3>1, ShortSequences, Zenon
  <2> QED
    BY <1>4, <2>1, <2>3 DEF EndOnce, Mild
<1>5. CASE Ended
  <2>1. stack # <<>> /\ Kept /\ w'.writing = w.writing
    BY <1>5 DEF Ended, Kept, Inv, Fields
  <2>2. Cold(<<>>)
    BY ShortSequences
  <2> QED
    BY <1>5, <2>1, <2>2 DEF Ended, Mild
<1>6. CASE EndCallback
  <2>0. Cold(ticks')
    <3>1. Plain(Callback(Top.cb, Top.err))
      BY Pieces DEF Plain, Special, Hot, Asked, Ready
    <3>2. Cold(Append(ticks, Callback(Top.cb, Top.err)))
      BY <3>1, ColdAppend DEF Inv
    <3> QED
      BY <1>6, <3>2 DEF EndCallback, Later, Inv
  <2>1. stack # <<>> /\ Kept /\ w'.writing = w.writing
    BY <1>6, <2>0 DEF EndCallback, Kept, Inv, Fields
  <2>2. Cold(<<>>)
    BY ShortSequences
  <2> QED
    BY <1>6, <2>1, <2>2 DEF EndCallback, Mild
<1>7. CASE FinishMaybe
  <2>1. stack # <<>> /\ Kept /\ w'.writing = w.writing
    BY <1>7 DEF FinishMaybe, Kept, Inv, Fields
  <2>2. Cold(<<>>) /\ Cold(<<Do("prefinish"), Err("finishIfSettled", Top.fn)>>)
    BY Pieces, ShortSequences DEF Plain, Special, Hot, Asked, Ready
  <2> QED
    BY <1>7, <2>1, <2>2 DEF FinishMaybe, Mild
<1>8. CASE FinishIfSettled
  <2>0. Cold(ticks')
    <3>1. Plain(Do("finish"))
      BY Pieces DEF Plain, Special, Hot, Asked, Ready
    <3>2. Cold(Append(ticks, Do("finish")))
      BY <3>1, ColdAppend DEF Inv
    <3> QED
      BY <1>8, <3>2 DEF FinishIfSettled, Later, Inv
  <2>1. stack # <<>> /\ Kept /\ w'.writing = w.writing
    BY <1>8, <2>0 DEF FinishIfSettled, Kept, Inv, Fields
  <2>2. Cold(<<>>) /\ Cold(<<Do("finish")>>)
    BY Pieces, ShortSequences DEF Plain, Special, Hot, Asked, Ready
  <2> QED
    BY <1>8, <2>1, <2>2 DEF FinishIfSettled, Mild
<1>9. CASE Prefinish
  <2>1. stack # <<>> /\ Kept /\ w'.writing = w.writing
    BY <1>9 DEF Prefinish, Kept, Inv, Fields
  <2>2. Cold(<<>>) /\ Cold(<<Emit("prefinish")>>) /\ Cold(<<Do("sinkFinal"), Do("syncFalse")>>)
    BY Pieces, ShortSequences DEF Plain, Special, Hot, Asked, Ready
  <2> QED
    BY <1>9, <2>1, <2>2 DEF Prefinish, Mild
<1>10. CASE OnFinish
  <2>1. stack # <<>> /\ Kept /\ w'.writing = w.writing
    BY <1>10 DEF OnFinish, Kept, Inv, Fields
  <2>2. /\ Cold(<<>>) /\ Cold(<<Err("errorOrDestroy", Top.err)>>)
        /\ Cold(<<Callback(w.onFinished, Top.err), Err("errorOrDestroy?", Top.err)>>)
        /\ Cold(<<Emit("prefinish"), Do("finishLater")>>)
    BY Pieces, ShortSequences DEF Plain, Special, Hot, Asked, Ready
  <2> QED
    BY <1>10, <2>1, <2>2 DEF OnFinish, Mild
<1>11. CASE ErrorOrDestroyIfSync
  <2>1. stack # <<>> /\ Kept /\ w'.writing = w.writing
    BY <1>11 DEF ErrorOrDestroyIfSync, Kept, Inv, Fields
  <2>2. \A f : f \notin Special => Cold(<<Err(f, Top.err)>>)
    BY Pieces, ShortSequences DEF Plain, Special, Hot, Asked, Ready
  <2> QED
    BY <1>11, <2>1, <2>2 DEF ErrorOrDestroyIfSync, Mild, Special, Hot, Asked, Ready
<1>12. CASE FinishLater
  <2>0. Cold(ticks')
    <3>1. Plain(Do("finish"))
      BY Pieces DEF Plain, Special, Hot, Asked, Ready
    <3>2. Cold(Append(ticks, Do("finish")))
      BY <3>1, ColdAppend DEF Inv
    <3> QED
      BY <1>12, <3>2 DEF FinishLater, Later, Inv
  <2>1. stack # <<>> /\ Kept /\ w'.writing = w.writing
    BY <1>12, <2>0 DEF FinishLater, Kept, Inv, Fields
  <2>2. Cold(<<>>)
    BY ShortSequences
  <2> QED
    BY <1>12, <2>1, <2>2 DEF FinishLater, Mild
<1>13. CASE Finish
  <2>1. stack # <<>> /\ Kept /\ w'.writing = w.writing
    BY <1>13 DEF Finish, Kept, Inv, Fields
  <2>2. /\ Cold(<<Callback(w.onFinished, None), Emit("finish")>>)
        /\ Cold(<<Do("destroy")>>) /\ Cold(<<>>)
    BY Pieces, ShortSequences DEF Plain, Special, Hot, Asked, Ready
  <2> QED
    BY <1>13, <2>1, <2>2, ColdConcat DEF Finish, Mild
<1> QED
  BY <1>1, <1>2, <1>3, <1>4, <1>5, <1>6, <1>7, <1>8, <1>9, <1>10, <1>11, <1>12, <1>13
\* Nor those around destroy.
LEMMA MildDestroySteps ==
    ASSUME Inv,
           \/ ErrorOrDestroy \/ OnDestroy \/ EmitErrorClose \/ EmitError
           \/ EmitClose
    PROVE  Mild
<1> USE DEF Runs, Then, Continue, Quiet, Set
<1>1. CASE ErrorOrDestroy
  <2>0. Cold(ticks')
    <3>1. Plain(Err("emitErrorNT", Top.err))
      BY Pieces DEF Plain, Special, Hot, Asked, Ready
    <3>2. Cold(Append(ticks, Err("emitErrorNT", Top.err)))
      BY <3>1, ColdAppend DEF Inv
    <3> QED
      BY <1>1, <3>2 DEF ErrorOrDestroy, Later, Inv
  <2>1. stack # <<>> /\ Kept /\ w'.writing = w.writing
    BY <1>1, <2>0 DEF ErrorOrDestroy, Kept, Inv, Fields
  <2>2. /\ Cold(<<>>) /\ Cold(<<Err("destroy", Top.err)>>)
        /\ Cold(<<Err("emitErrorNT", Top.err)>>)
    BY Pieces, ShortSequences DEF Plain, Special, Hot, Asked, Ready
  <2> QED
    BY <1>1, <2>1, <2>2 DEF ErrorOrDestroy, Mild
<1>2. CASE OnDestroy
  <2>0. Cold(ticks')
    <3>1. Plain(Err("emitErrorCloseNT", Top.err)) /\ Plain(Do("emitCloseNT"))
      BY Pieces DEF Plain, Special, Hot, Asked, Ready
    <3>2. Cold(Append(ticks, Err("emitErrorCloseNT", Top.err))) /\ Cold(Append(ticks, Do("emitCloseNT")))
      BY <3>1, ColdAppend DEF Inv
    <3> QED
      BY <1>2, <3>2 DEF OnDestroy, Later, Inv
  <2>1. stack # <<>> /\ Kept /\ w'.writing = w.writing
    BY <1>2, <2>0 DEF OnDestroy, WithError, Kept, Inv, Fields
  <2>2. Cold(<<>>)
    BY ShortSequences
  <2> QED
    BY <1>2, <2>1, <2>2 DEF OnDestroy, Mild
<1>3. CASE EmitErrorClose
  <2>1. stack # <<>> /\ Kept /\ w'.writing = w.writing
    BY <1>3 DEF EmitErrorClose, Kept, Inv, Fields
  <2>2. Cold(<<Err("emitErrorNT", Top.err), Do("emitCloseNT")>>)
    BY Pieces, ShortSequences DEF Plain, Special, Hot, Asked, Ready
  <2> QED
    BY <1>3, <2>1, <2>2 DEF EmitErrorClose, Mild
<1>4. CASE EmitError
  <2>1. stack # <<>> /\ Kept /\ w'.writing = w.writing
    BY <1>4 DEF EmitError, Kept, Inv, Fields
  <2>2. Cold(<<>>) /\ Cold(<<Emit("error")>>)
    BY Pieces, ShortSequences DEF Plain, Special, Hot, Asked, Ready
  <2> QED
    BY <1>4, <2>1, <2>2 DEF EmitError, Mild
<1>5. CASE EmitClose
  <2>1. stack # <<>> /\ Kept /\ w'.writing = w.writing
    BY <1>5 DEF EmitClose, Kept, Inv, Fields
  <2>2. Cold(<<Emit("close")>>)
    BY Pieces, ShortSequences DEF Plain, Special, Hot, Asked, Ready
  <2> QED
    BY <1>5, <2>1, <2>2 DEF EmitClose, Mild
<1> QED
  BY <1>1, <1>2, <1>3, <1>4, <1>5
-----------------------------------------------------------------------------
(* The handlers that start, make and end writes, and those that wait for    *)
(* _construct.                                                              *)

\* What every such step leaves alone; the pieces below it are plain.
LEMMA Started ==
    ASSUME Inv, Kept, stack # <<>>, NEW x, NEW c, IsPiece(x), Cold(c),
           stack' = (<<x>> \o c) \o Tail(stack),
           x.fn = "_destroy" => w'.constructed,
           Faithful => HeadFits(x, w') /\ (Writes => w'.writing)
    PROVE  Inv'
<1>1. Stacked(<<x>> \o c, w', faults') /\ <<x>> \o c # <<>> /\ Head(<<x>> \o c) = x
  BY OnTop
<1> DEFINE d == <<x>> \o c
<1>2. /\ Stacked(d, w', faults') /\ stack' = d \o Tail(stack)
      /\ Faithful' => (d # <<>> => HeadFits(Head(d), w')) /\ (Writes => w'.writing)
  BY <1>1 DEF Faithful, Sole, Kept
<1> HIDE DEF d
<1> QED
  BY <1>2, TopStep

LEMMA Pairs == \A a, b : <<a, b>> = <<a>> \o <<b>> /\ <<a>> = <<a>> \o <<>>
<1> TAKE a, b
<1>1. /\ <<a>> \in Seq({a, b}) /\ <<b>> \in Seq({a, b}) /\ <<a, b>> \in Seq({a, b})
      /\ Len(<<a>>) = 1 /\ Len(<<b>>) = 1 /\ Len(<<a, b>>) = 2
  OBVIOUS
<1> DEFINE c == <<a>> \o <<b>>
<1>2. c \in Seq({a, b}) /\ Len(c) = 2 /\ c[1] = a /\ c[2] = b
  BY <1>1, ConcatProperties
<1> HIDE DEF c
<1>3. <<a, b>> = c
  BY <1>1, <1>2, SeqEqual
<1>4. <<a>> = <<a>> \o <<>>
  BY <1>1, ConcatEmptySeq
<1> QED
  BY <1>3, <1>4 DEF c

\* The sink is asked only while it has no write.
LEMMA WriteStep == ASSUME Inv, Write PROVE Inv'
<1> USE DEF Runs, Then, Set
<1> DEFINE entry == [id |-> Top.ids[1], cb |-> Top.cb]
           taken == [w EXCEPT !.pendingcb = @ + 1, !.length = @ + 1,
                              !.needDrain = @ \/ ~(w.length + 1 < HighWaterMark)]
<1>0. /\ Fields(taken) /\ taken.stream = w.stream /\ taken.constructed = w.constructed
      /\ taken.writing = w.writing
  BY DEF Inv, Fields
<1>1. CASE w.ending \/ w.destroyed
  <2> DEFINE er == IF w.ending THEN "afterEnd" ELSE "destroyed"
  <2>1. Plain(Callback(Top.cb, er)) /\ Plain(Err("errorOrDestroySync", er))
    BY Pieces DEF Plain, Special, Hot, Asked, Ready
  <2>2. Cold(Append(ticks, Callback(Top.cb, er))) /\ Cold(<<Err("errorOrDestroySync", er)>>)
    BY <2>1, ColdAppend, ShortSequences DEF Inv
  <2>3. Mild
    BY <1>1, <2>2 DEF Write, Later, Mild, Kept, Inv
  <2> QED
    BY <2>3, MildStep
<1>2. CASE ~(w.ending \/ w.destroyed) /\ MustBuffer
  <2>1. stack # <<>> /\ ticks' = ticks /\ owed' = owed /\ faults' = faults /\ stack' = <<>> \o Tail(stack)
    BY <1>2 DEF Write
  <2>2. w' = [taken EXCEPT !.buffered = Append(@, entry)]
    BY <1>2 DEF Write
  <2>3. Kept /\ w'.writing = w.writing
    BY <1>0, <2>1, <2>2 DEF Kept, Inv, Fields
  <2> QED
    BY <2>1, <2>3, ShortSequences, MildStep DEF Mild
<1>3. CASE ~(w.ending \/ w.destroyed) /\ ~MustBuffer
  <2> DEFINE x == [Do("sinkWrite") EXCEPT !.ids = Top.ids]
  <2>1. stack # <<>> /\ Kept /\ w'.writing /\ ~w.writing
    <3>1. stack # <<>> /\ ticks' = ticks /\ owed' = owed /\ faults' = faults /\ ~w.writing
      BY <1>3 DEF Write, MustBuffer
    <3>2. w' = [taken EXCEPT !.writelen = 1, !.writecb = Top.cb, !.writing = TRUE, !.sync = TRUE]
      BY <1>3 DEF Write
    <3> QED
      BY <1>0, <3>1, <3>2 DEF Kept, Inv, Fields
  <2>2. stack' = (<<x>> \o <<Do("syncFalse")>>) \o Tail(stack)
    BY <1>3, Pairs DEF Write
  <2>3. IsPiece(x) /\ x.fn = "sinkWrite"
    BY DEF Do, IsPiece
  <2>4. Cold(<<Do("syncFalse")>>)
    BY Pieces, ShortSequences DEF Plain, Special, Hot, Asked, Ready
  <2>5. Faithful => HeadFits(x, w') /\ (Writes => w'.writing)
    BY <2>1, <2>3 DEF Inv, HeadFits, Asked, Ready
  <2> HIDE DEF x
  <2> QED
    BY <2>1, <2>2, <2>3, <2>4, <2>5, Started
<1> QED
  BY <1>1, <1>2, <1>3

LEMMA DoWriteStep == ASSUME Inv, DoWrite PROVE Inv'
<1> USE DEF Runs, Then, Set, Continue, Quiet
<1> DEFINE x == IF w.destroyed THEN Err("onwrite", "destroyed")
                ELSE [Do("sinkWrite") EXCEPT !.ids = Top.ids]
<1>1. IsPiece(Top) /\ Top.fn = "doWrite" /\ (Faithful => HeadFits(Top, w))
  BY TopFits DEF DoWrite
<1>2. stack # <<>> /\ Kept /\ w'.writing
  BY <1>1 DEF DoWrite, Kept, Inv, Fields, IsPiece
<1>3. stack' = (<<x>> \o <<Do("syncFalse")>>) \o Tail(stack)
  BY Pairs DEF DoWrite
<1>4. IsPiece(x) /\ x.fn \in Asked
  BY DEF Do, Err, IsPiece, Asked
<1>5. Cold(<<Do("syncFalse")>>)
  BY Pieces, ShortSequences DEF Plain, Special, Hot, Asked, Ready
<1>6. Faithful => HeadFits(x, w') /\ (Writes => w'.writing)
  BY <1>1, <1>2, <1>4 DEF Inv, HeadFits, Asked, Ready
<1> HIDE DEF x
<1> QED
  BY <1>2, <1>3, <1>4, <1>5, <1>6, Started DEF Asked

\* What ends the corking clears the buffer only while nothing is written.
LEMMA UncorkStep == ASSUME Inv, Uncork PROVE Inv'
<1> USE DEF Runs, Then, Set, Continue, Quiet
<1>1. stack # <<>> /\ Kept /\ w'.writing = w.writing
  BY DEF Uncork, Kept, Inv, Fields
<1>2. CASE w.corked > 0 /\ ~w.writing
  <2>1. stack' = (<<Do("clearBuffer")>> \o <<>>) \o Tail(stack)
    BY <1>2, Pairs DEF Uncork
  <2>2. IsPiece(Do("clearBuffer")) /\ Do("clearBuffer").fn = "clearBuffer" /\ Cold(<<>>)
    BY Pieces, ShortSequences
  <2>3. Faithful => HeadFits(Do("clearBuffer"), w') /\ (Writes => w'.writing)
    BY <1>1, <1>2, <2>2 DEF Inv, HeadFits, Asked, Ready
  <2> QED
    BY <1>1, <2>1, <2>2, <2>3, Started
<1>3. CASE ~(w.corked > 0 /\ ~w.writing)
  BY <1>1, <1>3, ShortSequences, MildStep DEF Uncork, Mild
<1> QED
  BY <1>2, <1>3

LEMMA EndStep == ASSUME Inv, End PROVE Inv'
<1> USE DEF Runs, Then, Set, Continue, Quiet
<1> DEFINE c == <<[Top EXCEPT !.fn = "endOnce"]>>
<1>1. stack # <<>> /\ Kept /\ w'.writing = w.writing
  BY DEF End, Kept, Inv, Fields
<1>2. Cold(c)
  <2>1. IsPiece(Top)
    BY TopFits DEF End
  <2>2. Plain([Top EXCEPT !.fn = "endOnce"])
    BY <2>1 DEF IsPiece, Plain, Special, Hot, Asked, Ready
  <2> QED
    BY <2>2, ShortSequences
<1>3. CASE w.corked > 0 /\ ~w.writing
  <2>1. stack' = (<<Do("clearBuffer")>> \o c) \o Tail(stack)
    BY <1>3 DEF End
  <2>2. IsPiece(Do("clearBuffer")) /\ Do("clearBuffer").fn = "clearBuffer"
    BY Pieces
  <2>3. Faithful => HeadFits(Do("clearBuffer"), w') /\ (Writes => w'.writing)
    BY <1>1, <1>3, <2>2 DEF Inv, HeadFits, Asked, Ready
  <2> HIDE DEF c
  <2> QED
    BY <1>1, <1>2, <2>1, <2>2, <2>3, Started
<1>4. CASE ~(w.corked > 0 /\ ~w.writing)
  <2>1. stack' = c \o Tail(stack)
    BY <1>4 DEF End
  <2> HIDE DEF c
  <2> QED
    BY <1>1, <1>2, <2>1, MildStep DEF Mild
<1> QED
  BY <1>3, <1>4
\* A piece about to start a write goes on top while nothing is written.
LEMMA Readied ==
    ASSUME Inv, Kept, stack # <<>>, NEW x, NEW c, IsPiece(x), x.fn \in Ready, Cold(c),
           stack' = (<<x>> \o c) \o Tail(stack), w'.writing = w.writing, Faithful => ~w.writing
    PROVE  Inv'
<1>1. Faithful => HeadFits(x, w') /\ (Writes => w'.writing)
  BY DEF Inv, HeadFits, Asked, Ready
<1>2. x.fn # "_destroy"
  BY DEF Ready
<1> QED
  BY <1>1, <1>2, Started

LEMMA ClearBufferStep == ASSUME Inv, ClearBuffer PROVE Inv'
<1> USE DEF Runs, Then, Set, Continue, Quiet
<1> DEFINE gives == \/ w.corked > 0 \/ w.bufferProcessing \/ w.destroyed \/ ~w.constructed
                    \/ Waiting(w) = <<>>
           many == w.stream.writev /\ Len(Waiting(w)) > 1
           x == [Do("doWrite") EXCEPT !.n = w.length, !.ids = Ids(Waiting(w)), !.cb = Cbs(Waiting(w))]
           y == [Do("clearBufferLoop") EXCEPT !.n = w.bufferedIndex]
<1>1. stack # <<>> /\ (Faithful => ~w.writing)
  BY TopFits DEF ClearBuffer, HeadFits, Ready
<1>2. CASE gives
  BY <1>1, <1>2, ShortSequences, MildStep DEF ClearBuffer, Mild, Kept, Inv
<1>3. CASE ~gives /\ many
  <2>1. Kept /\ w'.writing = w.writing
    <3>1. /\ w' = [w EXCEPT !.bufferProcessing = TRUE, !.pendingcb = @ - CallbacksSaved]
          /\ ticks' = ticks /\ owed' = owed /\ faults' = faults
      BY <1>3 DEF ClearBuffer
    <3> QED
      BY <3>1 DEF Kept, Inv, Fields
  <2>2. stack' = (<<x>> \o <<Do("clearBufferEnd")>>) \o Tail(stack)
    BY <1>3, Pairs DEF ClearBuffer
  <2>3. IsPiece(x) /\ x.fn \in Ready
    BY DEF Do, IsPiece, Ready, Inv, Fields
  <2>4. Cold(<<Do("clearBufferEnd")>>)
    BY Pieces, ShortSequences DEF Plain, Special, Hot, Asked, Ready
  <2> HIDE DEF x
  <2> QED
    BY <1>1, <2>1, <2>2, <2>3, <2>4, Readied
<1>4. CASE ~gives /\ ~many
  <2>1. Kept /\ w'.writing = w.writing
    <3>1. w' = [w EXCEPT !.bufferProcessing = TRUE] /\ ticks' = ticks /\ owed' = owed /\ faults' = faults
      BY <1>4 DEF ClearBuffer
    <3> QED
      BY <3>1 DEF Kept, Inv, Fields
  <2>2. stack' = (<<y>> \o <<>>) \o Tail(stack)
    BY <1>4, Pairs DEF ClearBuffer
  <2>3. IsPiece(y) /\ y.fn \in Ready
    BY DEF Do, IsPiece, Ready, Inv, Fields
  <2> HIDE DEF y
  <2> QED
    BY <1>1, <2>1, <2>2, <2>3, ShortSequences, Readied
<1> QED
  BY <1>2, <1>3, <1>4

LEMMA ClearBufferLoopStep == ASSUME Inv, ClearBufferLoop PROVE Inv'
<1> USE DEF Runs, Then, Set, Continue, Quiet
<1> DEFINE i == Top.n + 1
           first == w.buffered[i]
           x == [Do("doWrite") EXCEPT !.n = 1, !.ids = <<first.id>>, !.cb = first.cb]
           y == [Do("clearBufferTest") EXCEPT !.n = i]
<1>1. stack # <<>> /\ IsPiece(Top) /\ (Faithful => ~w.writing)
  BY TopFits DEF ClearBufferLoop, HeadFits, Ready
<1>2. Kept /\ w'.writing = w.writing
  <2>1. w' = [w EXCEPT !.buffered[i] = Null] /\ ticks' = ticks /\ owed' = owed /\ faults' = faults
    BY DEF ClearBufferLoop
  <2> HIDE DEF i
  <2> QED
    BY <2>1 DEF Kept, Inv, Fields
<1>3. stack' = (<<x>> \o <<y>>) \o Tail(stack)
  BY Pairs DEF ClearBufferLoop
<1>4. IsPiece(x) /\ x.fn \in Ready
  BY DEF Do, IsPiece, Ready
<1>5. Cold(<<y>>)
  <2>1. Plain(y)
    BY <1>1 DEF Do, IsPiece, Plain, Special, Hot, Asked, Ready
  <2> QED
    BY <2>1, ShortSequences
<1> HIDE DEF x, y
<1> QED
  BY <1>1, <1>2, <1>3, <1>4, <1>5, Readied

LEMMA ClearBufferTestStep == ASSUME Inv, ClearBufferTest PROVE Inv'
<1> USE DEF Runs, Then, Set, Continue, Quiet
<1>1. stack # <<>> /\ IsPiece(Top)
  BY TopFits DEF ClearBufferTest
<1>2. CASE Top.n < Len(w.buffered) /\ ~w.writing
  <2> DEFINE x == [Do("clearBufferLoop") EXCEPT !.n = Top.n]
  <2>1. stack' = (<<x>> \o <<>>) \o Tail(stack)
    BY <1>2, Pairs DEF ClearBufferTest
  <2>2. IsPiece(x) /\ x.fn \in Ready
    BY <1>1 DEF Do, IsPiece, Ready
  <2>3. Kept /\ w'.writing = w.writing
    BY <1>2 DEF ClearBufferTest, Kept, Inv
  <2> HIDE DEF x
  <2> QED
    BY <1>1, <1>2, <2>1, <2>2, <2>3, ShortSequences, Readied
<1>3. CASE ~(Top.n < Len(w.buffered) /\ ~w.writing)
  <2> DEFINE left == IF Top.n = Len(w.buffered) THEN Reset(w)
                     ELSE IF Top.n > SpliceAfter
                     THEN [w EXCEPT !.buffered = SubSeq(@, Top.n + 1, Len(@)), !.bufferedIndex = 0]
                     ELSE [w EXCEPT !.bufferedIndex = Top.n]
  <2>1. /\ Fields(left) /\ left.stream = w.stream /\ left.constructed = w.constructed
        /\ left.writing = w.writing
    BY <1>1 DEF Reset, Inv, Fields, IsPiece
  <2>2. w' = [left EXCEPT !.bufferProcessing = FALSE] /\ ticks' = ticks /\ owed' = owed /\ faults' = faults
    BY <1>3 DEF ClearBufferTest
  <2> HIDE DEF left
  <2>3. Kept /\ w'.writing = w.writing
    BY <2>1, <2>2 DEF Kept, Inv, Fields
  <2> QED
    BY <1>1, <1>3, <2>3, ShortSequences, MildStep DEF ClearBufferTest, Mild
<1> QED
  BY <1>2, <1>3

\* The end of a write: it was the only one.
LEMMA OnwriteStep == ASSUME Inv, Onwrite PROVE Inv'
<1> USE DEF Runs, Then, Set, Continue, Quiet
<1> DEFINE er == Top.err
           back == [w EXCEPT !.writing = FALSE, !.writecb = NoCallback,
                             !.length = @ - w.writelen, !.writelen = 0]
           failed == [Err("onwriteError", er) EXCEPT !.cb = w.writecb]
           after == [Do(IF w.sync THEN "onwriteSync" ELSE "afterWrite") EXCEPT !.cb = w.writecb, !.n = 1]
<1>1. stack # <<>> /\ (Faithful => ~Writes)
  BY TopFits DEF Onwrite, HeadFits, Asked
<1>2. /\ Fields(back) /\ back.stream = w.stream /\ back.constructed = w.constructed
      /\ ~back.writing
  BY DEF Inv, Fields
<1>3. CASE w.writecb = NoCallback
  <2>1. Cold(<<Err("errorOrDestroy", "multiple")>>)
    BY Pieces, ShortSequences DEF Plain, Special, Hot, Asked, Ready
  <2> QED
    BY <1>1, <1>3, <2>1, MildStep DEF Onwrite, Mild, Kept, Inv
<1>4. CASE w.writecb # NoCallback /\ er # None
  <2>1. Plain(failed)
    BY DEF Err, Do, IsPiece, Plain, Special, Hot, Asked, Ready
  <2>2. Cold(<<failed>>) /\ Cold(Append(ticks, failed)) /\ Cold(<<>>)
    BY <2>1, ShortSequences, ColdAppend DEF Inv
  <2>3. w' = [back EXCEPT !.errored = IF @ = None THEN er ELSE @] /\ owed' = owed /\ faults' = faults
    BY <1>4 DEF Onwrite
  <2>4. \/ ticks' = ticks /\ stack' = <<failed>> \o Tail(stack)
        \/ ticks' = Append(ticks, failed) /\ stack' = <<>> \o Tail(stack)
    BY <1>4 DEF Onwrite, Later
  <2> HIDE DEF failed, back
  <2>5. Kept
    BY <1>2, <2>2, <2>3, <2>4 DEF Kept, Inv, Fields
  <2>6. PICK c : Cold(c) /\ stack' = c \o Tail(stack)
    BY <2>2, <2>4
  <2> QED
    BY <1>1, <2>5, <2>6, ColdIsFree
<1>5. CASE w.writecb # NoCallback /\ er = None
  <2>1. Plain(after)
    BY DEF Do, IsPiece, Plain, Special, Hot, Asked, Ready
  <2>2. Cold(<<after>>)
    BY <2>1, ShortSequences
  <2>3. w' = back /\ owed' = owed /\ faults' = faults /\ ticks' = ticks
    BY <1>5 DEF Onwrite
  <2>4. stack' = ((IF Len(w.buffered) > w.bufferedIndex THEN <<Do("clearBuffer")>> ELSE <<>>)
                    \o <<after>>) \o Tail(stack)
    BY <1>5 DEF Onwrite
  <2> HIDE DEF after, back
  <2>5. Kept
    BY <1>2, <2>3 DEF Kept, Inv
  <2>6. CASE Len(w.buffered) > w.bufferedIndex
    <3>1. stack' = (<<Do("clearBuffer")>> \o <<after>>) \o Tail(stack)
      BY <2>4, <2>6
    <3>2. IsPiece(Do("clearBuffer")) /\ Do("clearBuffer").fn = "clearBuffer"
      BY Pieces
    <3>3. Faithful => HeadFits(Do("clearBuffer"), w') /\ (Writes => w'.writing)
      BY <1>1, <1>2, <2>3, <3>2 DEF HeadFits, Asked, Ready
    <3> QED
      BY <1>1, <2>2, <2>5, <3>1, <3>2, <3>3, Started
  <2>7. CASE ~(Len(w.buffered) > w.bufferedIndex)
    <3>1. Cold(<<>> \o <<after>>) /\ stack' = (<<>> \o <<after>>) \o Tail(stack)
      BY <2>2, <2>4, <2>7, ShortSequences, ColdConcat
    <3> QED
      BY <1>1, <2>5, <3>1, ColdIsFree
  <2> QED
    BY <2>6, <2>7
<1> QED
  BY <1>3, <1>4, <1>5

LEMMA EmitConstructStep == ASSUME Inv, EmitConstruct PROVE Inv'
<1> USE DEF Runs, Then, Set, Continue, Quiet
<1> DEFINE c == <<Do("finishMaybe")>>
<1>1. stack # <<>> /\ Kept /\ w'.writing = w.writing
  BY DEF EmitConstruct, Kept, Inv, Fields
<1>2. Cold(c) /\ Cold(<<>>)
  BY Pieces, ShortSequences DEF Plain, Special, Hot, Asked, Ready
<1>3. CASE ~w.writing
  <2>1. stack' = (<<Do("clearBuffer")>> \o c) \o Tail(stack)
    BY <1>3 DEF EmitConstruct
  <2>2. IsPiece(Do("clearBuffer")) /\ Do("clearBuffer").fn \in Ready
    BY Pieces DEF Ready
  <2> HIDE DEF c
  <2> QED
    BY <1>1, <1>2, <1>3, <2>1, <2>2, Readied
<1>4. CASE w.writing
  <2>1. stack' = (<<>> \o c) \o Tail(stack) /\ Cold(<<>> \o c)
    BY <1>2, <1>4, ColdConcat DEF EmitConstruct
  <2> HIDE DEF c
  <2> QED
    BY <1>1, <2>1, MildStep DEF Mild
<1> QED
  BY <1>3, <1>4

\* _destroy is called with the answer of _construct, or after it.
LEMMA OnConstructStep == ASSUME Inv, OnConstruct PROVE Inv'
<1> USE DEF Runs, Then, Set, Continue, Quiet
<1> DEFINE er == Top.err
           x == Err("_destroy", IF er # None THEN er ELSE w.destroyErr)
<1>1. CASE w.onConstructCalled
  <2>1. Cold(<<Err("errorOrDestroy", IF er = None THEN "multiple" ELSE er)>>)
    BY Pieces, ShortSequences DEF Plain, Special, Hot, Asked, Ready
  <2> QED
    BY <1>1, <2>1, MildStep DEF OnConstruct, Mild, Kept, Inv
<1>2. CASE ~w.onConstructCalled
  <2>1. /\ stack # <<>> /\ owed' = owed /\ faults' = faults
        /\ w' = [w EXCEPT !.onConstructCalled = TRUE, !.constructed = TRUE]
    BY <1>2 DEF OnConstruct
  <2>2. Fields(w') /\ w'.stream = w.stream /\ w'.constructed /\ w'.writing = w.writing
    BY <2>1 DEF Inv, Fields
  <2>3. CASE w.destroyed
    <3>1. stack' = (<<x>> \o <<>>) \o Tail(stack) /\ ticks' = ticks
      BY <1>2, <2>3, Pairs DEF OnConstruct
    <3>2. IsPiece(x) /\ x.fn = "_destroy"
      BY Pieces
    <3>3. Faithful => HeadFits(x, w') /\ (Writes => w'.writing)
      BY <2>2, <3>2 DEF Inv, HeadFits, Asked, Ready
    <3>4. Kept
      BY <2>1, <2>2, <3>1 DEF Kept, Inv
    <3> HIDE DEF x
    <3> QED
      BY <2>1, <2>2, <3>1, <3>2, <3>3, <3>4, ShortSequences, Started
  <2>4. CASE ~w.destroyed
    <3>1. Plain(Err("errorOrDestroySync", er)) /\ Plain(Do("emitConstructNT"))
      BY Pieces DEF Plain, Special, Hot, Asked, Ready
    <3>2. /\ Cold(<<Err("errorOrDestroySync", er)>>) /\ Cold(<<>>)
          /\ Cold(Append(ticks, Do("emitConstructNT")))
      BY <3>1, ShortSequences, ColdAppend DEF Inv
    <3>3. \/ ticks' = ticks /\ stack' = <<Err("errorOrDestroySync", er)>> \o Tail(stack)
          \/ ticks' = Append(ticks, Do("emitConstructNT")) /\ stack' = <<>> \o Tail(stack)
      BY <1>2, <2>4 DEF OnConstruct, Later
    <3>4. Kept
      BY <2>1, <2>2, <3>2, <3>3 DEF Kept, Inv
    <3> QED
      BY <2>1, <2>2, <3>2, <3>3, <3>4, MildStep DEF Mild
  <2> QED
    BY <2>3, <2>4
<1> QED
  BY <1>1, <1>2

LEMMA DestroyStep == ASSUME Inv, Destroy PROVE Inv'
<1> USE DEF Runs, Then, Set, Quiet
<1>1. CASE w.destroyed
  BY <1>1, ShortSequences, MildStep DEF Destroy, Mild, Kept, Inv
<1>2. CASE ~w.destroyed
  <2> DEFINE x == Err("_destroy", Top.err)
  <2>1. Cold(ticks')
    <3>1. Cold(Append(ticks, Do("errorBuffer")))
      BY Pieces, ColdAppend DEF Plain, Special, Hot, Asked, Ready, Inv
    <3> QED
      BY <1>2, <3>1 DEF Destroy, Later, Inv
  <2>2. stack # <<>> /\ Kept /\ w'.writing = w.writing /\ w'.constructed = w.constructed
    <3>1. /\ w' = [WithError(w, Top.err) EXCEPT !.destroyed = TRUE, !.destroyErr = Top.err]
          /\ stack # <<>> /\ owed' = owed /\ faults' = faults
      BY <1>2 DEF Destroy
    <3> QED
      BY <2>1, <3>1 DEF WithError, Kept, Inv, Fields
  <2>3. CASE w.constructed
    <3>1. stack' = (<<x>> \o <<>>) \o Tail(stack)
      BY <1>2, <2>3, Pairs DEF Destroy, DestroyWhen
    <3>2. IsPiece(x) /\ x.fn = "_destroy"
      BY Pieces
    <3>3. Faithful => HeadFits(x, w') /\ (Writes => w'.writing)
      BY <2>2, <3>2 DEF Inv, HeadFits, Asked, Ready
    <3> HIDE DEF x
    <3> QED
      BY <2>2, <2>3, <3>1, <3>2, <3>3, ShortSequences, Started
  <2>4. CASE ~w.constructed
    <3>1. stack' = <<>> \o Tail(stack)
      BY <1>2, <2>4 DEF Destroy, DestroyWhen
    <3> QED
      BY <2>2, <3>1, ShortSequences, MildStep DEF Mild
  <2> QED
    BY <2>3, <2>4
<1> QED
  BY <1>1, <1>2
-----------------------------------------------------------------------------
(* The loop, the sink and the client.                                       *)

LEMMA ColdParts == ASSUME NEW q, Cold(q), q # <<>> PROVE Plain(Head(q)) /\ Cold(Tail(q))
<1>1. /\ Len(q) \in Nat \ {0} /\ DOMAIN q = 1 .. Len(q) /\ Head(q) = q[1]
      /\ Tail(q) \in Seq(Range(q)) /\ Len(Tail(q)) = Len(q) - 1
      /\ \A i \in 1 .. Len(Tail(q)) : Tail(q)[i] = q[i + 1]
  BY HeadTailProperties, LenProperties, EmptySeq DEF Cold
<1>2. DOMAIN Tail(q) = 1 .. Len(q) - 1
  BY <1>1, LenProperties
<1>3. \A i \in DOMAIN Tail(q) : Plain(Tail(q)[i])
  BY <1>1, <1>2 DEF Cold, Plain
<1>4. Tail(q) \in Seq(Range(Tail(q)))
  BY <1>1, OfItsRange
<1> QED
  BY <1>1, <1>3, <1>4 DEF Cold, Plain

\* From an empty stack a single piece starts.
LEMMA Begun ==
    ASSUME Inv, NEW x, Plain(x), stack' = <<x>>, w' = w, Cold(ticks'), owed' = owed, faults' = faults
    PROVE  Inv'
<1>1. Cold(<<x>>)
  BY ShortSequences
<1>2. Stacked(stack', w', faults')
  BY <1>1 DEF Cold, Stacked, Special
<1>3. Head(stack') = x /\ x.fn \notin Hot
  BY DEF Plain, Special
<1>4. (Faithful => (stack # <<>> => HeadFits(Head(stack), w)))'
  BY <1>3 DEF HeadFits, Hot
<1> QED
  BY <1>2, <1>4 DEF Inv, OneOwed, OwedFits, Writes, Faithful, Sole

LEMMA RunTickStep == ASSUME Inv, RunTick PROVE Inv'
<1>1. Plain(Head(ticks)) /\ Cold(Tail(ticks))
  BY ColdParts DEF RunTick, Inv
<1> QED
  BY <1>1, Begun DEF RunTick

LEMMA OneMore ==
    ASSUME Inv, faults' \in {faults, faults + 1}
    PROVE  faults' \in Nat /\ (faults' = 0 => faults = 0)
  BY DEF Inv

LEMMA SinkAtOnceStep == ASSUME Inv, SinkAnswersAtOnce PROVE Inv'
<1> USE DEF Runs, Then
<1>1. PICK f \in Calls :
         /\ Runs(f)
         /\ \/ Then(<<Err(Answer[f], Passes(Top))>>)
            \/ Then(<<Err(Answer[f], "sink")>>)
            \/ Then(<<Do(Answer[f]), Again(f)>>) /\ Fault("twice")
         /\ UNCHANGED <<w, ticks, owed>> /\ faults' \in {faults, faults + 1}
  BY DEF SinkAnswersAtOnce, Fault
<1>2. stack # <<>> /\ Kept /\ w'.writing = w.writing
  BY <1>1, OneMore DEF Kept, Inv, Fields
<1>3. Answer[f] \in {"onwrite", "onFinish", "onConstruct", "onDestroy"}
      /\ (Answer[f] = "onwrite" => f = "sinkWrite")
  BY <1>1 DEF Calls, Answer
<1>4. ASSUME NEW x, IsPiece(x), x.fn = Answer[f], stack' = <<x>> \o Tail(stack) PROVE Inv'
  <2>1. stack' = (<<x>> \o <<>>) \o Tail(stack)
    BY <1>4, Pairs
  <2>2. Faithful => HeadFits(x, w') /\ (Writes => w'.writing)
    BY <1>1, <1>2, <1>3, <1>4, TopFits DEF HeadFits, Asked, Ready, Inv
  <2> QED
    BY <1>2, <1>3, <1>4, <2>1, <2>2, ShortSequences, Started
<1>5. CASE Then(<<Err(Answer[f], Passes(Top))>>) \/ Then(<<Err(Answer[f], "sink")>>)
  BY <1>4, <1>5, Pieces
<1>6. CASE Then(<<Do(Answer[f]), Again(f)>>) /\ Fault("twice")
  <2> DEFINE c == <<Do(Answer[f]), Again(f)>>
  <2>1. ~Faithful' /\ ~Sole(w', faults')
    BY <1>1, <1>6 DEF Fault, Faithful, Sole, Inv
  <2>2. IsPiece(Do(Answer[f])) /\ IsPiece(Again(f)) /\ Do(Answer[f]).fn = Answer[f] /\ Again(f).fn = Answer[f]
    BY Pieces DEF Again
  <2>3. \A i \in DOMAIN c : c[i] \in {Do(Answer[f]), Again(f)}
    OBVIOUS
  <2>4. c \in Seq(Range(c))
    <3>1. c \in Seq({Do(Answer[f]), Again(f)})
      OBVIOUS
    <3> QED
      BY <3>1, OfItsRange
  <2> HIDE DEF c
  <2>5. Stacked(c, w', faults')
    BY <1>3, <2>1, <2>2, <2>3, <2>4 DEF Stacked
  <2> QED
    BY <1>2, <1>6, <2>1, <2>5, TopStep DEF c
<1> QED
  BY <1>1, <1>5, <1>6

LEMMA SinkKeepsStep == ASSUME Inv, SinkKeeps PROVE Inv'
<1> USE DEF Runs, Then
<1>1. PICK f \in Calls :
         /\ Runs(f) /\ Then(<<>>) /\ UNCHANGED <<w, ticks, faults>>
         /\ owed' = owed \cup {[Top EXCEPT !.fn = Answer[f], !.err = Passes(Top)]}
  BY Zenon DEF SinkKeeps
<1> DEFINE a == [Top EXCEPT !.fn = Answer[f], !.err = Passes(Top)]
<1>2. /\ Answer[f] \in {"onwrite", "onFinish", "onConstruct", "onDestroy"}
      /\ Answer[f] = "onwrite" => f = "sinkWrite"
      /\ Answer[f] = "onDestroy" => f = "_destroy"
  BY <1>1 DEF Calls, Answer
<1>3. /\ IsPiece(Top) /\ (Top.fn = "_destroy" => w.constructed)
      /\ Faithful => HeadFits(Top, w)
  BY <1>1, TopFits
<1>4. IsPiece(a) /\ a.fn = Answer[f]
  BY <1>3 DEF IsPiece
<1>5. owed' = owed \cup {a}
  BY <1>1
<1> HIDE DEF a
<1>6. OwedFits'
  BY <1>1, <1>2, <1>3, <1>4, <1>5 DEF OwedFits, Inv
<1>7. Faithful' = Faithful /\ (Faithful' => OneOwed' /\ (Writes' => w'.writing))
  <2>1. CASE Answer[f] = "onwrite"
    BY <1>1, <1>2, <1>3, <1>4, <1>5, <2>1 DEF Inv, OneOwed, Writes, HeadFits, Asked, Faithful, Sole
  <2>2. CASE Answer[f] # "onwrite"
    BY <1>1, <1>4, <1>5, <2>2 DEF Inv, OneOwed, Writes, Faithful, Sole
  <2> QED
    BY <2>1, <2>2
<1>8. /\ Stacked(stack', w', faults')
      /\ Sole(w', faults') /\ stack' # <<>> => Head(stack').fn \notin Hot
  <2> DEFINE c == <<>>
  <2>1. Stacked(c, w', faults')
    BY DEF Stacked
  <2>2. /\ Stacked(stack, w, faults) /\ stack # <<>> /\ stack' = c \o Tail(stack)
        /\ w'.stream = w.stream /\ (w.constructed => w'.constructed) /\ (faults' = 0 => faults = 0)
    BY <1>1 DEF Inv
  <2>3. Stacked(stack', w', faults')
    BY <2>1, <2>2, StackedReplaced, Zenon
  <2>4. Sole(w', faults') /\ stack' # <<>> => Head(stack').fn \notin Hot
    BY <2>1, <2>2, StackedReplaced
  <2> QED
    BY <2>3, <2>4
<1>9. (Faithful => (stack # <<>> => HeadFits(Head(stack), w)))'
  BY <1>8 DEF HeadFits, Hot, Faithful
<1> QED
  BY <1>1, <1>6, <1>7, <1>8, <1>9 DEF Inv, Fields

LEMMA SinkThrowsStep == ASSUME Inv, SinkThrows PROVE Inv'
<1> USE DEF Runs, Then
<1>1. PICK f \in Calls :
         /\ Runs(f) /\ UNCHANGED <<w, ticks, owed>> /\ faults' \in {faults, faults + 1}
         /\ IF f = "sinkWrite" THEN stack' = <<>>
            ELSE Then(<<Err(Answer[f], IF f = "sinkFinal" THEN "stream" ELSE "sink")>>)
  BY DEF SinkThrows, Fault
<1>2. stack # <<>> /\ Kept /\ w'.writing = w.writing
  BY <1>1, OneMore DEF Kept, Inv, Fields
<1>3. f # "sinkWrite" => Answer[f] \notin Special
  BY <1>1 DEF Calls, Answer, Special, Hot, Asked, Ready
<1>4. f # "sinkWrite" => Cold(<<Err(Answer[f], IF f = "sinkFinal" THEN "stream" ELSE "sink")>>)
  BY <1>3, Pieces, ShortSequences DEF Plain
<1> QED
  BY <1>1, <1>2, <1>4, MildStep DEF Mild

LEMMA SinkLaterStep == ASSUME Inv, SinkAnswersLater PROVE Inv'
<1>1. PICK a \in owed :
         /\ stack = <<>> /\ UNCHANGED <<w, ticks>> /\ faults' \in {faults, faults + 1}
         /\ \/ stack' = <<a>> /\ owed' = owed \ {a}
            \/ stack' = <<Err(a.fn, "sink")>> /\ owed' = owed \ {a}
            \/ stack' = <<a>> /\ owed' = owed /\ Fault("twice")
  BY DEF SinkAnswersLater, Fault
<1>2. PICK x : IsPiece(x) /\ x.fn = a.fn /\ stack' = <<x>>
  BY <1>1, Pieces DEF Inv, OwedFits
<1>3. x.fn \in {"onwrite", "onFinish", "onConstruct", "onDestroy"}
  BY <1>2 DEF Inv, OwedFits
<1>4. Stacked(stack', w', faults') /\ Head(stack') = x
  <2>1. <<x>> = <<x>> \o <<>>
    BY Pairs
  <2> QED
    BY <1>2, <1>3, <2>1, ShortSequences, OnTop
<1>5. OwedFits' /\ (Faithful => OneOwed' /\ (Writes' => w'.writing)) /\ (Faithful' => Faithful)
  BY <1>1, OneMore DEF Inv, OwedFits, OneOwed, Writes, Faithful, Sole
<1>6. ASSUME Faithful' PROVE HeadFits(Head(stack), w)'
  <2>1. owed' = owed \ {a}
    BY <1>1, <1>6 DEF Fault, Faithful, Sole, Inv
  <2>2. x.fn = "onwrite" => w'.writing /\ ~Writes'
    BY <1>1, <1>2, <1>5, <1>6, <2>1 DEF Inv, OneOwed, Writes
  <2> QED
    BY <1>3, <1>4, <2>2 DEF HeadFits, Asked, Ready
<1> QED
  BY <1>1, <1>4, <1>5, <1>6, OneMore DEF Inv, Fields

\* The client calls from the top level or from a callback of its own.
LEMMA ClientCallsStep ==
    ASSUME Inv, NEW calls, Cold(calls), ClientCalls(calls)
    PROVE  Inv'
<1>1. stack' = calls \o stack /\ Kept /\ w'.writing = w.writing /\ (stack = <<>> \/ Runs("user"))
  BY DEF ClientCalls, ClientMay, Kept, Inv
<1>2. CASE stack = <<>>
  <2>1. stack' = calls
    BY <1>1, <1>2, ConcatEmptySeq DEF Cold
  <2>2. Stacked(stack', w', faults')
    BY <2>1 DEF Cold, Stacked, Special
  <2>3. stack' # <<>> => Head(stack').fn \notin Hot
    <3>1. stack' # <<>> => Head(stack') = stack'[1] /\ 1 \in DOMAIN stack'
      BY <2>1, HeadIsFirst DEF Cold
    <3> QED
      BY <2>1, <3>1 DEF Cold, Special
  <2>4. (Faithful => (stack # <<>> => HeadFits(Head(stack), w)))'
    BY <2>3 DEF HeadFits, Hot
  <2> QED
    BY <1>1, <2>2, <2>4 DEF Inv, Kept, OneOwed, OwedFits, Writes, Faithful, Sole
<1>3. CASE stack # <<>> /\ Runs("user")
  <2>1. Plain(Top)
    BY <1>3, TopFits DEF Runs, Plain, Special, Hot, Asked, Ready
  <2>2. Cold(calls \o <<Top>>)
    BY <2>1, ShortSequences, ColdConcat
  <2>3. stack' = (calls \o <<Top>>) \o Tail(stack)
    <3> DEFINE S == Range(stack) \cup Range(calls)
    <3>1. stack \in Seq(S) /\ calls \in Seq(S) /\ Top \in S
      <4>1. Top = stack[1] /\ 1 \in DOMAIN stack
        BY <1>3, HeadIsFirst DEF Inv, Stacked, Top
      <4> QED
        BY <4>1, SeqMonotonic DEF Inv, Stacked, Cold, Range
    <3> HIDE DEF S
    <3>2. Tail(stack) \in Seq(S) /\ <<Top>> \in Seq(S) /\ stack = <<Top>> \o Tail(stack)
      BY <1>3, <3>1 DEF Top
    <3>3. (calls \o <<Top>>) \o Tail(stack) = calls \o (<<Top>> \o Tail(stack))
      BY <3>1, <3>2, ConcatAssociative
    <3> QED
      BY <1>1, <3>2, <3>3
  <2> QED
    BY <1>1, <1>3, <2>2, <2>3, ColdStep
<1> QED
  BY <1>1, <1>2, <1>3

LEMMA ClientSteps == ASSUME Inv, ClientStep PROVE Inv'
<1>1. \A cb : Plain(WriteOf(cb)) /\ Plain(EndOf(cb))
  BY DEF WriteOf, EndOf, Do, IsPiece, Plain, Special, Hot, Asked, Ready
<1>2. \A cb, er : Plain([EndOf(cb) EXCEPT !.err = er])
  BY DEF EndOf, Do, IsPiece, Plain, Special, Hot, Asked, Ready
<1>3. Plain(Do("cork")) /\ Plain(Do("uncork")) /\ \A er : Plain(Err("destroy", er))
  BY Pieces DEF Plain, Special, Hot, Asked, Ready
<1>4. PICK calls : ClientCalls(calls) /\ Cold(calls)
  <2>1. CASE ClientWrites
    BY <1>1, <2>1, ShortSequences DEF ClientWrites
  <2>2. CASE ClientCorks \/ ClientUncorks
    BY <1>3, <2>2, ShortSequences DEF ClientCorks, ClientUncorks
  <2>3. CASE ClientEnds
    BY <1>1, <2>3, ShortSequences DEF ClientEnds
  <2>4. CASE ClientEndsWith
    BY <1>1, <1>2, <2>4, ShortSequences DEF ClientEndsWith
  <2>5. CASE ClientDestroys
    BY <1>3, <2>5, ShortSequences DEF ClientDestroys
  <2> QED
    BY <2>1, <2>2, <2>3, <2>4, <2>5 DEF ClientStep
<1> QED
  BY <1>4, ClientCallsStep

-----------------------------------------------------------------------------
(* One write at a time, and _destroy.                                       *)

LEMMA Starts == Init => Inv
<1> SUFFICES ASSUME NEW stream \in Streams, InitFor(stream) PROVE Inv
  BY DEF Init
<1>1. Fields(w) /\ owed = {} /\ stack = <<>>
  BY DEF InitFor, Fields
<1>2. Cold(ticks)
  <2>1. Plain(Do("constructNT"))
    BY Pieces DEF Plain, Special, Hot, Asked, Ready
  <2> QED
    BY <2>1, ShortSequences DEF InitFor
<1>3. Stacked(stack, w, faults)
  BY <1>1 DEF Stacked
<1> QED
  BY <1>1, <1>2, <1>3 DEF Inv, OwedFits, OneOwed, Writes, InitFor

LEMMA Steps == Inv /\ [Next]_vars => Inv'
<1> SUFFICES ASSUME Inv, [Next]_vars PROVE Inv'
  OBVIOUS
<1>1. ASSUME StreamStep PROVE Inv'
  <2>1. CASE \/ EmitEvent \/ RunCallback \/ SyncFalse \/ Cork \/ ClearBufferEnd
             \/ OnwriteSync \/ AfterWriteTick \/ AfterWrite \/ SettleWrite \/ AfterWriteEnd
             \/ OnwriteError
    BY <2>1, MildWriteSteps, MildStep
  <2>2. CASE \/ ErrorBuffer \/ ErrorBufferLoop \/ ResetBuffer \/ EndOnce \/ Ended \/ EndCallback
             \/ FinishMaybe \/ FinishIfSettled \/ Prefinish \/ OnFinish \/ ErrorOrDestroyIfSync
             \/ FinishLater \/ Finish
    BY <2>2, MildEndSteps, MildStep
  <2>3. CASE ErrorOrDestroy \/ OnDestroy \/ EmitErrorClose \/ EmitError \/ EmitClose
    BY <2>3, MildDestroySteps, MildStep
  <2>4. CASE Write \/ DoWrite \/ Uncork \/ End \/ Onwrite
    BY <2>4, WriteStep, DoWriteStep, UncorkStep, EndStep, OnwriteStep
  <2>5. CASE ClearBuffer \/ ClearBufferLoop \/ ClearBufferTest
    BY <2>5, ClearBufferStep, ClearBufferLoopStep, ClearBufferTestStep
  <2>6. CASE OnConstruct \/ EmitConstruct \/ Destroy \/ RunTick
    BY <2>6, OnConstructStep, EmitConstructStep, DestroyStep, RunTickStep
  <2> QED
    BY <1>1, <2>1, <2>2, <2>3, <2>4, <2>5, <2>6 DEF StreamStep
<1>2. ASSUME UserReturns PROVE Inv'
  BY <1>2, MildWriteSteps, MildStep
<1>3. ASSUME SinkStep PROVE Inv'
  BY <1>3, SinkAtOnceStep, SinkKeepsStep, SinkThrowsStep, SinkLaterStep DEF SinkStep
<1>4. ASSUME ClientStep PROVE Inv'
  BY <1>4, ClientSteps
<1>5. ASSUME UNCHANGED vars PROVE Inv'
  BY <1>5 DEF vars, Inv, OneOwed, OwedFits, Writes, Faithful, Sole, HeadFits
<1> QED
  BY <1>1, <1>2, <1>3, <1>4, <1>5 DEF Next, Rest

LEMMA Always == Spec => []Inv
  BY Starts, Steps, PTL DEF Spec

\* Whatever the client calls from inside callbacks, and whatever else the sink
\* does wrong, one that does not call back twice has one write outstanding at
\* most, and `writing` is set while it has one.
THEOREM OneWrite == Spec => []OneWriteAtATime
<1>1. Inv => OneWriteAtATime
  <2> SUFFICES ASSUME Inv, Faithful
               PROVE  /\ Cardinality({a \in owed : a.fn = "onwrite"}) <= 1
                      /\ \A a \in owed : a.fn = "onwrite" => w.writing
    BY DEF OneWriteAtATime, Faithful, Sole
  <2> DEFINE writes == {a \in owed : a.fn = "onwrite"}
  <2>1. Cardinality(writes) <= 1
    <3>1. CASE writes = {}
      BY <3>1, FS_EmptySet
    <3>2. CASE writes # {}
      <4>1. PICK a : a \in writes
        BY <3>2
      <4>2. writes = {a}
        BY <4>1 DEF Inv, OneOwed
      <4> HIDE DEF writes
      <4> QED
        BY <4>2, FS_Singleton
    <3> QED
      BY <3>1, <3>2
  <2> QED
    BY <2>1 DEF Inv, Writes
<1> QED
  BY <1>1, Always, PTL

\* _destroy is called when _construct has answered, in whatever order the
\* client, the ticks and the sink come.
THEOREM DestroyWaits == Spec => []DestroyWaitsForConstruct
<1>1. Inv => DestroyWaitsForConstruct
  <2> SUFFICES ASSUME Inv, Runs("_destroy") \/ \E a \in owed : a.fn = "onDestroy"
               PROVE  w.constructed
    BY DEF DestroyWaitsForConstruct
  <2>1. CASE Runs("_destroy")
    BY <2>1, TopFits DEF Runs
  <2>2. CASE \E a \in owed : a.fn = "onDestroy"
    BY <2>2 DEF Inv, OwedFits
  <2> QED
    BY <2>1, <2>2
<1> QED
  BY <1>1, Always, PTL

-----------------------------------------------------------------------------
(* The order of the chunks, on a stream without _construct.                 *)

\* The loops over the buffer, the pieces that are always on top, and those
\* that reach the sink without a chunk.
Processing == {"clearBufferLoop", "clearBufferTest", "clearBufferEnd"}
Foremost   == {"write", "clearBuffer", "clearBufferLoop", "doWrite", "sinkWrite"}
Chunkless  == {"sinkFinal", "constructNT", "_destroy"}

\* What may run above such a loop: the pieces of the write it has made, which
\* come back at once or not at all, and more only when something went wrong.
Quick  == {"doWrite", "sinkWrite", "syncFalse", "onwrite", "clearBuffer", "onwriteSync",
           "errorOrDestroy", "destroy"}
Inside == Quick \cup {"errorOrDestroySync", "_destroy", "onDestroy", "emitErrorNT", "emit",
                      "user", "write", "cork", "uncork", "end", "endOnce", "endCallback"}
Fits(f, v) ==
    /\ f.fn \in Inside
    /\ f.fn \in {"sinkWrite", "onwrite"} => v.sync
    /\ v.errored = None => f.fn \in Quick /\ (f.fn \in {"errorOrDestroy", "destroy"} => f.err # None)

FramedAt(s, v, i) ==
    /\ s[i].fn \in Foremost => i = 1
    /\ s[i].fn \in Chunkless => s[i].ids = <<>>
    /\ s[i].fn \in Processing =>
          /\ v.bufferProcessing
          /\ \A j \in DOMAIN s : s[j].fn \in Processing => j = i
          /\ \A j \in 1 .. i - 1 :
                Fits(s[j], v) /\ (s[j].fn \in {"syncFalse", "doWrite"} => j = i - 1)
Framed(s, v) == \A i \in DOMAIN s : FramedAt(s, v, i)

\* Where in the buffer the next chunk is that may be handed to the sink: there
\* is no such place when a throw has left bufferProcessing set.
Positions(s, v) ==
    {s[p].n : p \in {q \in DOMAIN s : s[q].fn \in {"clearBufferLoop", "clearBufferTest"}}}
    \cup {Len(v.buffered) : p \in {q \in DOMAIN s : s[q].fn = "clearBufferEnd"}}
    \cup (IF v.bufferProcessing THEN {} ELSE {v.bufferedIndex})

Increasing(s) == \A i, j \in DOMAIN s : i < j => s[i] < s[j]

\* The chunks the sink has had, those about to be handed to it, those in the
\* buffer b behind position k, and one that comes: all in order.
Behind(C, H, m, b, k) ==
    /\ k \in 0 .. Len(b)
    /\ \A i \in k + 1 .. Len(b) :
          /\ b[i].id \in Nat /\ b[i].id < m
          /\ \A j \in i + 1 .. Len(b) : b[i].id < b[j].id
          /\ \A x \in Range(C) \cup Range(H) : x < b[i].id
Lined(C, H, m) ==
    /\ C \in Seq(Nat) /\ Increasing(C) /\ H \in Seq(Nat) /\ Increasing(H) /\ m \in Nat
    /\ \A x \in Range(C) : x < m /\ \A y \in Range(H) : x < y
    /\ \A y \in Range(H) : y < m

Hand(s)  == IF s # <<>> /\ Head(s).fn \in {"doWrite", "sinkWrite"} THEN Head(s).ids ELSE <<>>
Next1(s, n) == IF s # <<>> /\ Head(s).fn = "write" THEN n ELSE n + 1

\* A chunk that waits although the stream is free is about to be handed over.
Busy(s)   == \E i \in DOMAIN s : s[i].fn \in Processing \/ (i = 1 /\ s[i].fn = "clearBuffer")
Free(v)   == ~v.writing /\ v.corked = 0 /\ v.errored = None /\ ~v.destroyed

Heads ==
    stack # <<>> =>
        /\ Top.fn = "write" => Top.ids = <<ops>>
        /\ Top.fn = "sinkWrite" => w.writing
        /\ Top.fn = "clearBufferLoop" => Top.n < Len(w.buffered)
Line ==
    /\ Lined(consumed, Hand(stack), Next1(stack, ops)) /\ ops \in Nat
    /\ \A k \in Positions(stack, w) :
          /\ Behind(consumed, Hand(stack), Next1(stack, ops), w.buffered, k)
          /\ k < Len(w.buffered) /\ Free(w) => Busy(stack)

Common(f) == f.fn \notin Foremost \cup Processing /\ (f.fn \in Chunkless => f.ids = <<>>)

More(v) ==
    /\ {"stream", "writing", "corked", "sync", "bufferProcessing", "buffered", "bufferedIndex",
        "constructed", "destroyed", "errored"} \subseteq DOMAIN v
    /\ v.corked \in Nat /\ v.buffered \in Seq(Range(v.buffered)) /\ v.bufferedIndex \in Int
    /\ v.constructed /\ ~v.stream.construct

Ordered ==
    /\ More(w) /\ Framed(stack, w) /\ Heads /\ Line
    /\ \A i \in DOMAIN ticks : Common(ticks[i])

-----------------------------------------------------------------------------
\* The pieces below the top stay.
LEMMA FramedReplaced ==
    ASSUME NEW s, NEW v, NEW c, NEW t, NEW u,
           s \in Seq(Range(s)), s # <<>>, c \in Seq(Range(c)), t = c \o Tail(s),
           Framed(s, v), Framed(c, u), s[1].fn \notin Processing,
           \A i \in DOMAIN c :
              /\ c[i].fn \notin Processing
              /\ Fits(s[1], v) =>
                    /\ Fits(c[i], u)
                    /\ c[i].fn \in {"syncFalse", "doWrite"} => s[1].fn = "doWrite" /\ i = Len(c),
           v.bufferProcessing => u.bufferProcessing,
           (\A f : Fits(f, v) => Fits(f, u)) \/ s[1].fn = "syncFalse"
    PROVE  Framed(t, u)
<1>1. /\ DOMAIN t = 1 .. Len(c) + Len(s) - 1 /\ DOMAIN c = 1 .. Len(c) /\ DOMAIN s = 1 .. Len(s)
      /\ Len(c) \in Nat /\ Len(s) \in Nat \ {0}
  BY Replaced
<1>2. \A i \in 1 .. Len(c) : t[i] = c[i]
  BY Replaced
<1>3. \A i \in Len(c) + 1 .. Len(c) + Len(s) - 1 : t[i] = s[i - Len(c) + 1]
  BY Replaced
<1>4. ASSUME NEW i \in 1 .. Len(c)
      PROVE  /\ t[i].fn \in Foremost => i = 1
             /\ t[i].fn \in Chunkless => t[i].ids = <<>>
             /\ t[i].fn \notin Processing
  BY <1>1, <1>2 DEF Framed, FramedAt
<1>5. ASSUME NEW i \in Len(c) + 1 .. Len(c) + Len(s) - 1
      PROVE  /\ t[i].fn \notin Foremost
             /\ t[i].fn \in Chunkless => t[i].ids = <<>>
             /\ t[i].fn \in Processing =>
                   /\ u.bufferProcessing
                   /\ \A j \in DOMAIN t : t[j].fn \in Processing => j = i
                   /\ \A j \in 1 .. i - 1 :
                         Fits(t[j], u) /\ (t[j].fn \in {"syncFalse", "doWrite"} => j = i - 1)
  <2>1. PICK q : q = i - Len(c) + 1
    OBVIOUS
  <2>2. q \in DOMAIN s /\ q > 1 /\ t[i] = s[q] /\ 1 \in DOMAIN s
    BY <1>1, <1>3, <2>1
  <2>3. t[i].fn \notin Foremost /\ (t[i].fn \in Chunkless => t[i].ids = <<>>)
    BY <2>2 DEF Framed, FramedAt
  <2>4. ASSUME t[i].fn \in Processing PROVE u.bufferProcessing
    BY <2>2, <2>4 DEF Framed, FramedAt
  <2>5. ASSUME t[i].fn \in Processing, NEW j \in DOMAIN t, t[j].fn \in Processing PROVE j = i
    <3>1. j \in Len(c) + 1 .. Len(c) + Len(s) - 1
      BY <1>1, <1>4, <2>5
    <3>2. t[j] = s[j - Len(c) + 1] /\ j - Len(c) + 1 \in DOMAIN s
      BY <1>1, <1>3, <3>1
    <3>3. j - Len(c) + 1 = q
      BY <2>2, <2>5, <3>2 DEF Framed, FramedAt
    <3> QED
      BY <1>1, <2>1, <3>1, <3>3
  <2>6. ASSUME t[i].fn \in Processing, NEW j \in 1 .. i - 1
        PROVE  Fits(t[j], u) /\ (t[j].fn \in {"syncFalse", "doWrite"} => j = i - 1)
    <3>1. \A k \in 1 .. q - 1 : Fits(s[k], v) /\ (s[k].fn \in {"syncFalse", "doWrite"} => k = q - 1)
      BY <2>2, <2>6 DEF Framed, FramedAt
    <3>2. Fits(s[1], v) /\ (s[1].fn \in {"syncFalse", "doWrite"} => q = 2)
      BY <1>1, <2>1, <2>2, <3>1
    <3>3. CASE j \in 1 .. Len(c)
      BY <1>1, <1>2, <2>1, <3>2, <3>3
    <3>4. CASE j \in Len(c) + 1 .. i - 1
      <4>1. PICK k : k = j - Len(c) + 1
        OBVIOUS
      <4>2. t[j] = s[k] /\ k \in 2 .. q - 1
        BY <1>1, <1>3, <2>1, <3>4, <4>1
      <4>3. Fits(s[k], v) /\ (s[k].fn \in {"syncFalse", "doWrite"} => k = q - 1)
        BY <1>1, <2>1, <3>1, <4>2
      <4>4. s[1].fn # "syncFalse"
        BY <3>2, <4>2
      <4>5. Fits(s[k], u)
        BY <4>3, <4>4
      <4> QED
        BY <1>1, <2>1, <4>1, <4>2, <4>3, <4>5
    <3> QED
      BY <1>1, <3>3, <3>4
  <2> QED
    BY <2>3, <2>4, <2>5, <2>6
<1>6. \A i \in 1 .. Len(c) : FramedAt(t, u, i)
  BY <1>4 DEF FramedAt
<1>7. \A i \in Len(c) + 1 .. Len(c) + Len(s) - 1 : FramedAt(t, u, i)
  BY <1>5 DEF FramedAt
<1>8. DOMAIN t = 1 .. Len(c) \cup (Len(c) + 1 .. Len(c) + Len(s) - 1)
  BY <1>1
<1> QED
  BY <1>6, <1>7, <1>8 DEF Framed, FramedAt

\* No loop is below the top.
LEMMA FramedFresh ==
    ASSUME NEW s, NEW v, NEW c, NEW t, NEW u,
           s \in Seq(Range(s)), s # <<>>, c \in Seq(Range(c)), t = c \o Tail(s),
           Framed(s, v), Framed(c, u), \A i \in DOMAIN s : i > 1 => s[i].fn \notin Processing
    PROVE  Framed(t, u)
<1>1. /\ DOMAIN t = 1 .. Len(c) + Len(s) - 1 /\ DOMAIN c = 1 .. Len(c) /\ DOMAIN s = 1 .. Len(s)
      /\ Len(c) \in Nat /\ Len(s) \in Nat \ {0}
  BY Replaced
<1>2. \A i \in 1 .. Len(c) : t[i] = c[i]
  BY Replaced
<1>3. \A i \in Len(c) + 1 .. Len(c) + Len(s) - 1 : t[i] = s[i - Len(c) + 1]
  BY Replaced
<1>4. ASSUME NEW i \in Len(c) + 1 .. Len(c) + Len(s) - 1
      PROVE  /\ t[i].fn \notin Foremost /\ t[i].fn \notin Processing
             /\ t[i].fn \in Chunkless => t[i].ids = <<>>
  <2>1. i - Len(c) + 1 \in DOMAIN s /\ i - Len(c) + 1 > 1
    BY <1>1
  <2> QED
    BY <1>3, <2>1 DEF Framed, FramedAt
<1>5. ASSUME NEW i \in 1 .. Len(c)
      PROVE  /\ t[i].fn \in Foremost => i = 1
             /\ t[i].fn \in Chunkless => t[i].ids = <<>>
             /\ t[i].fn \in Processing =>
                   /\ u.bufferProcessing
                   /\ \A j \in DOMAIN t : t[j].fn \in Processing => j = i
                   /\ \A j \in 1 .. i - 1 :
                         Fits(t[j], u) /\ (t[j].fn \in {"syncFalse", "doWrite"} => j = i - 1)
  <2>1. t[i] = c[i] /\ i \in DOMAIN c
    BY <1>1, <1>2
  <2>2. ASSUME t[i].fn \in Processing, NEW j \in DOMAIN t, t[j].fn \in Processing PROVE j = i
    BY <1>1, <1>2, <1>4, <2>1, <2>2 DEF Framed, FramedAt
  <2>3. ASSUME t[i].fn \in Processing, NEW j \in 1 .. i - 1
        PROVE  Fits(t[j], u) /\ (t[j].fn \in {"syncFalse", "doWrite"} => j = i - 1)
    <3>1. t[j] = c[j]
      BY <1>1, <1>2
    <3> QED
      BY <2>1, <2>3, <3>1 DEF Framed, FramedAt
  <2> QED
    BY <2>1, <2>2, <2>3 DEF Framed, FramedAt
<1>6. \A i \in 1 .. Len(c) : FramedAt(t, u, i)
  BY <1>5 DEF FramedAt
<1>7. \A i \in Len(c) + 1 .. Len(c) + Len(s) - 1 : FramedAt(t, u, i)
  BY <1>4 DEF FramedAt
<1>8. DOMAIN t = 1 .. Len(c) \cup (Len(c) + 1 .. Len(c) + Len(s) - 1)
  BY <1>1
<1> QED
  BY <1>6, <1>7, <1>8 DEF Framed, FramedAt

\* What is in hand and what comes depend on the top alone.
LEMMA TopAlone ==
    ASSUME NEW s, NEW v, NEW c, NEW t, NEW n,
           s \in Seq(Range(s)), s # <<>>, c \in Seq(Range(c)), t = c \o Tail(s),
           Framed(s, v), \A i \in DOMAIN c : c[i].fn \notin Foremost
    PROVE  /\ Hand(t) = <<>> /\ Next1(t, n) = n + 1
           /\ t # <<>> => Head(t).fn \notin Foremost
<1>1. /\ DOMAIN t = 1 .. Len(c) + Len(s) - 1 /\ DOMAIN c = 1 .. Len(c) /\ DOMAIN s = 1 .. Len(s)
      /\ Len(c) \in Nat /\ Len(s) \in Nat \ {0} /\ t \in Seq(Range(t))
  BY Replaced
<1>2. \A i \in 1 .. Len(c) : t[i] = c[i]
  BY Replaced
<1>3. \A i \in Len(c) + 1 .. Len(c) + Len(s) - 1 : t[i] = s[i - Len(c) + 1]
  BY Replaced
<1>4. ASSUME t # <<>> PROVE Head(t).fn \notin Foremost
  <2>1. Head(t) = t[1] /\ 1 \in DOMAIN t
    BY <1>1, <1>4, HeadIsFirst
  <2>2. CASE Len(c) > 0
    <3>1. 1 \in DOMAIN c /\ t[1] = c[1]
      BY <1>1, <1>2, <2>2
    <3> QED
      BY <2>1, <3>1, Zenon
  <2>3. CASE Len(c) = 0
    <3>1. 2 \in DOMAIN s /\ t[1] = s[2]
      BY <1>1, <1>3, <2>1, <2>3
    <3> QED
      BY <2>1, <3>1 DEF Framed, FramedAt
  <2>4. Len(c) > 0 \/ Len(c) = 0
    BY <1>1
  <2> QED
    BY <2>2, <2>3, <2>4, Zenon
<1> QED
  BY <1>4 DEF Hand, Next1, Foremost

\* Loops come and go only at the top.
LEMMA PositionsKept ==
    ASSUME NEW s, NEW v, NEW c, NEW t, NEW u,
           s \in Seq(Range(s)), s # <<>>, c \in Seq(Range(c)), t = c \o Tail(s),
           \A i \in DOMAIN c : c[i].fn \notin Processing, s[1].fn \notin Processing,
           u.bufferProcessing = v.bufferProcessing, u.bufferedIndex = v.bufferedIndex,
           Len(u.buffered) = Len(v.buffered)
    PROVE  /\ Positions(t, u) \subseteq Positions(s, v)
           /\ Busy(s) /\ s[1].fn # "clearBuffer" => Busy(t)
<1>1. /\ DOMAIN t = 1 .. Len(c) + Len(s) - 1 /\ DOMAIN c = 1 .. Len(c) /\ DOMAIN s = 1 .. Len(s)
      /\ Len(c) \in Nat /\ Len(s) \in Nat \ {0}
  BY Replaced
<1>2. \A i \in 1 .. Len(c) : t[i] = c[i]
  BY Replaced
<1>3. \A i \in Len(c) + 1 .. Len(c) + Len(s) - 1 : t[i] = s[i - Len(c) + 1]
  BY Replaced
<1>4. ASSUME NEW i \in DOMAIN t, t[i].fn \in Processing
      PROVE  \E q \in DOMAIN s : t[i] = s[q]
  <2>1. i \in Len(c) + 1 .. Len(c) + Len(s) - 1
    BY <1>1, <1>2, <1>4
  <2>2. i - Len(c) + 1 \in DOMAIN s
    BY <1>1, <2>1
  <2> QED
    BY <1>3, <2>1, <2>2
<1>5. Positions(t, u) \subseteq Positions(s, v)
  BY <1>4, SMTT(30) DEF Positions, Processing
<1>6. ASSUME Busy(s), s[1].fn # "clearBuffer" PROVE Busy(t)
  <2>1. PICK q \in DOMAIN s : s[q].fn \in Processing /\ q # 1
    BY <1>6 DEF Busy
  <2>2. q + Len(c) - 1 \in DOMAIN t /\ t[q + Len(c) - 1] = s[q]
    <3>1. q + Len(c) - 1 \in Len(c) + 1 .. Len(c) + Len(s) - 1
      BY <1>1, <2>1
    <3>2. (q + Len(c) - 1) - Len(c) + 1 = q
      BY <1>1, <2>1
    <3> QED
      BY <1>1, <1>3, <3>1, <3>2, SMTT(30)
  <2> QED
    BY <2>1, <2>2 DEF Busy
<1> QED
  BY <1>5, <1>6

LEMMA NothingInHand == Range(<<>>) = {} /\ <<>> \in Seq(Nat) /\ Increasing(<<>>)
  BY DEF Range, Increasing

LEMMA LinedLess ==
    ASSUME NEW C, NEW H, NEW m, NEW n \in Nat, Lined(C, H, m), m <= n
    PROVE  Lined(C, <<>>, n)
<1>1. \A x \in Range(C) : x < n
  <2>1. \A x \in Range(C) : x \in Nat
    BY DEF Lined, Range
  <2> QED
    BY <2>1 DEF Lined
<1> QED
  BY <1>1, NothingInHand DEF Lined

LEMMA BehindLess ==
    ASSUME NEW C, NEW H, NEW m \in Nat, NEW n \in Nat, NEW b, NEW k, Behind(C, H, m, b, k), m <= n
    PROVE  Behind(C, <<>>, n, b, k)
<1>1. \A i \in k + 1 .. Len(b) : b[i].id < n
  BY DEF Behind
<1> QED
  BY <1>1, NothingInHand DEF Behind

-----------------------------------------------------------------------------
\* Steps that leave the buffer alone.
Untouched == /\ More(w') /\ w'.buffered = w.buffered /\ w'.bufferedIndex = w.bufferedIndex
             /\ w'.bufferProcessing = w.bufferProcessing
             /\ w.errored # None => w'.errored # None
             /\ ops' = ops /\ \A i \in DOMAIN ticks' : Common(ticks'[i])
\* When the stream comes free, nothing may wait that nobody hands over.
Same == /\ Untouched /\ consumed' = consumed
        /\ Free(w') => Free(w) \/ Len(w.buffered) <= w.bufferedIndex
Good(f) == Common(f) /\ (Fits(Top, w) => Fits(f, w') /\ f.fn \notin {"syncFalse", "doWrite"})
Goods(c) == c \in Seq(Range(c)) /\ \A i \in DOMAIN c : Good(c[i])
InSync == (w.sync => w'.sync) \/ Top.fn = "syncFalse"
Steady == /\ stack # <<>> /\ Top.fn \notin Processing \cup {"clearBuffer"} /\ Same /\ InSync
          /\ stack' = <<>> \/ \E c : Goods(c) /\ stack' = c \o Tail(stack)

LEMMA TopIsFirst == ASSUME Inv, stack # <<>> PROVE Top = stack[1] /\ 1 \in DOMAIN stack
  BY HeadIsFirst DEF Inv, Stacked, Top

LEMMA UntouchedStep ==
    ASSUME Inv, Ordered, Untouched, consumed' = consumed, Framed(stack', w'), Hand(stack') = <<>>,
           Next1(stack', ops) = ops + 1,
           stack' # <<>> => Head(stack').fn \notin Foremost \ {"clearBuffer"},
           Positions(stack', w') \subseteq Positions(stack, w),
           \A k \in Positions(stack', w') : k < Len(w.buffered) /\ Free(w') => Busy(stack')
    PROVE  Ordered'
<1>1. ops \in Nat /\ ops + 1 \in Nat /\ ops' = ops /\ Next1(stack, ops) \in Nat /\ Next1(stack, ops) <= ops + 1
  BY DEF Ordered, Line, Untouched, Next1
<1>2. Lined(consumed, <<>>, ops + 1)
  BY <1>1, LinedLess DEF Ordered, Line
<1>3. Heads'
  BY DEF Heads, Top, Foremost
<1>4. Line'
  <2>1. ASSUME NEW k \in Positions(stack', w')
        PROVE  Behind(consumed, <<>>, ops + 1, w.buffered, k)
    <3>1. Behind(consumed, Hand(stack), Next1(stack, ops), w.buffered, k)
      BY <2>1 DEF Ordered, Line
    <3> QED
      BY <1>1, <3>1, BehindLess
  <2> QED
    BY <1>1, <1>2, <2>1 DEF Line, Untouched
<1> QED
  BY <1>3, <1>4 DEF Ordered, Untouched

\* What waits while the stream is free is about to be handed over.
LEMMA StillBusy ==
    ASSUME Inv, Ordered, Same, NEW k \in Positions(stack, w), k < Len(w.buffered), Free(w')
    PROVE  Busy(stack)
<1>1. CASE Free(w)
  BY <1>1 DEF Ordered, Line
<1>2. CASE Len(w.buffered) <= w.bufferedIndex
  <2>1. k # w.bufferedIndex
    BY <1>2 DEF Ordered, More
  <2> QED
    BY <2>1 DEF Positions, Busy, Processing
<1> QED
  BY <1>1, <1>2 DEF Same

\* What is on the stack after such a step.
LEMMA SteadyStack ==
    ASSUME Inv, Ordered, stack # <<>>, Top.fn \notin Processing \cup {"clearBuffer"}, Untouched, InSync,
           stack' = <<>> \/ \E c : Goods(c) /\ stack' = c \o Tail(stack)
    PROVE  /\ Framed(stack', w') /\ Hand(stack') = <<>> /\ Next1(stack', ops) = ops + 1
           /\ stack' # <<>> => Head(stack').fn \notin Foremost
           /\ Positions(stack', w') \subseteq Positions(stack, w)
           /\ \A k \in Positions(stack', w') : Busy(stack) => Busy(stack')
<1>1. /\ stack \in Seq(Range(stack)) /\ stack # <<>> /\ Top = stack[1] /\ 1 \in DOMAIN stack
      /\ Framed(stack, w) /\ Untouched
  BY TopIsFirst DEF Inv, Stacked, Ordered
<1>2. CASE stack' = <<>>
  <2>1. Framed(stack', w') /\ Hand(stack') = <<>> /\ Next1(stack', ops) = ops + 1
    BY <1>2 DEF Framed, Hand, Next1
  <2>2. Positions(stack', w') \subseteq Positions(stack, w)
    BY <1>1, <1>2 DEF Untouched, Positions
  <2>3. ASSUME NEW k \in Positions(stack', w'), Busy(stack) PROVE FALSE
    <3>1. ~w.bufferProcessing
      BY <1>1, <1>2, <2>3 DEF Untouched, Positions
    <3>2. PICK q \in DOMAIN stack : stack[q].fn \in Processing
      BY <1>1, <2>3 DEF Busy
    <3> QED
      BY <1>1, <3>1, <3>2 DEF Framed, FramedAt
  <2> QED
    BY <1>2, <2>1, <2>2, <2>3
<1>3. CASE \E c : Goods(c) /\ stack' = c \o Tail(stack)
  <2>1. PICK c : Goods(c) /\ stack' = c \o Tail(stack)
    BY <1>3
  <2>2. c \in Seq(Range(c)) /\ \A i \in DOMAIN c : Good(c[i])
    BY <2>1 DEF Goods
  <2>3. \A i \in DOMAIN c : /\ c[i].fn \notin Processing /\ c[i].fn \notin Foremost
                            /\ c[i].fn \in Chunkless => c[i].ids = <<>>
                            /\ Fits(stack[1], w) => /\ Fits(c[i], w')
                                                    /\ c[i].fn \notin {"syncFalse", "doWrite"}
    BY <1>1, <2>2 DEF Good, Common
  <2>4. stack[1].fn \notin Processing /\ stack[1].fn # "clearBuffer"
    BY <1>1
  <2>5. Framed(c, w')
    BY <2>3 DEF Framed, FramedAt
  <2>6. (\A f : Fits(f, w) => Fits(f, w')) \/ stack[1].fn = "syncFalse"
    BY <1>1 DEF InSync, Untouched, Fits
  <2>7. /\ w'.bufferProcessing = w.bufferProcessing /\ w'.bufferedIndex = w.bufferedIndex
        /\ Len(w'.buffered) = Len(w.buffered)
    BY <1>1 DEF Untouched
  <2>8. Framed(stack', w')
    BY <1>1, <2>1, <2>2, <2>3, <2>4, <2>5, <2>6, <2>7, FramedReplaced
  <2>9. /\ Hand(stack') = <<>> /\ Next1(stack', ops) = ops + 1
        /\ stack' # <<>> => Head(stack').fn \notin Foremost
    BY <1>1, <2>1, <2>2, <2>3, TopAlone
  <2>10. Positions(stack', w') \subseteq Positions(stack, w) /\ (Busy(stack) => Busy(stack'))
    BY <1>1, <2>1, <2>2, <2>3, <2>4, <2>7, PositionsKept
  <2> QED
    BY <2>8, <2>9, <2>10
<1> QED
  BY <1>2, <1>3

LEMMA SteadyStep == ASSUME Inv, Ordered, Steady PROVE Ordered'
<1>1. /\ Same /\ Untouched /\ consumed' = consumed /\ Framed(stack', w') /\ Hand(stack') = <<>>
      /\ Next1(stack', ops) = ops + 1 /\ (stack' # <<>> => Head(stack').fn \notin Foremost)
      /\ Positions(stack', w') \subseteq Positions(stack, w)
      /\ \A k \in Positions(stack', w') : Busy(stack) => Busy(stack')
  BY SteadyStack DEF Steady, Same
<1>2. \A k \in Positions(stack', w') : k < Len(w.buffered) /\ Free(w') => Busy(stack')
  BY <1>1, StillBusy
<1> QED
  BY <1>1, <1>2, UntouchedStep

\* The pieces handlers are built from, and sequences of them.
LEMMA PieceFields ==
    /\ \A f : Do(f).fn = f /\ Do(f).ids = <<>> /\ Do(f).err = None
    /\ \A f, er : Err(f, er).fn = f /\ Err(f, er).ids = <<>> /\ Err(f, er).err = er
    /\ \A er : Emit(er).fn = "emit" /\ Emit(er).ids = <<>>
    /\ \A cb, er : Callback(cb, er).fn = "callback" /\ Callback(cb, er).ids = <<>>
    /\ User.fn = "user" /\ User.ids = <<>>
  BY DEF Do, Err, Emit, Callback, User

LEMMA Outside == ASSUME Top.fn \notin Inside PROVE \A f : Common(f) => Good(f)
  BY DEF Good, Fits

LEMMA GoodShort ==
    /\ Goods(<<>>)
    /\ \A a : Good(a) => Goods(<<a>>)
    /\ \A a, b : Good(a) /\ Good(b) => Goods(<<a, b>>)
    /\ \A a, b, c : Good(a) /\ Good(b) /\ Good(c) => Goods(<<a, b, c>>)
<1>1. Goods(<<>>)
  BY DEF Goods
<1>2. ASSUME NEW a, Good(a) PROVE Goods(<<a>>)
  <2>1. <<a>> \in Seq({a})
    OBVIOUS
  <2>2. <<a>> \in Seq(Range(<<a>>))
    BY <2>1, OfItsRange
  <2>3. \A i \in DOMAIN <<a>> : <<a>>[i] \in {a}
    OBVIOUS
  <2> QED
    BY <1>2, <2>2, <2>3 DEF Goods
<1>3. ASSUME NEW a, NEW b, Good(a), Good(b) PROVE Goods(<<a, b>>)
  <2>1. <<a, b>> \in Seq({a, b})
    OBVIOUS
  <2>2. <<a, b>> \in Seq(Range(<<a, b>>))
    BY <2>1, OfItsRange
  <2>3. \A i \in DOMAIN <<a, b>> : <<a, b>>[i] \in {a, b}
    OBVIOUS
  <2> QED
    BY <1>3, <2>2, <2>3 DEF Goods
<1>4. ASSUME NEW a, NEW b, NEW c, Good(a), Good(b), Good(c) PROVE Goods(<<a, b, c>>)
  <2>1. <<a, b, c>> \in Seq({a, b, c})
    OBVIOUS
  <2>2. <<a, b, c>> \in Seq(Range(<<a, b, c>>))
    BY <2>1, OfItsRange
  <2>3. \A i \in DOMAIN <<a, b, c>> : <<a, b, c>>[i] \in {a, b, c}
    OBVIOUS
  <2> QED
    BY <1>4, <2>2, <2>3 DEF Goods
<1> QED
  BY <1>1, <1>2, <1>3, <1>4

LEMMA GoodConcat == ASSUME NEW a, NEW b, Goods(a), Goods(b) PROVE Goods(a \o b)
<1> DEFINE S == Range(a) \cup Range(b)
<1>1. a \in Seq(S) /\ b \in Seq(S)
  BY SeqMonotonic DEF Goods
<1> HIDE DEF S
<1>2. /\ a \o b \in Seq(S) /\ Len(a \o b) = Len(a) + Len(b)
      /\ \A i \in 1 .. Len(a) + Len(b) :
            (a \o b)[i] = IF i <= Len(a) THEN a[i] ELSE b[i - Len(a)]
  BY <1>1, ConcatProperties
<1>3. /\ Len(a) \in Nat /\ DOMAIN a = 1 .. Len(a) /\ Len(b) \in Nat /\ DOMAIN b = 1 .. Len(b)
      /\ DOMAIN (a \o b) = 1 .. Len(a) + Len(b)
  BY <1>1, <1>2, LenProperties
<1>4. ASSUME NEW i \in DOMAIN (a \o b) PROVE Good((a \o b)[i])
  <2>1. CASE i <= Len(a)
    BY <1>2, <1>3, <2>1 DEF Goods
  <2>2. CASE ~(i <= Len(a))
    <3>1. i - Len(a) \in DOMAIN b
      BY <1>3, <2>2
    <3> QED
      BY <1>2, <1>3, <2>2, <3>1 DEF Goods
  <2> QED
    BY <2>1, <2>2
<1>5. a \o b \in Seq(Range(a \o b))
  BY <1>2, OfItsRange
<1> QED
  BY <1>4, <1>5 DEF Goods

LEMMA GoodCopies == ASSUME NEW a, NEW n \in Int, Good(a) PROVE Goods([i \in 1 .. n |-> a])
<1> DEFINE r == [i \in 1 .. n |-> a]
<1>1. r \in Seq({a})
  <2>1. CASE n \in Nat
    BY <2>1
  <2>2. CASE n \notin Nat
    <3>1. 1 .. n = 1 .. 0
      BY <2>2
    <3> QED
      BY <3>1
  <2> QED
    BY <2>1, <2>2
<1>2. r \in Seq(Range(r))
  BY <1>1, OfItsRange
<1> QED
  BY <1>2 DEF Goods

\* ticks.
LEMMA LaterCommon ==
    ASSUME Inv, Ordered, NEW a, Common(a), ticks' = Append(ticks, a)
    PROVE  \A i \in DOMAIN ticks' : Common(ticks'[i])
<1>1. ticks \in Seq(Range(ticks))
  BY DEF Inv, Cold
<1>2. /\ Len(ticks) \in Nat /\ DOMAIN ticks = 1 .. Len(ticks)
      /\ DOMAIN ticks' = 1 .. Len(ticks) + 1
      /\ \A i \in 1 .. Len(ticks) : ticks'[i] = ticks[i]
      /\ ticks'[Len(ticks) + 1] = a
  BY <1>1, AppendProperties, LenProperties
<1>3. ASSUME NEW i \in DOMAIN ticks' PROVE Common(ticks'[i])
  <2>1. i \in DOMAIN ticks \/ i = Len(ticks) + 1
    BY <1>2
  <2> QED
    BY <1>2, <2>1 DEF Ordered
<1> QED
  BY <1>3

-----------------------------------------------------------------------------
\* The handlers around a write.
LEMMA SteadyWriteSteps ==
    ASSUME Inv, Ordered,
           \/ EmitEvent \/ RunCallback \/ UserReturns \/ SyncFalse \/ Cork
           \/ OnwriteSync \/ AfterWriteTick \/ AfterWrite
           \/ SettleWrite \/ AfterWriteEnd \/ OnwriteError
    PROVE  Steady
<1> USE DEF Runs, Then, Continue, Quiet, Set, client, log, InSync
<1>1. CASE EmitEvent
  <2>1. stack # <<>> /\ Top.fn = "emit" /\ w' = w /\ stack' = <<User>> \o Tail(stack)
    BY <1>1 DEF EmitEvent
  <2>2. Same
    BY <1>1 DEF EmitEvent, Same, Untouched, Ordered
  <2>3. Good(User)
    BY <2>1, PieceFields DEF Good, Common, Fits, Inside, Quick, Foremost, Processing, Chunkless
  <2> QED
    BY <2>1, <2>2, <2>3, GoodShort DEF Steady, Processing
<1>2. CASE RunCallback
  <2>1. stack # <<>> /\ Top.fn = "callback" /\ w' = w
    BY <1>2 DEF RunCallback
  <2>2. Same
    BY <1>2 DEF RunCallback, Same, Untouched, Ordered
  <2>3. Good(User) /\ \A cb, er : Good(Callback(cb, er))
    BY <2>1, PieceFields, Outside DEF Common, Inside, Quick, Foremost, Processing, Chunkless
  <2>4. Goods(<<>>) /\ Goods(<<User, Callback(Tail(Top.cb), Top.err)>>)
    BY <2>3, GoodShort
  <2> QED
    BY <1>2, <2>1, <2>2, <2>4 DEF RunCallback, Steady, Processing
<1>3. CASE UserReturns
  <2>1. stack # <<>> /\ Top.fn = "user" /\ w' = w /\ stack' = <<>> \o Tail(stack)
    BY <1>3 DEF UserReturns
  <2>2. Same
    BY <1>3 DEF UserReturns, Same, Untouched, Ordered
  <2> QED
    BY <2>1, <2>2, GoodShort DEF Steady, Processing
<1>4. CASE SyncFalse
  <2>1. stack # <<>> /\ Top.fn = "syncFalse" /\ stack' = <<>> \o Tail(stack) /\ w' = [w EXCEPT !.sync = FALSE]
    BY <1>4 DEF SyncFalse
  <2>2. Same
    BY <1>4, <2>1 DEF SyncFalse, Same, Untouched, Ordered, More, Free
  <2> QED
    BY <2>1, <2>2, GoodShort DEF Steady, Processing
<1>5. CASE Cork
  <2>1. stack # <<>> /\ Top.fn = "cork" /\ stack' = <<>> \o Tail(stack) /\ w' = [w EXCEPT !.corked = @ + 1]
    BY <1>5 DEF Cork
  <2>2. w'.corked = w.corked + 1 /\ w.corked \in Nat
    BY <2>1 DEF Ordered, More
  <2>3. Same
    BY <1>5, <2>1, <2>2 DEF Cork, Same, Untouched, Ordered, More, Free
  <2> QED
    BY <2>1, <2>3, GoodShort DEF Steady, Processing, Ordered, More
<1>6. CASE OnwriteSync
  <2>1. stack # <<>> /\ Top.fn = "onwriteSync" /\ stack' = <<>> \o Tail(stack)
        /\ (w' = w \/ w' = [w EXCEPT !.tickInfo = TRUE])
    BY <1>6 DEF OnwriteSync
  <2>2. \A i \in DOMAIN ticks' : Common(ticks'[i])
    <3> DEFINE a == [Do("afterWriteTick") EXCEPT !.cb = Top.cb, !.n = 1]
    <3>1. Common(a)
      BY DEF Do, Common, Foremost, Processing, Chunkless
    <3>2. CASE ticks' = Append(ticks, a)
      <4> HIDE DEF a
      <4> QED
        BY <3>1, <3>2, LaterCommon
    <3>3. CASE ticks' = [ticks EXCEPT ![LastTick].n = @ + 1]
      <4>1. DOMAIN ticks' = DOMAIN ticks
        BY <3>3
      <4>2. \A i \in DOMAIN ticks : \/ ticks'[i] = ticks[i]
                                    \/ ticks'[i] = [ticks[i] EXCEPT !.n = @ + 1]
        BY <3>3
      <4>3. \A i \in DOMAIN ticks : IsPiece(ticks[i]) /\ Common(ticks[i])
        BY DEF Inv, Cold, Ordered
      <4> QED
        BY <4>1, <4>2, <4>3 DEF Common, IsPiece
    <3> QED
      BY <1>6, <3>2, <3>3 DEF OnwriteSync, Later
  <2>3. Same
    BY <1>6, <2>1, <2>2 DEF OnwriteSync, Same, Untouched, Ordered, More, Free
  <2>4. w'.sync = w.sync
    BY <2>1 DEF Ordered, More
  <2> QED
    BY <2>1, <2>3, <2>4, GoodShort DEF Steady, Processing
<1>7. CASE AfterWriteTick
  <2> DEFINE a == [Top EXCEPT !.fn = "afterWrite"]
  <2>1. stack # <<>> /\ Top.fn = "afterWriteTick" /\ stack' = <<a>> \o Tail(stack)
        /\ w' = [w EXCEPT !.tickInfo = FALSE]
    BY <1>7 DEF AfterWriteTick
  <2>2. Same /\ w'.sync = w.sync
    BY <1>7, <2>1 DEF AfterWriteTick, Same, Untouched, Ordered, More, Free
  <2>3. a.fn = "afterWrite"
    BY <2>1, TopFits DEF IsPiece
  <2>4. Good(a)
    BY <2>1, <2>3, Outside DEF Common, Inside, Quick, Foremost, Processing, Chunkless
  <2> HIDE DEF a
  <2> QED
    BY <2>1, <2>2, <2>4, GoodShort DEF Steady, Processing
<1>8. CASE AfterWrite
  <2> DEFINE a == [Top EXCEPT !.fn = "settleWrite"]
             settled == [i \in 1 .. Top.n |-> a]
  <2>1. stack # <<>> /\ Top.fn = "afterWrite" /\ w' = [w EXCEPT !.needDrain = @ /\ ~Drains]
        /\ stack' = ((IF Drains THEN <<Emit("drain")>> ELSE <<>>) \o settled
                     \o <<Do("afterWriteEnd")>>) \o Tail(stack)
    BY <1>8 DEF AfterWrite
  <2>2. Same /\ w'.sync = w.sync
    BY <1>8, <2>1 DEF AfterWrite, Same, Untouched, Ordered, More, Free
  <2>3. a.fn = "settleWrite" /\ Top.n \in Int
    BY <2>1, TopFits DEF IsPiece
  <2> HIDE DEF a
  <2>4. Good(a) /\ Good(Emit("drain")) /\ Good(Do("afterWriteEnd"))
    <3>1. \A f : Common(f) => Good(f)
      BY <2>1, Outside DEF Inside, Quick
    <3>2. Common(a) /\ Common(Emit("drain")) /\ Common(Do("afterWriteEnd"))
      BY <2>3, PieceFields DEF Common, Foremost, Processing, Chunkless
    <3> QED
      BY <3>1, <3>2
  <2>5. Goods(settled)
    BY <2>3, <2>4, GoodCopies
  <2> HIDE DEF settled
  <2>6. Goods(IF Drains THEN <<Emit("drain")>> ELSE <<>>) /\ Goods(<<Do("afterWriteEnd")>>)
    BY <2>4, GoodShort
  <2> QED
    BY <2>1, <2>2, <2>5, <2>6, GoodConcat DEF Steady, Processing
<1>9. CASE SettleWrite
  <2>1. stack # <<>> /\ Top.fn = "settleWrite" /\ w' = [w EXCEPT !.pendingcb = @ - 1]
        /\ stack' = <<Callback(Top.cb, None)>> \o Tail(stack)
    BY <1>9 DEF SettleWrite
  <2>2. Same /\ w'.sync = w.sync
    BY <1>9, <2>1 DEF SettleWrite, Same, Untouched, Ordered, More, Free
  <2>3. Good(Callback(Top.cb, None))
    BY <2>1, PieceFields, Outside DEF Common, Inside, Quick, Foremost, Processing, Chunkless
  <2> QED
    BY <2>1, <2>2, <2>3, GoodShort DEF Steady, Processing
<1>10. CASE AfterWriteEnd
  <2>1. stack # <<>> /\ Top.fn = "afterWriteEnd" /\ w' = w
        /\ stack' = ((IF w.destroyed THEN <<Do("errorBuffer")>> ELSE <<>>) \o <<Do("finishMaybe")>>)
                    \o Tail(stack)
    BY <1>10 DEF AfterWriteEnd
  <2>2. Same
    BY <1>10 DEF AfterWriteEnd, Same, Untouched, Ordered
  <2>3. Good(Do("errorBuffer")) /\ Good(Do("finishMaybe"))
    BY <2>1, PieceFields, Outside DEF Common, Inside, Quick, Foremost, Processing, Chunkless
  <2>4. Goods(IF w.destroyed THEN <<Do("errorBuffer")>> ELSE <<>>) /\ Goods(<<Do("finishMaybe")>>)
    BY <2>3, GoodShort
  <2> QED
    BY <2>1, <2>2, <2>4, GoodConcat DEF Steady, Processing
<1>11. CASE OnwriteError
  <2>1. stack # <<>> /\ Top.fn = "onwriteError" /\ w' = [w EXCEPT !.pendingcb = @ - 1]
        /\ stack' = <<Callback(Top.cb, Top.err), Do("errorBuffer"), Err("errorOrDestroy", Top.err)>>
                    \o Tail(stack)
    BY <1>11 DEF OnwriteError
  <2>2. Same /\ w'.sync = w.sync
    BY <1>11, <2>1 DEF OnwriteError, Same, Untouched, Ordered, More, Free
  <2>3. Good(Callback(Top.cb, Top.err)) /\ Good(Do("errorBuffer")) /\ Good(Err("errorOrDestroy", Top.err))
    BY <2>1, PieceFields, Outside DEF Common, Inside, Quick, Foremost, Processing, Chunkless
  <2> QED
    BY <2>1, <2>2, <2>3, GoodShort DEF Steady, Processing
<1> QED
  BY <1>1, <1>2, <1>3, <1>4, <1>5, <1>6, <1>7, <1>8, <1>9, <1>10, <1>11

\* Those around end and errors, but for the one that empties the buffer.
LEMMA SteadyEndSteps ==
    ASSUME Inv, Ordered,
           \/ ErrorBuffer \/ ErrorBufferLoop \/ EndOnce \/ Ended
           \/ EndCallback \/ FinishMaybe \/ FinishIfSettled \/ Prefinish
           \/ OnFinish \/ ErrorOrDestroyIfSync \/ FinishLater \/ Finish
    PROVE  Steady
<1> USE DEF Runs, Then, Continue, Quiet, Set, client, log, InSync
<1>1. CASE ErrorBuffer
  <2> DEFINE a == [Do("errorBufferLoop") EXCEPT !.n = w.bufferedIndex]
  <2>1. stack # <<>> /\ Top.fn = "errorBuffer" /\ w' = w
        /\ (stack' = <<>> \o Tail(stack) \/ stack' = <<a>> \o Tail(stack))
    BY <1>1 DEF ErrorBuffer
  <2>2. Same
    BY <1>1 DEF ErrorBuffer, Same, Untouched, Ordered
  <2>3. Good(a)
    <3>1. a.fn = "errorBufferLoop"
      BY DEF Do
    <3> QED
      BY <2>1, <3>1, Outside DEF Common, Inside, Quick, Foremost, Processing, Chunkless
  <2> HIDE DEF a
  <2> QED
    BY <2>1, <2>2, <2>3, GoodShort DEF Steady, Processing
<1>2. CASE ErrorBufferLoop
  <2> DEFINE a == [Top EXCEPT !.n = @ + 1]
  <2>1. /\ stack # <<>> /\ Top.fn = "errorBufferLoop"
        /\ \/ w' = w \/ w' = [w EXCEPT !.length = @ - ErroredLength] \/ w' = [w EXCEPT !.onFinished = <<>>]
        /\ \/ stack' = <<>>
           \/ stack' = <<Callback(w.buffered[Top.n + 1].cb, "destroyed"), a>> \o Tail(stack)
           \/ stack' = <<Callback(w.onFinished, "destroyed"), Do("resetBuffer")>> \o Tail(stack)
    BY <1>2 DEF ErrorBufferLoop
  <2>2. Same /\ w'.sync = w.sync
    BY <1>2, <2>1 DEF ErrorBufferLoop, Same, Untouched, Ordered, More, Free
  <2>3. a.fn = "errorBufferLoop"
    BY <2>1, TopFits DEF IsPiece
  <2> HIDE DEF a
  <2>4. Good(a) /\ (\A cb, er : Good(Callback(cb, er))) /\ Good(Do("resetBuffer"))
    <3>1. \A f : Common(f) => Good(f)
      BY <2>1, Outside DEF Inside, Quick
    <3>2. Common(a) /\ (\A cb, er : Common(Callback(cb, er))) /\ Common(Do("resetBuffer"))
      BY <2>3, PieceFields DEF Common, Foremost, Processing, Chunkless
    <3> QED
      BY <3>1, <3>2
  <2>5. /\ Goods(<<Callback(w.buffered[Top.n + 1].cb, "destroyed"), a>>)
        /\ Goods(<<Callback(w.onFinished, "destroyed"), Do("resetBuffer")>>)
    BY <2>4, GoodShort
  <2> QED
    BY <2>1, <2>2, <2>5 DEF Steady, Processing
<1>3. CASE EndOnce
  <2> DEFINE rest(er) == [Top EXCEPT !.fn = "endCallback", !.err = er]
  <2>1. /\ stack # <<>> /\ Top.fn = "endOnce"
        /\ \/ /\ w.errored = None /\ w' = [w EXCEPT !.ending = TRUE]
              /\ stack' = <<Do("finishMaybeSync"), Do("ended"), rest(None)>> \o Tail(stack)
           \/ w' = w /\ \E er : stack' = <<rest(er)>> \o Tail(stack)
    BY <1>3 DEF EndOnce
  <2>2. Same /\ w'.sync = w.sync /\ w'.errored = w.errored
    BY <1>3, <2>1 DEF EndOnce, Same, Untouched, Ordered, More, Free
  <2>3. \A er : rest(er).fn = "endCallback"
    BY <2>1, TopFits DEF IsPiece
  <2>4. ASSUME NEW er PROVE Good(rest(er))
    <3>1. PICK a : a = rest(er)
      OBVIOUS
    <3>2. a.fn = "endCallback"
      BY <2>3, <3>1
    <3>3. Good(a)
      BY <2>1, <2>2, <3>2 DEF Good, Common, Fits, Inside, Quick, Foremost, Processing, Chunkless
    <3> QED
      BY <3>1, <3>3
  <2>5. w.errored = None => Good(Do("finishMaybeSync")) /\ Good(Do("ended"))
    BY <2>1, PieceFields DEF Good, Fits, Common, Quick, Foremost, Processing, Chunkless
  <2> HIDE DEF rest
  <2> QED
    BY <2>1, <2>2, <2>4, <2>5, GoodShort DEF Steady, Processing
<1>4. CASE Ended
  <2>1. stack # <<>> /\ Top.fn = "ended" /\ stack' = <<>> \o Tail(stack) /\ w' = [w EXCEPT !.ended = TRUE]
    BY <1>4 DEF Ended
  <2>2. Same /\ w'.sync = w.sync
    BY <1>4, <2>1 DEF Ended, Same, Untouched, Ordered, More, Free
  <2> QED
    BY <2>1, <2>2, GoodShort DEF Steady, Processing
<1>5. CASE EndCallback
  <2>1. stack # <<>> /\ Top.fn = "endCallback" /\ stack' = <<>> \o Tail(stack)
        /\ (w' = w \/ w' = [w EXCEPT !.onFinished = @ \o Top.cb])
    BY <1>5 DEF EndCallback
  <2>2. \A i \in DOMAIN ticks' : Common(ticks'[i])
    <3>1. Common(Callback(Top.cb, Top.err))
      BY PieceFields DEF Common, Foremost, Processing, Chunkless
    <3>2. CASE ticks' = Append(ticks, Callback(Top.cb, Top.err))
      BY <3>1, <3>2, LaterCommon
    <3> QED
      BY <1>5, <3>2 DEF EndCallback, Later, Ordered
  <2>3. Same /\ w'.sync = w.sync
    BY <1>5, <2>1, <2>2 DEF EndCallback, Same, Untouched, Ordered, More, Free
  <2> QED
    BY <2>1, <2>3, GoodShort DEF Steady, Processing
<1>6. CASE FinishMaybe
  <2>1. stack # <<>> /\ Top.fn \in {"finishMaybe", "finishMaybeSync"} /\ w' = w
        /\ \/ stack' = <<>> \o Tail(stack)
           \/ stack' = <<Do("prefinish"), Err("finishIfSettled", Top.fn)>> \o Tail(stack)
    BY <1>6 DEF FinishMaybe
  <2>2. Same
    BY <1>6 DEF FinishMaybe, Same, Untouched, Ordered
  <2>3. Good(Do("prefinish")) /\ Good(Err("finishIfSettled", Top.fn))
    BY <2>1, PieceFields, Outside DEF Common, Inside, Quick, Foremost, Processing, Chunkless
  <2> QED
    BY <2>1, <2>2, <2>3, GoodShort DEF Steady, Processing
<1>7. CASE FinishIfSettled
  <2>1. stack # <<>> /\ Top.fn = "finishIfSettled"
        /\ (w' = w \/ w' = [w EXCEPT !.pendingcb = 1])
        /\ (stack' = <<>> \o Tail(stack) \/ stack' = <<Do("finish")>> \o Tail(stack))
    BY <1>7 DEF FinishIfSettled
  <2>2. Common(Do("finish")) /\ Good(Do("finish"))
    BY <2>1, PieceFields, Outside DEF Common, Inside, Quick, Foremost, Processing, Chunkless
  <2>3. \A i \in DOMAIN ticks' : Common(ticks'[i])
    <3>1. ticks' = ticks \/ ticks' = Append(ticks, Do("finish"))
      BY <1>7 DEF FinishIfSettled, Later
    <3> QED
      BY <2>2, <3>1, LaterCommon DEF Ordered
  <2>4. Same /\ w'.sync = w.sync
    BY <1>7, <2>1, <2>3 DEF FinishIfSettled, Same, Untouched, Ordered, More, Free
  <2> QED
    BY <2>1, <2>2, <2>4, GoodShort DEF Steady, Processing
<1>8. CASE Prefinish
  <2>1. /\ stack # <<>> /\ Top.fn = "prefinish"
        /\ \/ w' = w
           \/ w' = [w EXCEPT !.finalCalled = TRUE, !.sync = TRUE, !.pendingcb = @ + 1]
           \/ w' = [w EXCEPT !.prefinished = TRUE]
        /\ \/ stack' = <<>> \o Tail(stack)
           \/ stack' = <<Do("sinkFinal"), Do("syncFalse")>> \o Tail(stack)
           \/ stack' = <<Emit("prefinish")>> \o Tail(stack)
    BY <1>8 DEF Prefinish
  <2>2. Same /\ (w.sync => w'.sync)
    BY <1>8, <2>1 DEF Prefinish, Same, Untouched, Ordered, More, Free
  <2>3. Good(Do("sinkFinal")) /\ Good(Do("syncFalse")) /\ Good(Emit("prefinish"))
    BY <2>1, PieceFields, Outside DEF Common, Inside, Quick, Foremost, Processing, Chunkless
  <2> QED
    BY <2>1, <2>2, <2>3, GoodShort DEF Steady, Processing
<1>9. CASE OnFinish
  <2> DEFINE once == [w EXCEPT !.onFinishCalled = TRUE, !.pendingcb = @ - 1]
  <2>1. /\ stack # <<>> /\ Top.fn = "onFinish"
        /\ \/ w' = w \/ w' = once \/ w' = [once EXCEPT !.onFinished = <<>>]
           \/ w' = [once EXCEPT !.prefinished = TRUE]
        /\ \/ stack' = <<>> \/ stack' = <<>> \o Tail(stack)
           \/ stack' = <<Err("errorOrDestroy", Top.err)>> \o Tail(stack)
           \/ stack' = <<Callback(w.onFinished, Top.err), Err("errorOrDestroy?", Top.err)>> \o Tail(stack)
           \/ stack' = <<Emit("prefinish"), Do("finishLater")>> \o Tail(stack)
    BY <1>9 DEF OnFinish
  <2>2. Same /\ w'.sync = w.sync
    BY <1>9, <2>1 DEF OnFinish, Same, Untouched, Ordered, More, Free
  <2>3. /\ Good(Err("errorOrDestroy", Top.err)) /\ Good(Callback(w.onFinished, Top.err))
        /\ Good(Err("errorOrDestroy?", Top.err)) /\ Good(Emit("prefinish")) /\ Good(Do("finishLater"))
    BY <2>1, PieceFields, Outside DEF Common, Inside, Quick, Foremost, Processing, Chunkless
  <2>4. /\ Goods(<<>>) /\ Goods(<<Err("errorOrDestroy", Top.err)>>)
        /\ Goods(<<Callback(w.onFinished, Top.err), Err("errorOrDestroy?", Top.err)>>)
        /\ Goods(<<Emit("prefinish"), Do("finishLater")>>)
    BY <2>3, GoodShort
  <2> QED
    BY <2>1, <2>2, <2>4 DEF Steady, Processing
<1>10. CASE ErrorOrDestroyIfSync
  <2>1. /\ stack # <<>> /\ Top.fn = "errorOrDestroy?" /\ w' = w
        /\ \/ stack' = <<Err("errorOrDestroySync", Top.err)>> \o Tail(stack)
           \/ stack' = <<Err("errorOrDestroy", Top.err)>> \o Tail(stack)
    BY <1>10 DEF ErrorOrDestroyIfSync
  <2>2. Same
    BY <1>10 DEF ErrorOrDestroyIfSync, Same, Untouched, Ordered
  <2>3. Good(Err("errorOrDestroySync", Top.err)) /\ Good(Err("errorOrDestroy", Top.err))
    BY <2>1, PieceFields, Outside DEF Common, Inside, Quick, Foremost, Processing, Chunkless
  <2> QED
    BY <2>1, <2>2, <2>3, GoodShort DEF Steady, Processing
<1>11. CASE FinishLater
  <2>1. stack # <<>> /\ Top.fn = "finishLater" /\ stack' = <<>> \o Tail(stack)
        /\ w' = [w EXCEPT !.pendingcb = @ + 1] /\ ticks' = Append(ticks, Do("finish"))
    BY <1>11 DEF FinishLater, Later
  <2>2. \A i \in DOMAIN ticks' : Common(ticks'[i])
    <3>1. Common(Do("finish"))
      BY PieceFields DEF Common, Foremost, Processing, Chunkless
    <3> QED
      BY <2>1, <3>1, LaterCommon
  <2>3. Same /\ w'.sync = w.sync
    BY <1>11, <2>1, <2>2 DEF FinishLater, Same, Untouched, Ordered, More, Free
  <2> QED
    BY <2>1, <2>3, GoodShort DEF Steady, Processing
<1>12. CASE Finish
  <2>1. /\ stack # <<>> /\ Top.fn = "finish"
        /\ w' = [w EXCEPT !.pendingcb = @ - 1, !.finished = TRUE, !.onFinished = <<>>]
        /\ stack' = (<<Callback(w.onFinished, None), Emit("finish")>>
                     \o IF w.stream.autoDestroy THEN <<Do("destroy")>> ELSE <<>>) \o Tail(stack)
    BY <1>12 DEF Finish
  <2>2. Same /\ w'.sync = w.sync
    BY <1>12, <2>1 DEF Finish, Same, Untouched, Ordered, More, Free
  <2>3. Good(Callback(w.onFinished, None)) /\ Good(Emit("finish")) /\ Good(Do("destroy"))
    <3>1. \A f : Common(f) => Good(f)
      BY <2>1, Outside DEF Inside, Quick
    <3>2. /\ Common(Callback(w.onFinished, None)) /\ Common(Emit("finish"))
          /\ Common(Do("destroy"))
      BY PieceFields DEF Common, Foremost, Processing, Chunkless
    <3> QED
      BY <3>1, <3>2
  <2>4. Goods(<<Callback(w.onFinished, None), Emit("finish")>>)
        /\ Goods(IF w.stream.autoDestroy THEN <<Do("destroy")>> ELSE <<>>)
    BY <2>3, GoodShort
  <2> QED
    BY <2>1, <2>2, <2>4, GoodConcat DEF Steady, Processing
<1> QED
  BY <1>1, <1>2, <1>3, <1>4, <1>5, <1>6, <1>7, <1>8, <1>9, <1>10, <1>11, <1>12

\* Those around errors and destroy.
LEMMA SteadyDestroySteps ==
    ASSUME Inv, Ordered,
           \/ OnConstruct \/ ErrorOrDestroy \/ Destroy \/ OnDestroy
           \/ EmitErrorClose \/ EmitError \/ EmitClose
    PROVE  Steady
<1> USE DEF Runs, Then, Continue, Quiet, Set, client, log, InSync
<1>1. CASE OnConstruct
  <2>1. /\ stack # <<>> /\ Top.fn = "onConstruct"
        /\ w' = w \/ w' = [w EXCEPT !.onConstructCalled = TRUE, !.constructed = TRUE]
        /\ \/ stack' = <<>> \o Tail(stack)
           \/ \E er : stack' = <<Err("errorOrDestroy", er)>> \o Tail(stack)
           \/ \E er : stack' = <<Err("_destroy", er)>> \o Tail(stack)
           \/ \E er : stack' = <<Err("errorOrDestroySync", er)>> \o Tail(stack)
    BY <1>1 DEF OnConstruct
  <2>2. \A er : /\ Common(Err("errorOrDestroy", er)) /\ Common(Err("_destroy", er))
                /\ Common(Err("errorOrDestroySync", er))
    BY PieceFields DEF Common, Foremost, Processing, Chunkless
  <2>3. \A f : Common(f) => Good(f)
    BY <2>1, Outside DEF Inside, Quick
  <2>4. \A i \in DOMAIN ticks' : Common(ticks'[i])
    <3>1. Common(Do("emitConstructNT"))
      BY PieceFields DEF Common, Foremost, Processing, Chunkless
    <3>2. ticks' = ticks \/ ticks' = Append(ticks, Do("emitConstructNT"))
      BY <1>1 DEF OnConstruct, Later
    <3> QED
      BY <3>1, <3>2, LaterCommon DEF Ordered
  <2>5. Same /\ w'.sync = w.sync
    BY <1>1, <2>1, <2>4 DEF OnConstruct, Same, Untouched, Ordered, More, Free
  <2> QED
    BY <2>1, <2>2, <2>3, <2>5, GoodShort DEF Steady, Processing
<1>2. CASE ErrorOrDestroy
  <2>1. /\ stack # <<>> /\ Top.fn \in {"errorOrDestroy", "errorOrDestroySync"}
        /\ \/ w' = w /\ stack' = <<>> \o Tail(stack)
           \/ w' = w /\ stack' = <<Err("destroy", Top.err)>> \o Tail(stack)
           \/ /\ w' = [w EXCEPT !.errored = IF @ = None THEN Top.err ELSE @]
              /\ \/ stack' = <<>> \o Tail(stack)
                 \/ stack' = <<Err("emitErrorNT", Top.err)>> \o Tail(stack)
    BY <1>2 DEF ErrorOrDestroy
  <2>2. Common(Err("destroy", Top.err)) /\ Common(Err("emitErrorNT", Top.err))
    BY PieceFields DEF Common, Foremost, Processing, Chunkless
  <2>3. \A i \in DOMAIN ticks' : Common(ticks'[i])
    <3>1. ticks' = ticks \/ ticks' = Append(ticks, Err("emitErrorNT", Top.err))
      BY <1>2 DEF ErrorOrDestroy, Later
    <3> QED
      BY <2>2, <3>1, LaterCommon DEF Ordered
  <2>4. More(w) /\ (\A i \in DOMAIN ticks : Common(ticks[i]))
    BY DEF Ordered
  <2>5. Same /\ w'.sync = w.sync
    <3>1. CASE w' = w
      BY <1>2, <2>3, <2>4, <3>1 DEF ErrorOrDestroy, Same, Untouched
    <3>2. CASE w' = [w EXCEPT !.errored = IF @ = None THEN Top.err ELSE @]
      BY <1>2, <2>3, <2>4, <3>2 DEF ErrorOrDestroy, Same, Untouched, More, Free
    <3> QED
      BY <2>1, <3>1, <3>2
  <2>6. CASE /\ w' = w
             /\ \/ stack' = <<>> \o Tail(stack)
                \/ stack' = <<Err("destroy", Top.err)>> \o Tail(stack)
    <3>1. Good(Err("destroy", Top.err))
      BY <2>1, <2>2, <2>6, PieceFields DEF Good, Fits, Inside, Quick
    <3> QED
      BY <2>1, <2>5, <2>6, <3>1, GoodShort DEF Steady, Processing
  <2>7. CASE w' = [w EXCEPT !.errored = IF @ = None THEN Top.err ELSE @]
    <3>1. w'.errored = IF w.errored = None THEN Top.err ELSE w.errored
      BY <2>4, <2>7 DEF More
    <3>2. Fits(Top, w) => w'.errored # None
      BY <2>1, <3>1 DEF Fits, Quick
    <3>3. Good(Err("emitErrorNT", Top.err))
      BY <2>2, <3>2, PieceFields DEF Good, Fits, Inside, Quick
    <3>4. Good(Err("destroy", Top.err))
      BY <2>2, <3>2, PieceFields DEF Good, Fits, Inside, Quick
    <3> QED
      BY <2>1, <2>5, <3>3, <3>4, GoodShort DEF Steady, Processing
  <2> QED
    BY <2>1, <2>6, <2>7
<1>3. CASE Destroy
  <2> DEFINE gone == [WithError(w, Top.err) EXCEPT !.destroyed = TRUE, !.destroyErr = Top.err]
  <2>1. /\ stack # <<>> /\ Top.fn = "destroy" /\ w' \in {w, gone}
        /\ \/ w' = w /\ stack' = <<>> \o Tail(stack)
           \/ /\ w' = gone
              /\ \/ stack' = <<>> \o Tail(stack)
                 \/ stack' = <<Err("_destroy", Top.err)>> \o Tail(stack)
    BY <1>3 DEF Destroy, DestroyWhen
  <2>2. Common(Err("_destroy", Top.err)) /\ Common(Do("errorBuffer"))
    BY PieceFields DEF Common, Foremost, Processing, Chunkless
  <2>3. \A i \in DOMAIN ticks' : Common(ticks'[i])
    <3>1. ticks' = ticks \/ ticks' = Append(ticks, Do("errorBuffer"))
      BY <1>3 DEF Destroy, Later
    <3> QED
      BY <2>2, <3>1, LaterCommon DEF Ordered
  <2>4. More(w) /\ (\A i \in DOMAIN ticks : Common(ticks[i]))
    BY DEF Ordered
  <2>5. CASE w' = w /\ stack' = <<>> \o Tail(stack)
    <3>1. Same
      BY <1>3, <2>3, <2>4, <2>5 DEF Destroy, Same, Untouched
    <3> QED
      BY <2>1, <2>5, <3>1, GoodShort DEF Steady, Processing
  <2>6. CASE w' = gone
    <3>1. /\ w'.errored = IF w.errored = None THEN Top.err ELSE w.errored
          /\ w'.sync = w.sync /\ More(w') /\ w'.destroyed
      BY <2>4, <2>6 DEF More, WithError
    <3>2. Same
      BY <1>3, <2>3, <2>4, <2>6, <3>1 DEF Destroy, Same, Untouched, More, Free, WithError
    <3>3. Fits(Top, w) => w'.errored # None
      BY <2>1, <3>1 DEF Fits, Quick
    <3>4. Good(Err("_destroy", Top.err))
      BY <2>2, <3>3, PieceFields DEF Good, Fits, Inside, Quick
    <3> QED
      BY <2>1, <3>1, <3>2, <3>4, GoodShort DEF Steady, Processing
  <2> QED
    BY <2>1, <2>5, <2>6
<1>4. CASE OnDestroy
  <2> DEFINE shut == [WithError(w, Top.err) EXCEPT !.onDestroyCalled = TRUE, !.closed = TRUE]
  <2>1. stack # <<>> /\ Top.fn = "onDestroy" /\ stack' = <<>> \o Tail(stack) /\ w' \in {w, shut}
    BY <1>4 DEF OnDestroy
  <2>2. Common(Err("emitErrorCloseNT", Top.err)) /\ Common(Do("emitCloseNT"))
    BY PieceFields DEF Common, Foremost, Processing, Chunkless
  <2>3. \A i \in DOMAIN ticks' : Common(ticks'[i])
    <3>1. \/ ticks' = ticks \/ ticks' = Append(ticks, Err("emitErrorCloseNT", Top.err))
          \/ ticks' = Append(ticks, Do("emitCloseNT"))
      BY <1>4 DEF OnDestroy, Later
    <3> QED
      BY <2>2, <3>1, LaterCommon DEF Ordered
  <2>4. More(w) /\ (\A i \in DOMAIN ticks : Common(ticks[i]))
    BY DEF Ordered
  <2>5. Same /\ w'.sync = w.sync
    <3>1. CASE w' = w
      BY <1>4, <2>3, <2>4, <3>1 DEF OnDestroy, Same, Untouched
    <3>2. CASE w' = shut
      BY <1>4, <2>3, <2>4, <3>2 DEF OnDestroy, Same, Untouched, More, Free, WithError
    <3> QED
      BY <2>1, <3>1, <3>2
  <2> QED
    BY <2>1, <2>5, GoodShort DEF Steady, Processing
<1>5. CASE EmitErrorClose
  <2>1. /\ stack # <<>> /\ Top.fn = "emitErrorCloseNT" /\ w' = w
        /\ stack' = <<Err("emitErrorNT", Top.err), Do("emitCloseNT")>> \o Tail(stack)
    BY <1>5 DEF EmitErrorClose
  <2>2. Same
    BY <1>5 DEF EmitErrorClose, Same, Untouched, Ordered
  <2>3. Good(Err("emitErrorNT", Top.err)) /\ Good(Do("emitCloseNT"))
    BY <2>1, PieceFields, Outside DEF Common, Inside, Quick, Foremost, Processing, Chunkless
  <2> QED
    BY <2>1, <2>2, <2>3, GoodShort DEF Steady, Processing
<1>6. CASE EmitError
  <2>1. /\ stack # <<>> /\ Top.fn = "emitErrorNT" /\ w' = [w EXCEPT !.errorEmitted = TRUE]
        /\ stack' = <<>> \o Tail(stack) \/ stack' = <<Emit("error")>> \o Tail(stack)
    BY <1>6 DEF EmitError
  <2>2. Same /\ w'.sync = w.sync /\ w'.errored = w.errored
    BY <1>6, <2>1 DEF EmitError, Same, Untouched, Ordered, More, Free
  <2>3. Good(Emit("error"))
    BY <2>1, <2>2, PieceFields DEF Good, Fits, Inside, Quick, Common, Foremost, Processing, Chunkless
  <2> QED
    BY <2>1, <2>2, <2>3, GoodShort DEF Steady, Processing
<1>7. CASE EmitClose
  <2>1. /\ stack # <<>> /\ Top.fn = "emitCloseNT" /\ w' = [w EXCEPT !.closeEmitted = TRUE]
        /\ stack' = <<Emit("close")>> \o Tail(stack)
    BY <1>7 DEF EmitClose
  <2>2. Same /\ w'.sync = w.sync
    BY <1>7, <2>1 DEF EmitClose, Same, Untouched, Ordered, More, Free
  <2>3. Good(Emit("close"))
    BY <2>1, PieceFields, Outside DEF Common, Inside, Quick, Foremost, Processing, Chunkless
  <2> QED
    BY <2>1, <2>2, <2>3, GoodShort DEF Steady, Processing
<1> QED
  BY <1>1, <1>2, <1>3, <1>4, <1>5, <1>6, <1>7

\* Pieces put on the stack of which only the first may have to be on top.
LEMMA OneForemost ==
    ASSUME NEW x, NEW d, NEW c, Goods(d), c = <<x>> \o d
    PROVE  /\ c \in Seq(Range(c)) /\ DOMAIN c = 1 .. Len(d) + 1 /\ Len(d) \in Nat
           /\ c[1] = x /\ \A i \in 2 .. Len(d) + 1 : Good(c[i])
<1> DEFINE S == {x} \cup Range(d)
<1>1. <<x>> \in Seq(S) /\ d \in Seq(S)
  BY SeqMonotonic DEF Goods
<1> HIDE DEF S
<1>2. /\ c \in Seq(S) /\ Len(c) = 1 + Len(d)
      /\ \A i \in 1 .. 1 + Len(d) : c[i] = IF i <= 1 THEN x ELSE d[i - 1]
  BY <1>1, ConcatProperties
<1>3. /\ Len(d) \in Nat /\ DOMAIN d = 1 .. Len(d) /\ DOMAIN c = 1 .. Len(d) + 1
  BY <1>1, <1>2, LenProperties
<1>4. c \in Seq(Range(c))
  BY <1>2, OfItsRange
<1>5. ASSUME NEW i \in 2 .. Len(d) + 1 PROVE Good(c[i])
  <2>1. i - 1 \in DOMAIN d /\ c[i] = d[i - 1]
    BY <1>2, <1>3
  <2> QED
    BY <2>1 DEF Goods
<1> QED
  BY <1>2, <1>3, <1>4, <1>5

\* The same of what the top leaves on the stack.
LEMMA FramedOnTop ==
    ASSUME Inv, Ordered, stack # <<>>, Top.fn \notin Processing, InSync, Untouched,
           NEW x, NEW d, NEW c, Goods(d), c = <<x>> \o d, stack' = c \o Tail(stack),
           x.fn \notin Processing, x.fn \in Chunkless => x.ids = <<>>,
           Fits(Top, w) => Fits(x, w') /\ x.fn \notin {"syncFalse", "doWrite"}
    PROVE  Framed(stack', w')
<1>1. /\ stack \in Seq(Range(stack)) /\ stack # <<>> /\ Top = stack[1] /\ 1 \in DOMAIN stack
      /\ Framed(stack, w)
  BY TopIsFirst DEF Inv, Stacked, Ordered
<1>2. /\ c \in Seq(Range(c)) /\ DOMAIN c = 1 .. Len(d) + 1 /\ Len(d) \in Nat
      /\ c[1] = x /\ \A i \in 2 .. Len(d) + 1 : Good(c[i])
  BY OneForemost
<1>3. \A i \in DOMAIN c : i = 1 \/ i \in 2 .. Len(d) + 1
  BY <1>2
<1>4. \A i \in DOMAIN c : /\ c[i].fn \notin Processing /\ (i > 1 => c[i].fn \notin Foremost)
                          /\ c[i].fn \in Chunkless => c[i].ids = <<>>
                          /\ Fits(stack[1], w) => /\ Fits(c[i], w')
                                                  /\ c[i].fn \notin {"syncFalse", "doWrite"}
  BY <1>1, <1>2, <1>3 DEF Good, Common
<1>5. Framed(c, w')
  BY <1>2, <1>3, <1>4 DEF Framed, FramedAt
<1>6. (\A f : Fits(f, w) => Fits(f, w')) \/ stack[1].fn = "syncFalse"
  BY <1>1 DEF InSync, Untouched, Fits
<1>7. w.bufferProcessing => w'.bufferProcessing
  BY DEF Untouched
<1>8. stack[1].fn \notin Processing
  BY <1>1
<1> QED
  BY <1>1, <1>2, <1>4, <1>5, <1>6, <1>7, <1>8, FramedReplaced

LEMMA HeadOnTop ==
    ASSUME Inv, stack # <<>>, NEW x, NEW d, Goods(d), stack' = (<<x>> \o d) \o Tail(stack)
    PROVE  stack' # <<>> /\ Head(stack') = x /\ 1 \in DOMAIN stack' /\ stack'[1] = x
<1> DEFINE c == <<x>> \o d
<1>1. stack \in Seq(Range(stack))
  BY DEF Inv, Stacked
<1>2. /\ c \in Seq(Range(c)) /\ DOMAIN c = 1 .. Len(d) + 1 /\ Len(d) \in Nat /\ c[1] = x
  BY OneForemost
<1> HIDE DEF c
<1>3. stack' = c \o Tail(stack)
  BY DEF c
<1>4. /\ DOMAIN c = 1 .. Len(c) /\ Len(c) \in Nat /\ DOMAIN stack' = 1 .. Len(c) + Len(stack) - 1
      /\ Len(stack) \in Nat \ {0} /\ stack' \in Seq(Range(stack'))
  BY <1>1, <1>2, <1>3, Replaced
<1>5. \A i \in 1 .. Len(c) : stack'[i] = c[i]
  BY <1>1, <1>2, <1>3, Replaced
<1>6. 1 \in 1 .. Len(c) /\ 1 \in DOMAIN stack'
  BY <1>2, <1>4
<1>7. stack' # <<>> /\ stack'[1] = x
  BY <1>2, <1>5, <1>6
<1> QED
  BY <1>4, <1>6, <1>7, HeadIsFirst

LEMMA PositionsOnTop ==
    ASSUME Inv, stack # <<>>, Top.fn \notin Processing, Untouched,
           NEW x, NEW d, Goods(d), stack' = (<<x>> \o d) \o Tail(stack), x.fn \notin Processing
    PROVE  Positions(stack', w') \subseteq Positions(stack, w)
<1> DEFINE c == <<x>> \o d
<1>1. /\ stack \in Seq(Range(stack)) /\ stack # <<>> /\ Top = stack[1] /\ 1 \in DOMAIN stack
  BY TopIsFirst DEF Inv, Stacked
<1>2. /\ c \in Seq(Range(c)) /\ DOMAIN c = 1 .. Len(d) + 1 /\ Len(d) \in Nat
      /\ c[1] = x /\ \A i \in 2 .. Len(d) + 1 : Good(c[i])
  BY OneForemost
<1> HIDE DEF c
<1>3. \A i \in DOMAIN c : i = 1 \/ i \in 2 .. Len(d) + 1
  BY <1>2
<1>4. \A i \in DOMAIN c : c[i].fn \notin Processing
  BY <1>2, <1>3 DEF Good, Common
<1>5. /\ stack' = c \o Tail(stack) /\ stack[1].fn \notin Processing
      /\ w'.bufferProcessing = w.bufferProcessing /\ w'.bufferedIndex = w.bufferedIndex
      /\ Len(w'.buffered) = Len(w.buffered)
  BY <1>1 DEF c, Untouched
<1> QED
  BY <1>1, <1>2, <1>4, <1>5, PositionsKept

\* A step that starts clearBuffer.
LEMMA ClearStep ==
    ASSUME Inv, Ordered, stack # <<>>, Top.fn \notin Processing, InSync, Untouched, consumed' = consumed,
           NEW d, Goods(d), stack' = (<<Do("clearBuffer")>> \o d) \o Tail(stack)
    PROVE  Ordered'
<1>1. Do("clearBuffer").fn = "clearBuffer"
  BY PieceFields
<1>2. PICK x : x = Do("clearBuffer")
  OBVIOUS
<1>3. /\ x.fn \notin Processing /\ x.fn \notin Chunkless /\ Fits(x, w')
      /\ x.fn \notin {"syncFalse", "doWrite"} /\ stack' = (<<x>> \o d) \o Tail(stack)
  BY <1>1, <1>2 DEF Processing, Chunkless, Fits, Inside, Quick
<1>4. Framed(stack', w')
  BY <1>3, FramedOnTop
<1>5. stack' # <<>> /\ Head(stack') = x /\ 1 \in DOMAIN stack' /\ stack'[1] = x
  BY <1>3, HeadOnTop
<1>6. Positions(stack', w') \subseteq Positions(stack, w)
  BY <1>3, PositionsOnTop
<1>7. Busy(stack')
  BY <1>1, <1>2, <1>5 DEF Busy
<1>8. Hand(stack') = <<>> /\ Next1(stack', ops) = ops + 1
  BY <1>1, <1>2, <1>5 DEF Hand, Next1
<1>9. Head(stack').fn \notin Foremost \ {"clearBuffer"}
  BY <1>1, <1>2, <1>5
<1> QED
  BY <1>4, <1>6, <1>7, <1>8, <1>9, UntouchedStep

LEMMA Emptied == \A d : Goods(d) => <<>> \o d = d
<1> SUFFICES ASSUME NEW d, Goods(d) PROVE <<>> \o d = d
  OBVIOUS
<1>1. d \in Seq(Range(d))
  BY DEF Goods
<1> QED
  BY <1>1

LEMMA Alone == \A a : <<a>> = <<a>> \o <<>>
  OBVIOUS

\* The handlers that start it.
LEMMA UncorkOrder == ASSUME Inv, Ordered, Uncork PROVE Ordered'
<1> DEFINE less == [w EXCEPT !.corked = IF @ > 0 THEN @ - 1 ELSE 0]
<1>1. /\ stack # <<>> /\ Top.fn = "uncork" /\ w' = less
      /\ stack' = (IF w.corked > 0 /\ ~w.writing THEN <<Do("clearBuffer")>> ELSE <<>>) \o Tail(stack)
      /\ consumed' = consumed /\ ops' = ops /\ ticks' = ticks
  BY DEF Uncork, Runs, Then, Continue, Quiet, Set, client, log
<1>2. More(w) /\ (\A i \in DOMAIN ticks : Common(ticks[i])) /\ w.corked \in Nat
  BY DEF Ordered, More
<1>3. w'.corked \in Nat /\ (w.corked = 0 => w'.corked = 0)
  BY <1>1, <1>2 DEF More
<1>4. Untouched /\ InSync /\ w'.writing = w.writing /\ w'.errored = w.errored /\ w'.destroyed = w.destroyed
  BY <1>1, <1>2, <1>3 DEF Untouched, More, InSync
<1>5. CASE w.corked > 0 /\ ~w.writing
  <2>1. stack' = (<<Do("clearBuffer")>> \o <<>>) \o Tail(stack)
    BY <1>1, <1>5, Alone
  <2> QED
    BY <1>1, <1>4, <2>1, GoodShort, ClearStep DEF Processing
<1>6. CASE ~(w.corked > 0 /\ ~w.writing)
  <2>1. Free(w') => Free(w)
    BY <1>2, <1>4, <1>6 DEF Free
  <2>2. stack' = <<>> \o Tail(stack)
    BY <1>1, <1>6
  <2> QED
    BY <1>1, <1>4, <2>1, <2>2, GoodShort, SteadyStep DEF Steady, Same, Processing
<1> QED
  BY <1>5, <1>6

LEMMA EndOrder == ASSUME Inv, Ordered, End PROVE Ordered'
<1> DEFINE once == [Top EXCEPT !.fn = "endOnce"]
<1>1. /\ stack # <<>> /\ Top.fn = "end" /\ w' = [w EXCEPT !.corked = 0]
      /\ stack' = ((IF w.corked > 0 /\ ~w.writing THEN <<Do("clearBuffer")>> ELSE <<>>)
                   \o <<once>>) \o Tail(stack)
      /\ consumed' = consumed /\ ops' = ops /\ ticks' = ticks
  BY DEF End, Runs, Then, Continue, Quiet, Set, client, log
<1>2. More(w) /\ (\A i \in DOMAIN ticks : Common(ticks[i])) /\ w.corked \in Nat
  BY DEF Ordered, More
<1>3. Untouched /\ InSync /\ w'.writing = w.writing /\ w'.errored = w.errored /\ w'.destroyed = w.destroyed
  BY <1>1, <1>2 DEF Untouched, More, InSync
<1>4. once.fn = "endOnce"
  BY <1>1, TopFits DEF IsPiece
<1> HIDE DEF once
<1>5. Goods(<<once>>)
  <2>1. Good(once)
    BY <1>1, <1>3, <1>4 DEF Good, Common, Fits, Inside, Quick, Foremost, Processing, Chunkless
  <2> QED
    BY <2>1, GoodShort
<1>6. CASE w.corked > 0 /\ ~w.writing
  <2>1. stack' = (<<Do("clearBuffer")>> \o <<once>>) \o Tail(stack)
    BY <1>1, <1>6
  <2> QED
    BY <1>1, <1>3, <1>5, <2>1, ClearStep DEF Processing
<1>7. CASE ~(w.corked > 0 /\ ~w.writing)
  <2>1. Free(w') => Free(w)
    BY <1>2, <1>3, <1>7 DEF Free
  <2>2. stack' = <<once>> \o Tail(stack)
    BY <1>1, <1>5, <1>7, Emptied
  <2> QED
    BY <1>1, <1>3, <1>5, <2>1, <2>2, SteadyStep DEF Steady, Same, Processing
<1> QED
  BY <1>6, <1>7

LEMMA EmitConstructOrder == ASSUME Inv, Ordered, EmitConstruct PROVE Ordered'
<1>1. /\ stack # <<>> /\ Top.fn = "emitConstructNT" /\ w' = w
      /\ stack' = ((IF w.writing THEN <<>> ELSE <<Do("clearBuffer")>>) \o <<Do("finishMaybe")>>)
                  \o Tail(stack)
      /\ consumed' = consumed /\ ops' = ops /\ ticks' = ticks
  BY DEF EmitConstruct, Runs, Then, Continue, Quiet, Set, client, log
<1>2. Same /\ Untouched /\ InSync
  BY <1>1 DEF Untouched, Same, InSync, Ordered
<1>3. Goods(<<Do("finishMaybe")>>)
  <2>1. Good(Do("finishMaybe"))
    BY <1>1, PieceFields, Outside DEF Common, Inside, Quick, Foremost, Processing, Chunkless
  <2> QED
    BY <2>1, GoodShort
<1>4. CASE w.writing
  <2>1. stack' = <<Do("finishMaybe")>> \o Tail(stack)
    BY <1>1, <1>3, <1>4, Emptied
  <2> QED
    BY <1>1, <1>2, <1>3, <2>1, SteadyStep DEF Steady, Processing
<1>5. CASE ~w.writing
  <2>1. stack' = (<<Do("clearBuffer")>> \o <<Do("finishMaybe")>>) \o Tail(stack)
    BY <1>1, <1>5
  <2> QED
    BY <1>1, <1>2, <1>3, <2>1, ClearStep DEF Processing
<1> QED
  BY <1>4, <1>5

LEMMA OnwriteOrder == ASSUME Inv, Ordered, Onwrite PROVE Ordered'
<1> DEFINE er == Top.err
           back == [w EXCEPT !.writing = FALSE, !.writecb = NoCallback,
                             !.length = @ - w.writelen, !.writelen = 0]
           failed == [Err("onwriteError", er) EXCEPT !.cb = w.writecb]
           next == [Do(IF w.sync THEN "onwriteSync" ELSE "afterWrite")
                       EXCEPT !.cb = w.writecb, !.n = 1]
<1>1. stack # <<>> /\ Top.fn = "onwrite" /\ consumed' = consumed /\ ops' = ops
  BY DEF Onwrite, Runs, Then, Continue, Quiet, Set, client, log
<1>2. More(w) /\ (\A i \in DOMAIN ticks : Common(ticks[i]))
  BY DEF Ordered
<1>3. Top.fn \notin Processing \cup {"clearBuffer"}
  BY <1>1 DEF Processing
<1>4. CASE w' = w /\ ticks' = ticks /\ stack' = <<Err("errorOrDestroy", "multiple")>> \o Tail(stack)
  <2>1. Same /\ InSync
    BY <1>1, <1>2, <1>4 DEF Same, Untouched, InSync
  <2>2. Good(Err("errorOrDestroy", "multiple"))
    BY PieceFields DEF Good, Common, Fits, Inside, Quick, Foremost, Processing, Chunkless, None
  <2> QED
    BY <1>1, <1>3, <1>4, <2>1, <2>2, GoodShort, SteadyStep DEF Steady
<1>5. CASE /\ er # None /\ w' = [back EXCEPT !.errored = IF @ = None THEN er ELSE @]
           /\ IF w.sync THEN Later(failed) /\ stack' = <<>> \o Tail(stack)
                        ELSE stack' = <<failed>> \o Tail(stack) /\ ticks' = ticks
  <2>1. w'.errored # None /\ w'.sync = w.sync /\ More(w')
    BY <1>2, <1>5 DEF More
  <2>2. Common(failed)
    BY DEF Err, Do, Common, Foremost, Processing, Chunkless
  <2>3. \A i \in DOMAIN ticks' : Common(ticks'[i])
    BY <1>2, <1>5, <2>2, LaterCommon DEF Later
  <2>4. Same /\ InSync
    BY <1>1, <1>2, <1>5, <2>1, <2>3 DEF Same, Untouched, InSync, More, Free
  <2>5. ~w.sync => Good(failed)
    BY <1>1, <2>2 DEF Good, Fits
  <2> HIDE DEF failed
  <2>6. \E c : Goods(c) /\ stack' = c \o Tail(stack)
    BY <1>5, <2>5, GoodShort
  <2> QED
    BY <1>1, <1>3, <2>4, <2>6, SteadyStep DEF Steady
<1>6. CASE /\ w' = back /\ ticks' = ticks
           /\ stack' = ((IF Len(w.buffered) > w.bufferedIndex THEN <<Do("clearBuffer")>> ELSE <<>>)
                        \o <<next>>) \o Tail(stack)
  <2>1. Untouched /\ InSync /\ w'.errored = w.errored /\ w'.sync = w.sync
    BY <1>1, <1>2, <1>6 DEF Untouched, InSync, More
  <2>2. next.fn = IF w.sync THEN "onwriteSync" ELSE "afterWrite"
    BY DEF Do
  <2> HIDE DEF next
  <2>3. Goods(<<next>>)
    <3>1. Good(next)
      BY <1>1, <2>1, <2>2 DEF Good, Common, Fits, Inside, Quick, Foremost, Processing, Chunkless
    <3> QED
      BY <3>1, GoodShort
  <2>4. CASE Len(w.buffered) > w.bufferedIndex
    <3>1. stack' = (<<Do("clearBuffer")>> \o <<next>>) \o Tail(stack)
      BY <1>6, <2>4
    <3> QED
      BY <1>1, <1>3, <2>1, <2>3, <3>1, ClearStep
  <2>5. CASE ~(Len(w.buffered) > w.bufferedIndex)
    <3>1. Len(w.buffered) <= w.bufferedIndex
      <4>1. Len(w.buffered) \in Int /\ w.bufferedIndex \in Int
        BY <1>2, LenProperties DEF More
      <4> QED
        BY <2>5, <4>1
    <3>2. stack' = <<next>> \o Tail(stack)
      BY <1>6, <2>3, <2>5, Emptied
    <3> QED
      BY <1>1, <1>3, <2>1, <2>3, <3>1, <3>2, SteadyStep DEF Steady, Same
  <2> QED
    BY <2>4, <2>5
<1> QED
  BY <1>4, <1>5, <1>6 DEF Onwrite, Runs, Then, Continue, Quiet, Set

\* The top alone holds a loop; and it is the top, or gone, afterwards.
LEMMA LoopsFresh ==
    ASSUME NEW s, NEW c, NEW t, s \in Seq(Range(s)), s # <<>>, c \in Seq(Range(c)), t = c \o Tail(s),
           \A i \in DOMAIN s : i > 1 => s[i].fn \notin Processing
    PROVE  \A i \in DOMAIN t : t[i].fn \in Processing => i \in DOMAIN c /\ t[i] = c[i]
<1>1. /\ DOMAIN t = 1 .. Len(c) + Len(s) - 1 /\ DOMAIN c = 1 .. Len(c) /\ DOMAIN s = 1 .. Len(s)
      /\ Len(c) \in Nat /\ Len(s) \in Nat \ {0}
  BY Replaced
<1>2. \A i \in 1 .. Len(c) : t[i] = c[i]
  BY Replaced
<1>3. \A i \in Len(c) + 1 .. Len(c) + Len(s) - 1 : t[i] = s[i - Len(c) + 1]
  BY Replaced
<1>4. ASSUME NEW i \in DOMAIN t, t[i].fn \in Processing PROVE i \in DOMAIN c /\ t[i] = c[i]
  <2>1. CASE i \in 1 .. Len(c)
    BY <1>1, <1>2, <2>1
  <2>2. CASE i \in Len(c) + 1 .. Len(c) + Len(s) - 1
    <3>1. i - Len(c) + 1 \in DOMAIN s /\ i - Len(c) + 1 > 1
      BY <1>1, <2>2
    <3> QED
      BY <1>3, <1>4, <2>2, <3>1
  <2> QED
    BY <1>1, <2>1, <2>2
<1> QED
  BY <1>4

\* With a loop on top, or with a piece that none of them starts, there is no
\* loop below.
LEMMA NoneBelow ==
    ASSUME Inv, Ordered, stack # <<>>, Top.fn \in Processing \/ ~Fits(Top, w) \/ ~w.bufferProcessing
    PROVE  \A i \in DOMAIN stack : i > 1 => stack[i].fn \notin Processing
<1>1. Top = stack[1] /\ 1 \in DOMAIN stack /\ Framed(stack, w)
  BY TopIsFirst DEF Ordered
<1>2. stack \in Seq(Range(stack))
  BY DEF Inv, Stacked
<1>3. DOMAIN stack = 1 .. Len(stack) /\ Len(stack) \in Nat
  BY <1>2, LenProperties
<1>4. ASSUME NEW i \in DOMAIN stack, i > 1, stack[i].fn \in Processing PROVE FALSE
  <2>1. FramedAt(stack, w, i)
    BY <1>1 DEF Framed
  <2>2. 1 \in 1 .. i - 1
    BY <1>3, <1>4
  <2>3. Fits(stack[1], w) /\ w.bufferProcessing
    BY <1>4, <2>1, <2>2 DEF FramedAt
  <2>4. stack[1].fn \in Processing => 1 = i
    BY <1>1, <1>4, <2>1 DEF FramedAt
  <2> QED
    BY <1>1, <1>4, <2>3, <2>4
<1> QED
  BY <1>4

LEMMA Popped ==
    ASSUME Inv, Ordered, stack # <<>>, stack' = <<>> \o Tail(stack)
    PROVE  /\ Hand(stack') = <<>> /\ Next1(stack', ops) = ops + 1
           /\ stack' # <<>> => Head(stack').fn \notin Foremost
<1>1. /\ stack \in Seq(Range(stack)) /\ Framed(stack, w) /\ <<>> \in Seq(Range(<<>>))
      /\ \A i \in DOMAIN <<>> : <<>>[i].fn \notin Foremost
  BY DEF Inv, Stacked, Ordered
<1> QED
  BY <1>1, TopAlone, ZenonT(40)

LEMMA FramedEmpty == \A v : Framed(<<>>, v)
  BY DEF Framed

\* The buffer is emptied.
LEMMA EmptyStep ==
    ASSUME Inv, Ordered, stack # <<>>, \A i \in DOMAIN stack : i > 1 => stack[i].fn \notin Processing,
           stack' = <<>> \o Tail(stack), More(w'), w'.buffered = <<>>, w'.bufferedIndex = 0,
           consumed' = consumed, ops' = ops, ticks' = ticks
    PROVE  Ordered'
<1>1. stack \in Seq(Range(stack)) /\ Framed(stack, w) /\ <<>> \in Seq(Range(<<>>))
  BY DEF Inv, Stacked, Ordered
<1>2. Framed(stack', w')
  BY <1>1, FramedEmpty, FramedFresh
<1>3. \A i \in DOMAIN stack' : stack'[i].fn \notin Processing
  BY <1>1, LoopsFresh
<1>4. /\ Hand(stack') = <<>> /\ Next1(stack', ops) = ops + 1
      /\ stack' # <<>> => Head(stack').fn \notin Foremost
  BY Popped
<1>5. ops \in Nat /\ ops + 1 \in Nat /\ Next1(stack, ops) \in Nat /\ Next1(stack, ops) <= ops + 1
  BY DEF Ordered, Line, Next1
<1>6. Lined(consumed, <<>>, ops + 1)
  BY <1>5, LinedLess DEF Ordered, Line
<1>7. Heads'
  BY <1>4 DEF Heads, Top, Foremost
<1>8. Positions(stack', w') \subseteq {0} /\ Len(w'.buffered) = 0
  BY <1>3 DEF Positions, Processing
<1>9. Line'
  <2>1. \A k \in Positions(stack', w') : k = 0
    BY <1>8
  <2>2. Behind(consumed, <<>>, ops + 1, w'.buffered, 0)
    BY <1>8 DEF Behind
  <2> QED
    BY <1>4, <1>5, <1>6, <1>8, <2>1, <2>2 DEF Line
<1> QED
  BY <1>2, <1>7, <1>9 DEF Ordered

LEMMA ResetBufferOrder == ASSUME Inv, Ordered, ResetBuffer PROVE Ordered'
<1>1. /\ stack # <<>> /\ Top.fn = "resetBuffer" /\ w' = Reset(w) /\ stack' = <<>> \o Tail(stack)
      /\ consumed' = consumed /\ ops' = ops /\ ticks' = ticks
  BY DEF ResetBuffer, Runs, Then, Continue, Quiet, Set, client, log
<1>2. More(w') /\ w'.buffered = <<>> /\ w'.bufferedIndex = 0
  BY <1>1 DEF Ordered, More, Reset
<1>3. ~Fits(Top, w)
  BY <1>1 DEF Fits, Inside, Quick
<1> QED
  BY <1>1, <1>2, <1>3, NoneBelow, EmptyStep

LEMMA ClearBufferEndOrder == ASSUME Inv, Ordered, ClearBufferEnd PROVE Ordered'
<1>1. /\ stack # <<>> /\ Top.fn = "clearBufferEnd" /\ stack' = <<>> \o Tail(stack)
      /\ w' = [Reset(w) EXCEPT !.bufferProcessing = FALSE]
      /\ consumed' = consumed /\ ops' = ops /\ ticks' = ticks
  BY DEF ClearBufferEnd, Runs, Then, Continue, Quiet, Set, client, log
<1>2. More(w') /\ w'.buffered = <<>> /\ w'.bufferedIndex = 0
  BY <1>1 DEF Ordered, More, Reset
<1> QED
  BY <1>1, <1>2, NoneBelow, EmptyStep DEF Processing

LEMMA ShortStacks ==
    ASSUME NEW s, s \in Seq(Range(s)), s # <<>>, NEW a, NEW c,
           c = <<a>> \/ \E b : c = <<a, b>>
    PROVE  /\ c \in Seq(Range(c)) /\ 1 \in DOMAIN c /\ c[1] = a
           /\ c \o Tail(s) # <<>> /\ Head(c \o Tail(s)) = a
           /\ 1 \in DOMAIN (c \o Tail(s)) /\ (c \o Tail(s))[1] = a
<1>1. c \in Seq(Range(c)) /\ 1 \in DOMAIN c /\ c[1] = a
  <2>1. CASE c = <<a>>
    <3>1. <<a>> \in Seq({a})
      OBVIOUS
    <3>2. <<a>> \in Seq(Range(<<a>>))
      BY <3>1, OfItsRange
    <3> QED
      BY <2>1, <3>2
  <2>2. CASE \E b : c = <<a, b>>
    <3>1. PICK b : c = <<a, b>>
      BY <2>2
    <3>2. <<a, b>> \in Seq({a, b})
      OBVIOUS
    <3>3. <<a, b>> \in Seq(Range(<<a, b>>))
      BY <3>2, OfItsRange
    <3> QED
      BY <3>1, <3>3
  <2> QED
    BY <2>1, <2>2
<1>2. PICK t : t = c \o Tail(s)
  OBVIOUS
<1>3. /\ t \in Seq(Range(t)) /\ DOMAIN t = 1 .. Len(c) + Len(s) - 1 /\ DOMAIN c = 1 .. Len(c)
      /\ Len(c) \in Nat /\ Len(s) \in Nat \ {0}
  BY <1>1, <1>2, Replaced
<1>4. \A i \in 1 .. Len(c) : t[i] = c[i]
  BY <1>1, <1>2, Replaced
<1>5. 1 \in DOMAIN t /\ t[1] = a
  BY <1>1, <1>3, <1>4
<1>6. t # <<>>
  BY <1>5
<1> QED
  BY <1>1, <1>2, <1>3, <1>5, <1>6, HeadIsFirst

LEMMA TwoPieces ==
    \A a, b : /\ DOMAIN <<a, b>> = 1 .. 2 /\ <<a, b>>[1] = a /\ <<a, b>>[2] = b
              /\ Len(<<a, b>>) = 2
  OBVIOUS

LEMMA BehindKept ==
    ASSUME NEW C, NEW H, NEW G, NEW m, NEW b, NEW k, Behind(C, H, m, b, k), G = H \/ G = <<>>
    PROVE  Behind(C, G, m, b, k)
  BY NothingInHand DEF Behind

LEMMA DoWriteOrder == ASSUME Inv, Ordered, DoWrite PROVE Ordered'
<1> DEFINE x == IF w.destroyed THEN Err("onwrite", "destroyed")
                ELSE [Do("sinkWrite") EXCEPT !.ids = Top.ids]
           c == <<x, Do("syncFalse")>>
<1>1. /\ stack # <<>> /\ Top.fn = "doWrite" /\ stack' = c \o Tail(stack)
      /\ w' = [w EXCEPT !.writelen = Top.n, !.writecb = Top.cb, !.writing = TRUE, !.sync = TRUE]
      /\ consumed' = consumed /\ ops' = ops /\ ticks' = ticks
  BY DEF DoWrite, Runs, Then, Continue, Quiet, Set, client, log
<1>2. /\ stack \in Seq(Range(stack)) /\ Top = stack[1] /\ Top = Head(stack) /\ 1 \in DOMAIN stack
      /\ Framed(stack, w) /\ More(w) /\ (\A i \in DOMAIN ticks : Common(ticks[i]))
  BY <1>1, TopIsFirst DEF Inv, Stacked, Ordered, Top
<1>3. /\ More(w') /\ w'.sync /\ w'.writing /\ w'.errored = w.errored
      /\ w'.bufferProcessing = w.bufferProcessing /\ w'.bufferedIndex = w.bufferedIndex
      /\ w'.buffered = w.buffered
  BY <1>1, <1>2 DEF More
<1>4. /\ x.fn = IF w.destroyed THEN "onwrite" ELSE "sinkWrite"
      /\ ~w.destroyed => x.ids = Top.ids
  BY DEF Do, Err
<1> HIDE DEF x
<1>5. Do("syncFalse").fn = "syncFalse"
  BY PieceFields
<1>6. DOMAIN c = 1 .. 2 /\ c[1] = x /\ c[2] = Do("syncFalse") /\ Len(c) = 2
  BY TwoPieces
<1>7. /\ c \in Seq(Range(c)) /\ stack' # <<>> /\ Head(stack') = x
  BY <1>1, <1>2, ShortStacks
<1> HIDE DEF c
<1>8. \A i \in DOMAIN c : i = 1 \/ i = 2
  BY <1>6
<1>9. \A i \in DOMAIN c :
          /\ c[i].fn \notin Processing
          /\ Fits(stack[1], w) =>
                /\ Fits(c[i], w')
                /\ c[i].fn \in {"syncFalse", "doWrite"} => stack[1].fn = "doWrite" /\ i = Len(c)
  <2>1. x.fn \notin Processing /\ x.fn \notin {"syncFalse", "doWrite"} /\ Fits(x, w')
    BY <1>3, <1>4 DEF Processing, Fits, Inside, Quick
  <2>2. Do("syncFalse").fn \notin Processing /\ Fits(Do("syncFalse"), w')
    BY <1>5 DEF Processing, Fits, Inside, Quick
  <2> QED
    BY <1>1, <1>2, <1>6, <1>8, <2>1, <2>2
<1>10. Framed(c, w')
  <2>1. FramedAt(c, w', 1)
    BY <1>4, <1>6 DEF FramedAt, Processing, Chunkless
  <2>2. FramedAt(c, w', 2)
    BY <1>5, <1>6 DEF FramedAt, Processing, Chunkless, Foremost
  <2> QED
    BY <1>8, <2>1, <2>2 DEF Framed
<1>11. Framed(stack', w')
  <2>1. \A f : Fits(f, w) => Fits(f, w')
    BY <1>3 DEF Fits
  <2>2. stack[1].fn \notin Processing
    BY <1>1, <1>2 DEF Processing
  <2>3. w.bufferProcessing => w'.bufferProcessing
    BY <1>3
  <2>4. stack' = c \o Tail(stack) /\ stack # <<>>
    BY <1>1
  <2> QED
    BY <1>2, <1>7, <1>9, <1>10, <2>1, <2>2, <2>3, <2>4, FramedReplaced
<1>12. Positions(stack', w') \subseteq Positions(stack, w)
  <2>1. \A i \in DOMAIN c : c[i].fn \notin Processing
    BY <1>9
  <2>2. stack[1].fn \notin Processing
    BY <1>1, <1>2 DEF Processing
  <2>3. stack' = c \o Tail(stack) /\ stack # <<>> /\ Len(w'.buffered) = Len(w.buffered)
    BY <1>1, <1>3
  <2> QED
    BY <1>2, <1>3, <1>7, <2>1, <2>2, <2>3, PositionsKept
<1>13. Hand(stack) = Top.ids /\ Next1(stack, ops) = ops + 1 /\ Next1(stack', ops) = ops + 1
  BY <1>1, <1>2, <1>4, <1>7 DEF Hand, Next1
<1>14. Hand(stack') = Hand(stack) \/ Hand(stack') = <<>>
  BY <1>4, <1>7, <1>13 DEF Hand
<1>15. Heads'
  BY <1>3, <1>4, <1>7 DEF Heads, Top
<1>16. Line'
  <2>1. Lined(consumed, Hand(stack'), ops + 1)
    BY <1>13, <1>14, NothingInHand DEF Ordered, Line, Lined
  <2>2. ASSUME NEW k \in Positions(stack', w')
        PROVE  Behind(consumed, Hand(stack'), ops + 1, w.buffered, k)
    <3>1. Behind(consumed, Hand(stack), ops + 1, w.buffered, k)
      BY <1>12, <1>13, <2>2 DEF Ordered, Line
    <3> QED
      BY <1>14, <3>1, BehindKept
  <2>3. ~Free(w')
    BY <1>3 DEF Free
  <2> QED
    BY <1>1, <1>3, <1>13, <2>1, <2>2, <2>3 DEF Line, Ordered
<1> QED
  BY <1>1, <1>2, <1>3, <1>11, <1>15, <1>16 DEF Ordered

\* A loop of the stack the step leaves alone is one of the stack before.
LEMMA LoopsPopped ==
    ASSUME NEW s, NEW t, s \in Seq(Range(s)), s # <<>>, t = <<>> \o Tail(s)
    PROVE  \A i \in DOMAIN t : \E q \in DOMAIN s : t[i] = s[q]
<1>1. /\ <<>> \in Seq(Range(<<>>)) /\ Len(<<>>) = 0
  OBVIOUS
<1>2. DOMAIN t = 1 .. 0 + Len(s) - 1 /\ DOMAIN s = 1 .. Len(s) /\ Len(s) \in Nat \ {0}
  BY <1>1, Replaced
<1>3. \A i \in 0 + 1 .. 0 + Len(s) - 1 : t[i] = s[i - 0 + 1]
  BY <1>1, Replaced
<1>4. ASSUME NEW i \in DOMAIN t PROVE \E q \in DOMAIN s : t[i] = s[q]
  <2>1. i \in 0 + 1 .. 0 + Len(s) - 1 /\ i - 0 + 1 \in DOMAIN s
    BY <1>2
  <2> QED
    BY <1>3, <2>1
<1> QED
  BY <1>4

\* A chunk at the end of the buffer, when it comes.
LEMMA BehindAppended ==
    ASSUME NEW C, NEW m \in Nat, NEW b, NEW k, NEW e, Lined(C, <<>>, m), Behind(C, <<>>, m, b, k),
           b \in Seq(Range(b)), e.id = m
    PROVE  Behind(C, <<>>, m + 1, Append(b, e), k)
<1>1. /\ Len(b) \in Nat /\ Len(Append(b, e)) = Len(b) + 1 /\ Append(b, e)[Len(b) + 1] = e
      /\ \A i \in 1 .. Len(b) : Append(b, e)[i] = b[i]
  BY LenProperties, AppendProperties
<1>2. PICK d : d = Append(b, e)
  OBVIOUS
<1>3. k \in 0 .. Len(d)
  BY <1>1, <1>2 DEF Behind
<1>4. ASSUME NEW i \in k + 1 .. Len(d)
      PROVE  /\ d[i].id \in Nat /\ d[i].id < m + 1
             /\ \A j \in i + 1 .. Len(d) : d[i].id < d[j].id
             /\ \A x \in Range(C) \cup Range(<<>>) : x < d[i].id
  <2>1. CASE i = Len(b) + 1
    <3>1. d[i].id = m /\ i + 1 .. Len(d) = {}
      BY <1>1, <1>2, <2>1
    <3>2. \A x \in Range(C) \cup Range(<<>>) : x < m
      BY NothingInHand DEF Lined
    <3> QED
      BY <3>1, <3>2
  <2>2. CASE i \in k + 1 .. Len(b)
    <3>1. d[i] = b[i] /\ b[i].id \in Nat /\ b[i].id < m
      BY <1>1, <1>2, <2>2 DEF Behind
    <3>2. ASSUME NEW j \in i + 1 .. Len(d) PROVE d[i].id < d[j].id
      <4>1. CASE j = Len(b) + 1
        BY <1>1, <1>2, <3>1, <4>1
      <4>2. CASE j \in i + 1 .. Len(b)
        <5>1. d[j] = b[j] /\ b[i].id < b[j].id
          BY <1>1, <1>2, <2>2, <4>2 DEF Behind
        <5> QED
          BY <3>1, <5>1
      <4>3. j = Len(b) + 1 \/ j \in i + 1 .. Len(b)
        BY <1>1, <1>2, <2>2
      <4> QED
        BY <4>1, <4>2, <4>3
    <3>3. \A x \in Range(C) \cup Range(<<>>) : x < b[i].id
      BY <2>2 DEF Behind
    <3> QED
      BY <3>1, <3>2, <3>3
  <2> QED
    BY <1>1, <1>2, <2>1, <2>2 DEF Behind
<1> QED
  BY <1>2, <1>3, <1>4 DEF Behind

LEMMA AppendOfRange == ASSUME NEW b, NEW e, b \in Seq(Range(b)) PROVE Append(b, e) \in Seq(Range(Append(b, e)))
<1>1. b \in Seq(Range(b) \cup {e})
  BY SeqMonotonic
<1>2. Append(b, e) \in Seq(Range(b) \cup {e})
  BY <1>1
<1> QED
  BY <1>2, OfItsRange

LEMMA LinedOne ==
    ASSUME NEW C, NEW m \in Nat, Lined(C, <<>>, m)
    PROVE  Lined(C, <<m>>, m + 1)
<1>1. <<m>> \in Seq(Nat) /\ Range(<<m>>) = {m} /\ Increasing(<<m>>)
  BY DEF Range, Increasing
<1>2. \A x \in Range(C) : x \in Nat /\ x < m
  BY DEF Lined, Range
<1> QED
  BY <1>1, <1>2 DEF Lined

LEMMA WriteOrder == ASSUME Inv, Ordered, Write PROVE Ordered'
<1> DEFINE entry == [id |-> Top.ids[1], cb |-> Top.cb]
           taken == [w EXCEPT !.pendingcb = @ + 1, !.length = @ + 1,
                              !.needDrain = @ \/ ~(w.length + 1 < HighWaterMark)]
           kept  == [taken EXCEPT !.buffered = Append(@, entry)]
           sent  == [taken EXCEPT !.writelen = 1, !.writecb = Top.cb,
                                  !.writing = TRUE, !.sync = TRUE]
           x     == [Do("sinkWrite") EXCEPT !.ids = Top.ids]
           c     == <<x, Do("syncFalse")>>
<1>1. stack # <<>> /\ Top.fn = "write" /\ consumed' = consumed /\ ops' = ops
  BY DEF Write, Runs, log
<1>2. /\ stack \in Seq(Range(stack)) /\ Top = stack[1] /\ Top = Head(stack) /\ 1 \in DOMAIN stack
      /\ Framed(stack, w) /\ More(w) /\ (\A i \in DOMAIN ticks : Common(ticks[i]))
      /\ Heads /\ Line
  BY <1>1, TopIsFirst DEF Inv, Stacked, Ordered, Top
<1>3. Top.ids = <<ops>> /\ ops \in Nat /\ Hand(stack) = <<>> /\ Next1(stack, ops) = ops
  BY <1>1, <1>2 DEF Heads, Line, Hand, Next1, Top
<1>4. Top.fn \notin Processing \cup {"clearBuffer"}
  BY <1>1 DEF Processing
<1>5. CASE /\ w' = w
           /\ \E er : /\ ticks' = Append(ticks, Callback(Top.cb, er))
                      /\ stack' = <<Err("errorOrDestroySync", er)>> \o Tail(stack)
  <2>1. PICK er : /\ ticks' = Append(ticks, Callback(Top.cb, er))
                  /\ stack' = <<Err("errorOrDestroySync", er)>> \o Tail(stack)
    BY <1>5
  <2>2. Common(Callback(Top.cb, er))
    BY PieceFields DEF Common, Foremost, Processing, Chunkless
  <2>3. \A i \in DOMAIN ticks' : Common(ticks'[i])
    BY <2>1, <2>2, LaterCommon
  <2>4. Same /\ InSync
    BY <1>1, <1>2, <1>5, <2>3 DEF Same, Untouched, InSync
  <2>5. Good(Err("errorOrDestroySync", er))
    BY <1>1, <1>5, PieceFields DEF Good, Common, Fits, Inside, Quick, Foremost, Processing, Chunkless
  <2> QED
    BY <1>1, <1>4, <2>1, <2>4, <2>5, GoodShort, SteadyStep DEF Steady
<1>6. CASE MustBuffer /\ w' = kept /\ stack' = <<>> \o Tail(stack) /\ ticks' = ticks
  <2>1. /\ w'.buffered = Append(w.buffered, entry) /\ w'.bufferedIndex = w.bufferedIndex
        /\ w'.bufferProcessing = w.bufferProcessing /\ w'.sync = w.sync /\ w'.errored = w.errored
        /\ w'.writing = w.writing /\ w'.corked = w.corked /\ w'.destroyed = w.destroyed
        /\ w'.constructed = w.constructed /\ w'.stream = w.stream /\ DOMAIN w' = DOMAIN w
    BY <1>2, <1>6 DEF More
  <2>2. entry.id = ops
    BY <1>3
  <2> HIDE DEF entry
  <2>3. More(w')
    BY <1>2, <2>1, AppendOfRange DEF More
  <2>4. \A f : Fits(f, w) => Fits(f, w')
    BY <2>1 DEF Fits
  <2>5. <<>> \in Seq(Range(<<>>)) /\ DOMAIN <<>> = {}
    OBVIOUS
  <2>6. Framed(stack', w')
    <3>1. stack[1].fn \notin Processing
      BY <1>1, <1>2, <1>4
    <3>2. w.bufferProcessing => w'.bufferProcessing
      BY <2>1
    <3>3. Framed(<<>>, w') /\ stack' = <<>> \o Tail(stack) /\ stack # <<>>
      BY <1>1, <1>6, FramedEmpty
    <3> QED
      BY <1>2, <2>4, <2>5, <3>1, <3>2, <3>3, FramedReplaced
  <2>7. /\ Hand(stack') = <<>> /\ Next1(stack', ops) = ops + 1
        /\ stack' # <<>> => Head(stack').fn \notin Foremost
    BY <1>1, <1>6, Popped
  <2>8. Heads'
    BY <2>7 DEF Heads, Top, Foremost
  <2>9. Positions(stack', w') \subseteq Positions(stack, w) \cup {Len(w'.buffered)}
    <3>1. \A i \in DOMAIN stack' : \E q \in DOMAIN stack : stack'[i] = stack[q]
      BY <1>1, <1>2, <1>6, LoopsPopped
    <3> QED
      BY <2>1, <3>1 DEF Positions
  <2>10. Len(w'.buffered) \in Nat
    BY <2>3, LenProperties DEF More
  <2>11. Lined(consumed, <<>>, ops) /\ Lined(consumed, <<>>, ops + 1)
    <3>1. Lined(consumed, <<>>, ops) /\ ops + 1 \in Nat /\ ops <= ops + 1
      BY <1>2, <1>3 DEF Line
    <3> QED
      BY <3>1, LinedLess
  <2>12. ASSUME NEW k \in Positions(stack', w') PROVE Behind(consumed, <<>>, ops + 1, w'.buffered, k)
    <3>1. CASE k = Len(w'.buffered)
      BY <2>10, <3>1 DEF Behind
    <3>2. CASE k \in Positions(stack, w)
      <4>1. Behind(consumed, <<>>, ops, w.buffered, k)
        BY <1>2, <1>3, <3>2 DEF Line
      <4> QED
        BY <1>2, <1>3, <2>1, <2>2, <2>11, <4>1, BehindAppended DEF More
    <3> QED
      BY <2>9, <3>1, <3>2
  <2>13. ~Free(w')
    BY <1>2, <1>6, <2>1 DEF Free, MustBuffer, More
  <2> QED
    BY <1>1, <1>2, <1>3, <1>6, <2>3, <2>6, <2>7, <2>8, <2>11, <2>12, <2>13 DEF Ordered, Line
<1>7. CASE ~w.destroyed /\ ~MustBuffer /\ w' = sent /\ stack' = c \o Tail(stack) /\ ticks' = ticks
  <2>1. /\ w'.buffered = w.buffered /\ w'.bufferedIndex = w.bufferedIndex
        /\ w'.bufferProcessing = w.bufferProcessing /\ w'.writing /\ More(w')
    BY <1>2, <1>7 DEF More
  <2>2. Free(w) /\ ~Fits(Top, w)
    BY <1>1, <1>2, <1>7 DEF Free, MustBuffer, More, Fits, Quick
  <2>3. \A i \in DOMAIN stack : i > 1 => stack[i].fn \notin Processing
    BY <1>1, <2>2, NoneBelow
  <2>4. x.fn = "sinkWrite" /\ x.ids = <<ops>>
    BY <1>3 DEF Do
  <2> HIDE DEF x
  <2>5. Do("syncFalse").fn = "syncFalse"
    BY PieceFields
  <2>6. DOMAIN c = 1 .. 2 /\ c[1] = x /\ c[2] = Do("syncFalse") /\ Len(c) = 2
    BY TwoPieces
  <2>7. c \in Seq(Range(c)) /\ stack' # <<>> /\ Head(stack') = x
    <3>1. (c = <<x>> \/ \E b : c = <<x, b>>) /\ stack' = c \o Tail(stack)
      BY <1>7
    <3> HIDE DEF c
    <3> QED
      BY <1>1, <1>2, <3>1, ShortStacks, ZenonT(40)
  <2> HIDE DEF c
  <2>8. \A i \in DOMAIN c : i = 1 \/ i = 2
    BY <2>6
  <2>9. Framed(c, w')
    <3>1. FramedAt(c, w', 1)
      BY <2>4, <2>6 DEF FramedAt, Processing, Chunkless
    <3>2. FramedAt(c, w', 2)
      BY <2>5, <2>6 DEF FramedAt, Processing, Chunkless, Foremost
    <3> QED
      BY <2>8, <3>1, <3>2 DEF Framed
  <2>10. Framed(stack', w')
    <3>1. stack' = c \o Tail(stack) /\ stack # <<>>
      BY <1>1, <1>7
    <3> QED
      BY <1>2, <2>3, <2>7, <2>9, <3>1, FramedFresh
  <2>11. Positions(stack', w') \subseteq Positions(stack, w)
    <3>1. \A i \in DOMAIN c : c[i].fn \notin Processing
      BY <2>4, <2>5, <2>6, <2>8 DEF Processing
    <3>2. stack[1].fn \notin Processing
      BY <1>2, <1>4
    <3>3. stack' = c \o Tail(stack) /\ stack # <<>> /\ Len(w'.buffered) = Len(w.buffered)
      BY <1>1, <1>7, <2>1
    <3> QED
      BY <1>2, <2>1, <2>7, <3>1, <3>2, <3>3, PositionsKept
  <2>12. Hand(stack') = <<ops>> /\ Next1(stack', ops) = ops + 1
    BY <2>4, <2>7 DEF Hand, Next1
  <2>13. Heads'
    BY <2>1, <2>4, <2>7 DEF Heads, Top
  <2>14. Lined(consumed, <<ops>>, ops + 1)
    BY <1>2, <1>3, LinedOne DEF Line
  <2>15. ASSUME NEW k \in Positions(stack', w') PROVE Behind(consumed, <<ops>>, ops + 1, w.buffered, k)
    <3>1. k \in 0 .. Len(w.buffered) /\ (k < Len(w.buffered) => Busy(stack))
      BY <1>2, <1>3, <2>2, <2>11, <2>15 DEF Line, Behind
    <3>2. ~Busy(stack)
      BY <1>1, <1>2, <1>4, <2>3, LenProperties DEF Busy
    <3>3. Len(w.buffered) \in Nat
      BY <1>2, LenProperties DEF More
    <3>4. k = Len(w.buffered)
      BY <3>1, <3>2, <3>3
    <3> QED
      BY <3>3, <3>4 DEF Behind
  <2>16. ~Free(w')
    BY <2>1 DEF Free
  <2> QED
    BY <1>1, <1>2, <1>3, <1>7, <2>1, <2>10, <2>12, <2>13, <2>14, <2>15, <2>16 DEF Ordered, Line
<1> QED
  BY <1>5, <1>6, <1>7 DEF Write, Runs, Then, Later, Set

LEMMA HeadOfPut ==
    ASSUME NEW s, s \in Seq(Range(s)), s # <<>>, NEW c, c \in Seq(Range(c)), 1 \in DOMAIN c
    PROVE  c \o Tail(s) # <<>> /\ Head(c \o Tail(s)) = c[1]
<1>1. PICK t : t = c \o Tail(s)
  OBVIOUS
<1>2. /\ t \in Seq(Range(t)) /\ DOMAIN t = 1 .. Len(c) + Len(s) - 1 /\ DOMAIN c = 1 .. Len(c)
      /\ Len(c) \in Nat /\ Len(s) \in Nat \ {0}
  BY <1>1, Replaced
<1>3. \A i \in 1 .. Len(c) : t[i] = c[i]
  BY <1>1, Replaced
<1>4. 1 \in DOMAIN t /\ t[1] = c[1]
  BY <1>2, <1>3
<1>5. t # <<>>
  BY <1>4
<1> QED
  BY <1>1, <1>2, <1>4, <1>5, HeadIsFirst

\* A loop at position p comes on top, with the write it makes above it.
LEMMA LoopStep ==
    ASSUME Inv, Ordered, stack # <<>>, \A i \in DOMAIN stack : i > 1 => stack[i].fn \notin Processing,
           More(w'), w'.bufferProcessing, NEW a, NEW c, NEW p, NEW H,
           \/ /\ c = <<a>> /\ a.fn = "clearBufferLoop" /\ a.n = p /\ p < Len(w'.buffered) /\ H = <<>>
           \/ /\ a.fn = "doWrite" /\ a.ids = H
              /\ \E y : /\ c = <<a, y>>
                        /\ \/ y.fn = "clearBufferTest" /\ y.n = p
                           \/ y.fn = "clearBufferEnd" /\ p = Len(w'.buffered),
           stack' = c \o Tail(stack), consumed' = consumed, ops' = ops, ticks' = ticks,
           Lined(consumed, H, ops + 1), Behind(consumed, H, ops + 1, w'.buffered, p)
    PROVE  Ordered'
<1>1. stack \in Seq(Range(stack)) /\ Framed(stack, w)
  BY DEF Inv, Stacked, Ordered
<1>2. c = <<a>> \/ \E y : c = <<a, y>>
  OBVIOUS
<1>3. c \in Seq(Range(c)) /\ 1 \in DOMAIN c /\ c[1] = a /\ stack' # <<>> /\ Head(stack') = a
  <2>2. c \in Seq(Range(c)) /\ 1 \in DOMAIN c /\ c[1] = a
    BY <1>1, <1>2, ShortStacks
  <2>3. c \o Tail(stack) # <<>> /\ Head(c \o Tail(stack)) = a
    BY <1>1, <2>2, HeadOfPut
  <2> QED
    BY <2>2, <2>3
<1>4. /\ Framed(c, w') /\ \E i \in DOMAIN c : c[i].fn \in Processing
      /\ \A i \in DOMAIN c : c[i].fn \in Processing =>
            /\ c[i].fn \in {"clearBufferLoop", "clearBufferTest"} => c[i].n = p
            /\ c[i].fn = "clearBufferEnd" => p = Len(w'.buffered)
  <2>1. CASE c = <<a>> /\ a.fn = "clearBufferLoop" /\ a.n = p
    <3>1. DOMAIN c = {1}
      BY <2>1
    <3>2. \A j \in 1 .. 1 - 1 : FALSE
      OBVIOUS
    <3> QED
      BY <1>3, <2>1, <3>1, <3>2 DEF Framed, FramedAt, Processing, Chunkless
  <2>2. CASE \E y : /\ c = <<a, y>> /\ a.fn = "doWrite"
                    /\ \/ y.fn = "clearBufferTest" /\ y.n = p
                       \/ y.fn = "clearBufferEnd" /\ p = Len(w'.buffered)
    <3>1. PICK y : /\ c = <<a, y>> /\ a.fn = "doWrite"
                   /\ \/ y.fn = "clearBufferTest" /\ y.n = p
                      \/ y.fn = "clearBufferEnd" /\ p = Len(w'.buffered)
      BY <2>2
    <3>2. DOMAIN c = 1 .. 2 /\ c[1] = a /\ c[2] = y
      BY <3>1, TwoPieces
    <3>3. \A i \in DOMAIN c : i = 1 \/ i = 2
      BY <3>2
    <3>4. c[1].fn \notin Processing /\ c[2].fn \in Processing /\ 2 \in DOMAIN c
      BY <3>1, <3>2 DEF Processing
    <3>5. FramedAt(c, w', 1)
      BY <3>1, <3>2 DEF FramedAt, Processing, Chunkless
    <3>6. FramedAt(c, w', 2)
      <4>1. Fits(c[1], w')
        BY <3>1, <3>2 DEF Fits, Inside, Quick
      <4>2. \A j \in DOMAIN c : c[j].fn \in Processing => j = 2
        BY <3>3, <3>4
      <4>3. \A j \in 1 .. 2 - 1 : j = 1 /\ j = 2 - 1
        OBVIOUS
      <4> QED
        BY <3>1, <3>2, <4>1, <4>2, <4>3 DEF FramedAt, Foremost, Chunkless
    <3>7. Framed(c, w')
      BY <3>3, <3>5, <3>6 DEF Framed
    <3> QED
      BY <3>1, <3>2, <3>3, <3>4, <3>7
  <2> QED
    BY <2>1, <2>2
<1>5. Framed(stack', w')
  BY <1>1, <1>3, <1>4, FramedFresh
<1>6. \A i \in DOMAIN stack' : stack'[i].fn \in Processing => i \in DOMAIN c /\ stack'[i] = c[i]
  BY <1>1, <1>3, LoopsFresh
<1>7. Positions(stack', w') \subseteq {p}
  <2>1. ASSUME NEW i \in DOMAIN stack', stack'[i].fn \in {"clearBufferLoop", "clearBufferTest"}
        PROVE  stack'[i].n = p
    BY <1>4, <1>6, <2>1 DEF Processing
  <2>2. ASSUME NEW i \in DOMAIN stack', stack'[i].fn = "clearBufferEnd"
        PROVE  p = Len(w'.buffered)
    BY <1>4, <1>6, <2>2 DEF Processing
  <2> QED
    BY <2>1, <2>2 DEF Positions
<1>8. Busy(stack')
  <2>1. PICK i \in DOMAIN c : c[i].fn \in Processing
    BY <1>4
  <2>2. /\ DOMAIN stack' = 1 .. Len(c) + Len(stack) - 1 /\ DOMAIN c = 1 .. Len(c)
        /\ Len(c) \in Nat /\ Len(stack) \in Nat \ {0}
    BY <1>1, <1>3, Replaced
  <2>3. \A j \in 1 .. Len(c) : stack'[j] = c[j]
    BY <1>1, <1>3, Replaced
  <2>4. i \in DOMAIN stack' /\ stack'[i] = c[i]
    BY <2>1, <2>2, <2>3
  <2> QED
    BY <2>1, <2>4 DEF Busy
<1>9. Hand(stack') = H /\ Next1(stack', ops) = ops + 1 /\ Heads'
  BY <1>3 DEF Hand, Next1, Heads, Top
<1> QED
  BY <1>5, <1>7, <1>8, <1>9 DEF Ordered, Line

\* What is left of the buffer, and what of it reaches _writev.
LEMMA Left ==
    ASSUME NEW b, NEW k \in 0 .. Len(b), b \in Seq(Range(b))
    PROVE  LET q == SubSeq(b, k + 1, Len(b)) IN
           /\ q \in Seq(Range(q)) /\ Len(q) = Len(b) - k /\ DOMAIN q = 1 .. Len(b) - k
           /\ Len(b) \in Nat /\ k \in Nat
           /\ \A i \in 1 .. Len(b) - k : q[i] = b[k + i]
<1>1. Len(b) \in Nat /\ k \in Nat /\ DOMAIN b = 1 .. Len(b)
  BY LenProperties
<1>2. \A i \in k + 1 .. Len(b) : b[i] \in Range(b)
  BY <1>1 DEF Range
<1>3. PICK q : q = SubSeq(b, k + 1, Len(b))
  OBVIOUS
<1>4. /\ q \in Seq(Range(b))
      /\ Len(q) = IF k + 1 <= Len(b) THEN Len(b) - (k + 1) + 1 ELSE 0
      /\ \A i \in 1 .. Len(b) - (k + 1) + 1 : q[i] = b[(k + 1) + i - 1]
  BY <1>1, <1>2, <1>3, SubSeqProperties
<1>5. Len(q) = Len(b) - k /\ q \in Seq(Range(q)) /\ DOMAIN q = 1 .. Len(q)
  <2>1. q \in Seq(Range(q))
    BY <1>4, OfItsRange
  <2>2. Len(q) = Len(b) - k
    <3>1. CASE k + 1 <= Len(b)
      BY <1>1, <1>4, <3>1
    <3>2. CASE ~(k + 1 <= Len(b))
      <4>1. k = Len(b)
        <5>1. \A n \in Nat : \A j \in 0 .. n : ~(j + 1 <= n) => j = n
          OBVIOUS
        <5> QED
          BY <1>1, <3>2, <5>1
      <4> QED
        BY <1>1, <1>4, <3>2, <4>1
    <3> QED
      BY <3>1, <3>2
  <2>3. DOMAIN q = 1 .. Len(q)
    BY <2>1, LenProperties
  <2> QED
    BY <2>1, <2>2, <2>3
<1>6. ASSUME NEW i \in 1 .. Len(b) - k PROVE q[i] = b[k + i]
  <2>1. i \in 1 .. Len(b) - (k + 1) + 1 /\ (k + 1) + i - 1 = k + i
    BY <1>1
  <2> QED
    BY <1>4, <2>1
<1> QED
  BY <1>1, <1>3, <1>5, <1>6

LEMMA AllInHand ==
    ASSUME NEW C, NEW m, NEW b, NEW k, b \in Seq(Range(b)), Lined(C, <<>>, m), Behind(C, <<>>, m, b, k)
    PROVE  Lined(C, Ids(SubSeq(b, k + 1, Len(b))), m)
<1>1. k \in 0 .. Len(b)
  BY DEF Behind
<1>2. PICK q : q = SubSeq(b, k + 1, Len(b))
  OBVIOUS
<1>3. /\ q \in Seq(Range(q)) /\ Len(q) = Len(b) - k /\ DOMAIN q = 1 .. Len(b) - k
      /\ Len(b) \in Nat /\ k \in Nat
  BY <1>1, <1>2, Left
<1>4. \A i \in 1 .. Len(b) - k : q[i] = b[k + i]
  BY <1>1, <1>2, Left
<1>5. PICK H : H = Ids(q)
  OBVIOUS
<1>6. DOMAIN H = 1 .. Len(b) - k /\ \A i \in 1 .. Len(b) - k : H[i] = b[k + i].id
  BY <1>3, <1>4, <1>5 DEF Ids
<1>7. \A i \in 1 .. Len(b) - k : k + i \in k + 1 .. Len(b)
  BY <1>3
<1>8. \A i \in 1 .. Len(b) - k : H[i] \in Nat /\ H[i] < m /\ \A x \in Range(C) : x < H[i]
  BY <1>6, <1>7 DEF Behind
<1>9. H \in Seq(Nat)
  <2>1. H = [i \in 1 .. Len(b) - k |-> H[i]]
    BY <1>3, <1>5, <1>6 DEF Ids
  <2>2. H \in [1 .. Len(b) - k -> Nat]
    BY <1>8, <2>1
  <2>3. Len(b) - k \in Nat
    BY <1>1, <1>3
  <2>4. Seq(Nat) = UNION {[1 .. n -> Nat] : n \in Nat}
    BY SeqDef
  <2> QED
    BY <2>2, <2>3, <2>4
<1>10. Increasing(H)
  <2>1. ASSUME NEW i \in DOMAIN H, NEW j \in DOMAIN H, i < j PROVE H[i] < H[j]
    <3>1. k + i \in k + 1 .. Len(b) /\ k + j \in (k + i) + 1 .. Len(b)
      BY <1>3, <1>6, <2>1
    <3>2. b[k + i].id < b[k + j].id
      BY <3>1 DEF Behind
    <3> QED
      BY <1>6, <2>1, <3>2
  <2> QED
    BY <2>1 DEF Increasing
<1>11. \A y \in Range(H) : y < m /\ \A x \in Range(C) : x < y
  BY <1>6, <1>8 DEF Range
<1> QED
  BY <1>2, <1>5, <1>9, <1>10, <1>11 DEF Lined

LEMMA BehindLeft ==
    ASSUME NEW C, NEW m, NEW b, NEW k, b \in Seq(Range(b)), Behind(C, <<>>, m, b, k)
    PROVE  Behind(C, <<>>, m, SubSeq(b, k + 1, Len(b)), 0)
<1>1. k \in 0 .. Len(b)
  BY DEF Behind
<1>2. PICK q : q = SubSeq(b, k + 1, Len(b))
  OBVIOUS
<1>3. /\ q \in Seq(Range(q)) /\ Len(q) = Len(b) - k
      /\ Len(b) \in Nat /\ k \in Nat
  BY <1>1, <1>2, Left
<1>4. \A i \in 1 .. Len(b) - k : q[i] = b[k + i]
  BY <1>1, <1>2, Left
<1>5. 0 \in 0 .. Len(q)
  BY <1>1, <1>3
<1>6. ASSUME NEW i \in 0 + 1 .. Len(q)
      PROVE  /\ q[i].id \in Nat /\ q[i].id < m
             /\ \A j \in i + 1 .. Len(q) : q[i].id < q[j].id
             /\ \A x \in Range(C) \cup Range(<<>>) : x < q[i].id
  <2>1. PICK e : e = k + i
    OBVIOUS
  <2>2. e \in k + 1 .. Len(b) /\ q[i] = b[e]
    BY <1>3, <1>4, <2>1
  <2>3. b[e].id \in Nat /\ b[e].id < m
    BY <2>2 DEF Behind
  <2>4. \A x \in Range(C) \cup Range(<<>>) : x < b[e].id
    BY <2>2 DEF Behind
  <2>5. ASSUME NEW j \in i + 1 .. Len(q) PROVE b[e].id < q[j].id
    <3>1. PICK f : f = k + j
      OBVIOUS
    <3>2. f \in e + 1 .. Len(b) /\ q[j] = b[f]
      BY <1>3, <1>4, <2>1, <2>5, <3>1
    <3> QED
      BY <2>2, <3>2 DEF Behind
  <2> QED
    BY <2>2, <2>3, <2>4, <2>5
<1> QED
  BY <1>2, <1>5, <1>6 DEF Behind

\* Where the loops of the stack are, and where the next one starts.
LEMMA Place ==
    ASSUME Inv, Ordered, NEW k \in Positions(stack, w), stack # <<>>, Top.fn \notin {"write", "doWrite", "sinkWrite"}
    PROVE  /\ ops \in Nat /\ ops + 1 \in Nat /\ Hand(stack) = <<>> /\ Next1(stack, ops) = ops + 1
           /\ w.buffered \in Seq(Range(w.buffered)) /\ Len(w.buffered) \in Nat
           /\ k \in 0 .. Len(w.buffered) /\ k \in Nat
           /\ Lined(consumed, <<>>, ops + 1) /\ Behind(consumed, <<>>, ops + 1, w.buffered, k)
<1>1. Hand(stack) = <<>> /\ Next1(stack, ops) = ops + 1
  BY DEF Hand, Next1, Top
<1>2. w.buffered \in Seq(Range(w.buffered)) /\ Len(w.buffered) \in Nat
  BY LenProperties DEF Ordered, More
<1>3. Lined(consumed, <<>>, ops + 1) /\ Behind(consumed, <<>>, ops + 1, w.buffered, k) /\ ops \in Nat
  BY <1>1 DEF Ordered, Line
<1>4. k \in 0 .. Len(w.buffered)
  BY <1>3 DEF Behind
<1> QED
  BY <1>1, <1>2, <1>3, <1>4

LEMMA ClearBufferOrder == ASSUME Inv, Ordered, ClearBuffer PROVE Ordered'
<1> USE DEF Runs, Then, Set, Continue, Quiet, client, log
<1> DEFINE gives == \/ w.corked > 0 \/ w.bufferProcessing \/ w.destroyed \/ ~w.constructed
                    \/ Waiting(w) = <<>>
           many == w.stream.writev /\ Len(Waiting(w)) > 1
           x == [Do("doWrite") EXCEPT !.n = w.length, !.ids = Ids(Waiting(w)), !.cb = Cbs(Waiting(w))]
           y == [Do("clearBufferLoop") EXCEPT !.n = w.bufferedIndex]
<1>1. stack # <<>> /\ Top.fn = "clearBuffer" /\ consumed' = consumed /\ ops' = ops /\ ticks' = ticks
  BY DEF ClearBuffer
<1>2. /\ stack \in Seq(Range(stack)) /\ Top = stack[1] /\ 1 \in DOMAIN stack
      /\ Framed(stack, w) /\ More(w) /\ (\A i \in DOMAIN ticks : Common(ticks[i]))
  BY <1>1, TopIsFirst DEF Inv, Stacked, Ordered
<1>3. CASE gives
  <2>1. w' = w /\ stack' = <<>> \o Tail(stack)
    BY <1>3 DEF ClearBuffer
  <2>2. Untouched
    BY <1>1, <1>2, <2>1 DEF Untouched
  <2>3. <<>> \in Seq(Range(<<>>)) /\ DOMAIN <<>> = {} /\ stack[1].fn \notin Processing
    BY <1>1, <1>2 DEF Processing
  <2>4. Framed(stack', w')
    BY <1>1, <1>2, <2>1, <2>3, FramedEmpty, FramedReplaced
  <2>5. Positions(stack', w') \subseteq Positions(stack, w)
    BY <1>1, <1>2, <2>1, <2>3, PositionsKept
  <2>6. /\ Hand(stack') = <<>> /\ Next1(stack', ops) = ops + 1
        /\ stack' # <<>> => Head(stack').fn \notin Foremost
    BY <1>1, <2>1, Popped
  <2>7. ASSUME NEW k \in Positions(stack', w'), k < Len(w.buffered), Free(w'), ~Busy(stack')
        PROVE  FALSE
    <3>1. ~w.bufferProcessing /\ k = w.bufferedIndex
      BY <2>1, <2>7 DEF Positions, Busy, Processing
    <3>2. Waiting(w) = <<>>
      BY <1>2, <1>3, <2>1, <2>7, <3>1 DEF Free, More
    <3>3. k \in 0 .. Len(w.buffered) /\ w.buffered \in Seq(Range(w.buffered)) /\ Len(w.buffered) \in Nat /\ k \in Nat
      BY <1>1, <2>5, <2>7, Place
    <3>4. Len(Waiting(w)) = Len(w.buffered) - k
      BY <3>1, <3>3, Left DEF Waiting
    <3>5. Len(Waiting(w)) = 0
      BY <3>2
    <3> QED
      BY <2>7, <3>3, <3>4, <3>5
  <2> QED
    BY <1>1, <2>2, <2>4, <2>5, <2>6, <2>7, UntouchedStep
<1>4. ASSUME ~gives
      PROVE  /\ w.bufferedIndex \in Positions(stack, w)
             /\ \A i \in DOMAIN stack : i > 1 => stack[i].fn \notin Processing
  BY <1>1, <1>4, NoneBelow DEF Positions
<1>5. CASE ~gives /\ many
  <2> DEFINE z == Do("clearBufferEnd")
  <2>1. w' = [w EXCEPT !.bufferProcessing = TRUE, !.pendingcb = @ - CallbacksSaved]
        /\ stack' = <<x, z>> \o Tail(stack)
    BY <1>5 DEF ClearBuffer
  <2>2. More(w') /\ w'.bufferProcessing /\ w'.buffered = w.buffered
    BY <1>2, <2>1 DEF More
  <2>3. PICK p : p = Len(w.buffered)
    OBVIOUS
  <2>4. PICK H : H = Ids(Waiting(w))
    OBVIOUS
  <2>5. x.fn = "doWrite" /\ x.ids = H /\ z.fn = "clearBufferEnd"
    BY <2>4 DEF Do
  <2>6. PICK k : k = w.bufferedIndex /\ k \in Positions(stack, w)
    BY <1>4, <1>5
  <2>7. /\ Len(w.buffered) \in Nat /\ w.buffered \in Seq(Range(w.buffered))
        /\ Lined(consumed, <<>>, ops + 1) /\ Behind(consumed, <<>>, ops + 1, w.buffered, k)
    BY <1>1, <2>6, Place
  <2>8. Lined(consumed, H, ops + 1)
    BY <2>4, <2>6, <2>7, AllInHand DEF Waiting
  <2>9. Behind(consumed, H, ops + 1, w'.buffered, p)
    BY <2>2, <2>3, <2>7 DEF Behind
  <2> HIDE DEF x, z
  <2>10. \A i \in DOMAIN stack : i > 1 => stack[i].fn \notin Processing
    BY <1>4, <1>5
  <2>11. PICK c : c = <<x, z>>
    OBVIOUS
  <2>12. /\ x.fn = "doWrite" /\ x.ids = H
         /\ \E e : c = <<x, e>> /\ ((e.fn = "clearBufferTest" /\ e.n = p)
                                   \/ (e.fn = "clearBufferEnd" /\ p = Len(w'.buffered)))
    BY <2>2, <2>3, <2>5, <2>11
  <2> QED
    BY <1>1, <2>1, <2>2, <2>8, <2>9, <2>10, <2>11, <2>12, LoopStep
<1>6. CASE ~gives /\ ~many
  <2>1. w' = [w EXCEPT !.bufferProcessing = TRUE] /\ stack' = <<y>> \o Tail(stack)
    BY <1>6 DEF ClearBuffer
  <2>2. More(w') /\ w'.bufferProcessing /\ w'.buffered = w.buffered
    BY <1>2, <2>1 DEF More
  <2>3. PICK k : k = w.bufferedIndex /\ k \in Positions(stack, w)
    BY <1>4, <1>6
  <2>4. y.fn = "clearBufferLoop" /\ y.n = k
    BY <2>3 DEF Do
  <2>5. /\ Len(w.buffered) \in Nat /\ w.buffered \in Seq(Range(w.buffered))
        /\ k \in Nat /\ k \in 0 .. Len(w.buffered)
        /\ Lined(consumed, <<>>, ops + 1) /\ Behind(consumed, <<>>, ops + 1, w.buffered, k)
    BY <1>1, <2>3, Place
  <2>6. k < Len(w'.buffered)
    <3>1. Waiting(w) # <<>>
      BY <1>6
    <3>2. CASE k = Len(w.buffered)
      <4>1. Waiting(w) = <<>>
        BY <2>3, <2>5, <3>2, SubSeqEmpty DEF Waiting
      <4> QED
        BY <3>1, <4>1
    <3>3. \A n \in Nat : \A j \in 0 .. n : j # n => j < n
      OBVIOUS
    <3> QED
      BY <2>2, <2>5, <3>2, <3>3
  <2> HIDE DEF y
  <2>7. \A i \in DOMAIN stack : i > 1 => stack[i].fn \notin Processing
    BY <1>4, <1>6
  <2>8. PICK c : c = <<y>>
    OBVIOUS
  <2>9. Behind(consumed, <<>>, ops + 1, w'.buffered, k)
    BY <2>2, <2>5
  <2> QED
    BY <1>1, <2>1, <2>2, <2>4, <2>5, <2>6, <2>7, <2>8, <2>9, LoopStep
<1> QED
  BY <1>3, <1>5, <1>6

LEMMA EntryCleared ==
    ASSUME NEW b, NEW p, NEW e, NEW d, b \in Seq(Range(b)), d = [b EXCEPT ![p] = e]
    PROVE  d \in Seq(Range(d)) /\ Len(d) = Len(b) /\ \A j \in DOMAIN b : j # p => d[j] = b[j]
<1>1. Len(b) \in Nat /\ DOMAIN b = 1 .. Len(b)
  BY LenProperties
<1>2. DOMAIN d = DOMAIN b /\ \A j \in DOMAIN b : j # p => d[j] = b[j]
  OBVIOUS
<1>3. d \in [1 .. Len(b) -> Range(d)]
  <2>1. d = [j \in 1 .. Len(b) |-> d[j]]
    BY <1>1
  <2>2. \A j \in 1 .. Len(b) : d[j] \in Range(d)
    BY <1>1, <1>2 DEF Range
  <2> QED
    BY <2>1, <2>2
<1>4. d \in Seq(Range(d))
  <2>1. Seq(Range(d)) = UNION {[1 .. n -> Range(d)] : n \in Nat}
    BY SeqDef
  <2> QED
    BY <1>1, <1>3, <2>1
<1>5. Len(d) = Len(b)
  BY <1>1, <1>2, <1>4, LenProperties
<1> QED
  BY <1>2, <1>4, <1>5

LEMMA ClearBufferLoopOrder == ASSUME Inv, Ordered, ClearBufferLoop PROVE Ordered'
<1> USE DEF Runs, Then, Set, Continue, Quiet, client, log
<1> DEFINE i == Top.n + 1
           first == w.buffered[i]
           x == [Do("doWrite") EXCEPT !.n = 1, !.ids = <<first.id>>, !.cb = first.cb]
           y == [Do("clearBufferTest") EXCEPT !.n = i]
<1>1. stack # <<>> /\ Top.fn = "clearBufferLoop" /\ consumed' = consumed /\ ops' = ops /\ ticks' = ticks
  BY DEF ClearBufferLoop
<1>2. /\ stack \in Seq(Range(stack)) /\ Top = stack[1] /\ 1 \in DOMAIN stack
      /\ Framed(stack, w) /\ More(w) /\ Heads
  BY <1>1, TopIsFirst DEF Inv, Stacked, Ordered
<1>3. w' = [w EXCEPT !.buffered[i] = Null] /\ stack' = <<x, y>> \o Tail(stack)
  BY DEF ClearBufferLoop
<1>4. PICK k : k = Top.n
  OBVIOUS
<1>5. k \in Positions(stack, w) /\ w.bufferProcessing
  BY <1>1, <1>2, <1>4 DEF Positions, Framed, FramedAt, Processing
<1>6. /\ ops \in Nat /\ Len(w.buffered) \in Nat /\ w.buffered \in Seq(Range(w.buffered))
      /\ k \in Nat /\ k \in 0 .. Len(w.buffered)
      /\ Lined(consumed, <<>>, ops + 1) /\ Behind(consumed, <<>>, ops + 1, w.buffered, k)
  BY <1>1, <1>5, Place
<1>7. k < Len(w.buffered) /\ i \in k + 1 .. Len(w.buffered) /\ i = k + 1
  BY <1>1, <1>2, <1>4, <1>6 DEF Heads
<1>8. PICK p : p = i
  OBVIOUS
<1>9. PICK id : id = w.buffered[p].id
  OBVIOUS
<1>10. x.fn = "doWrite" /\ x.ids = <<id>> /\ y.fn = "clearBufferTest" /\ y.n = p
  BY <1>8, <1>9 DEF Do
<1> HIDE DEF x, y
<1>11. PICK b : b = [w.buffered EXCEPT ![p] = Null]
  OBVIOUS
<1>12. w'.buffered = b /\ w'.bufferProcessing
  BY <1>2, <1>3, <1>5, <1>8, <1>11 DEF More
<1>13. b \in Seq(Range(b)) /\ Len(b) = Len(w.buffered)
  <2>1. PICK q : q = w.buffered
    OBVIOUS
  <2>2. PICK e : e = Null
    OBVIOUS
  <2>3. q \in Seq(Range(q)) /\ b = [q EXCEPT ![p] = e]
    BY <1>6, <1>11, <2>1, <2>2
  <2>4. b \in Seq(Range(b))
    BY <2>3, EntryCleared
  <2>5. Len(b) = Len(q)
    BY <2>3, EntryCleared
  <2> QED
    BY <2>1, <2>4, <2>5
<1>14. \A j \in DOMAIN w.buffered : j # p => b[j] = w.buffered[j]
  BY <1>6, <1>11, EntryCleared
<1>15. More(w')
  BY <1>2, <1>3, <1>12, <1>13 DEF More
<1>16. id \in Nat /\ id < ops + 1 /\ (\A z \in Range(consumed) : z < id)
       /\ \A j \in p + 1 .. Len(w.buffered) : id < w.buffered[j].id
  BY <1>6, <1>7, <1>8, <1>9 DEF Behind
<1>17. <<id>> \in Seq(Nat) /\ Range(<<id>>) = {id} /\ Increasing(<<id>>)
  BY <1>16 DEF Range, Increasing
<1>18. Lined(consumed, <<id>>, ops + 1)
  BY <1>6, <1>16, <1>17 DEF Lined
<1>19. Behind(consumed, <<id>>, ops + 1, b, p)
  <2>1. p \in 0 .. Len(b) /\ p = k + 1 /\ p \in Nat
    BY <1>6, <1>7, <1>8, <1>13
  <2>2. DOMAIN w.buffered = 1 .. Len(w.buffered)
    BY <1>6, LenProperties
  <2>3. ASSUME NEW j \in p + 1 .. Len(b)
        PROVE  /\ b[j].id \in Nat /\ b[j].id < ops + 1
               /\ \A h \in j + 1 .. Len(b) : b[j].id < b[h].id
               /\ \A z \in Range(consumed) \cup Range(<<id>>) : z < b[j].id
    <3>1. j \in k + 1 .. Len(w.buffered) /\ j \in DOMAIN w.buffered /\ j # p
      BY <1>6, <1>13, <2>1, <2>2, <2>3
    <3>2. b[j] = w.buffered[j]
      BY <1>14, <3>1
    <3>3. w.buffered[j].id \in Nat /\ w.buffered[j].id < ops + 1
          /\ \A z \in Range(consumed) : z < w.buffered[j].id
      BY <1>6, <3>1 DEF Behind
    <3>4. id < w.buffered[j].id
      BY <1>13, <1>16, <2>3
    <3>5. ASSUME NEW h \in j + 1 .. Len(b) PROVE b[j].id < b[h].id
      <4>1. h \in j + 1 .. Len(w.buffered) /\ h \in DOMAIN w.buffered /\ h # p
        BY <1>6, <1>13, <2>1, <2>2, <2>3, <3>5
      <4>2. w.buffered[j].id < w.buffered[h].id
        BY <1>6, <3>1, <4>1 DEF Behind
      <4> QED
        BY <1>14, <3>2, <4>1, <4>2
    <3> QED
      BY <1>17, <3>2, <3>3, <3>4, <3>5
  <2> QED
    BY <2>1, <2>3 DEF Behind
<1>20. \A j \in DOMAIN stack : j > 1 => stack[j].fn \notin Processing
  BY <1>1, NoneBelow DEF Processing
<1>21. PICK c : c = <<x, y>>
  OBVIOUS
<1>22. PICK a, z : a = x /\ z = y
  OBVIOUS
<1>23. c = <<a, z>> /\ a.fn = "doWrite" /\ a.ids = <<id>> /\ z.fn = "clearBufferTest" /\ z.n = p
  BY <1>10, <1>21, <1>22
<1>24. \E e : c = <<a, e>> /\ ((e.fn = "clearBufferTest" /\ e.n = p)
                              \/ (e.fn = "clearBufferEnd" /\ p = Len(w'.buffered)))
  BY <1>23
<1>25. Behind(consumed, <<id>>, ops + 1, w'.buffered, p)
  BY <1>12, <1>19
<1> HIDE DEF i
<1> QED
  BY <1>1, <1>3, <1>12, <1>15, <1>18, <1>20, <1>21, <1>23, <1>24, <1>25, LoopStep

LEMMA ClearBufferTestOrder == ASSUME Inv, Ordered, ClearBufferTest PROVE Ordered'
<1> USE DEF Runs, Then, Set, Continue, Quiet, client, log
<1>1. stack # <<>> /\ Top.fn = "clearBufferTest" /\ consumed' = consumed /\ ops' = ops /\ ticks' = ticks
  BY DEF ClearBufferTest
<1>2. /\ stack \in Seq(Range(stack)) /\ Top = stack[1] /\ 1 \in DOMAIN stack
      /\ Framed(stack, w) /\ More(w) /\ (\A i \in DOMAIN ticks : Common(ticks[i]))
  BY <1>1, TopIsFirst DEF Inv, Stacked, Ordered
<1>3. PICK k : k = Top.n
  OBVIOUS
<1>4. k \in Positions(stack, w) /\ w.bufferProcessing
  BY <1>1, <1>2, <1>3 DEF Positions, Framed, FramedAt, Processing
<1>5. /\ ops \in Nat /\ ops + 1 \in Nat /\ Len(w.buffered) \in Nat /\ w.buffered \in Seq(Range(w.buffered))
      /\ k \in Nat /\ k \in 0 .. Len(w.buffered)
      /\ Lined(consumed, <<>>, ops + 1) /\ Behind(consumed, <<>>, ops + 1, w.buffered, k)
  BY <1>1, <1>4, Place
<1>6. \A j \in DOMAIN stack : j > 1 => stack[j].fn \notin Processing
  BY <1>1, NoneBelow DEF Processing
<1>7. CASE k < Len(w.buffered) /\ ~w.writing
  <2> DEFINE y == [Do("clearBufferLoop") EXCEPT !.n = Top.n]
  <2>1. w' = w /\ stack' = <<y>> \o Tail(stack)
    BY <1>3, <1>7 DEF ClearBufferTest
  <2>2. y.fn = "clearBufferLoop" /\ y.n = k
    BY <1>3 DEF Do
  <2> HIDE DEF y
  <2>3. PICK c : c = <<y>>
    OBVIOUS
  <2>4. More(w') /\ w'.bufferProcessing /\ k < Len(w'.buffered)
        /\ Behind(consumed, <<>>, ops + 1, w'.buffered, k)
    BY <1>2, <1>4, <1>5, <1>7, <2>1
  <2> QED
    BY <1>1, <1>5, <1>6, <2>1, <2>2, <2>3, <2>4, LoopStep
<1>8. CASE k = Len(w.buffered)
  <2>1. w' = [Reset(w) EXCEPT !.bufferProcessing = FALSE] /\ stack' = <<>> \o Tail(stack)
    BY <1>3, <1>5, <1>8 DEF ClearBufferTest
  <2>2. More(w') /\ w'.buffered = <<>> /\ w'.bufferedIndex = 0
    BY <1>2, <2>1 DEF More, Reset
  <2> QED
    BY <1>1, <1>6, <2>1, <2>2, EmptyStep
<1>9. CASE k < Len(w.buffered) /\ w.writing
  <2> DEFINE left == IF k > SpliceAfter
                     THEN [w EXCEPT !.buffered = SubSeq(@, k + 1, Len(@)), !.bufferedIndex = 0]
                     ELSE [w EXCEPT !.bufferedIndex = k]
  <2>1. w' = [left EXCEPT !.bufferProcessing = FALSE] /\ stack' = <<>> \o Tail(stack)
    BY <1>3, <1>5, <1>9 DEF ClearBufferTest
  <2>2. /\ \/ w'.buffered = w.buffered /\ w'.bufferedIndex = k
           \/ w'.buffered = SubSeq(w.buffered, k + 1, Len(w.buffered)) /\ w'.bufferedIndex = 0
        /\ ~w'.bufferProcessing /\ w'.writing = w.writing /\ w'.corked = w.corked
        /\ w'.constructed = w.constructed /\ w'.stream = w.stream /\ DOMAIN w' = DOMAIN w
    BY <1>2, <2>1 DEF More
  <2>3. SubSeq(w.buffered, k + 1, Len(w.buffered)) \in Seq(Range(SubSeq(w.buffered, k + 1, Len(w.buffered))))
    BY <1>5, Left
  <2>4. More(w')
    <3>1. w'.buffered \in Seq(Range(w'.buffered)) /\ w'.bufferedIndex \in Int
      <4>1. CASE w'.buffered = w.buffered /\ w'.bufferedIndex = k
        BY <1>5, <4>1
      <4>2. PICK q : q = SubSeq(w.buffered, k + 1, Len(w.buffered))
        OBVIOUS
      <4>3. CASE w'.buffered = q /\ w'.bufferedIndex = 0
        <5>1. q \in Seq(Range(q))
          BY <2>3, <4>2
        <5> QED
          BY <4>3, <5>1
      <4> QED
        BY <2>2, <4>1, <4>2, <4>3
    <3>2. w'.corked \in Nat /\ w'.constructed /\ ~w'.stream.construct
      BY <1>2, <2>2 DEF More
    <3> QED
      BY <1>2, <2>2, <3>1, <3>2 DEF More
  <2>5. Behind(consumed, <<>>, ops + 1, w'.buffered, w'.bufferedIndex)
    BY <1>5, <2>2, BehindLeft
  <2>6. <<>> \in Seq(Range(<<>>))
    OBVIOUS
  <2>7. Framed(stack', w')
    BY <1>1, <1>2, <1>6, <2>1, <2>6, FramedEmpty, FramedFresh
  <2>8. \A i \in DOMAIN stack' : stack'[i].fn \notin Processing
    BY <1>1, <1>2, <1>6, <2>1, <2>6, LoopsFresh
  <2>9. Positions(stack', w') \subseteq {w'.bufferedIndex}
    BY <2>8 DEF Positions, Processing
  <2>10. /\ Hand(stack') = <<>> /\ Next1(stack', ops) = ops + 1
         /\ stack' # <<>> => Head(stack').fn \notin Foremost
    BY <1>1, <2>1, Popped
  <2>11. Heads'
    BY <2>10 DEF Heads, Top, Foremost
  <2>12. ~Free(w')
    BY <1>9, <2>2 DEF Free
  <2>13. Line'
    BY <1>1, <1>5, <2>5, <2>9, <2>10, <2>12 DEF Line
  <2> QED
    BY <1>1, <1>2, <2>4, <2>7, <2>11, <2>13 DEF Ordered
<1>10. k < Len(w.buffered) \/ k = Len(w.buffered)
  <2>1. \A n \in Nat : \A j \in 0 .. n : j < n \/ j = n
    OBVIOUS
  <2> QED
    BY <1>5, <2>1
<1> QED
  BY <1>7, <1>8, <1>9, <1>10

\* The chunks in hand reach the sink.
LEMMA Taken ==
    ASSUME NEW C, NEW H, NEW m, Lined(C, H, m)
    PROVE  Lined(C \o H, <<>>, m) /\ Range(C \o H) = Range(C) \cup Range(H)
<1>1. C \in Seq(Nat) /\ H \in Seq(Nat)
  BY DEF Lined
<1>2. PICK t : t = C \o H
  OBVIOUS
<1>3. /\ t \in Seq(Nat) /\ Len(t) = Len(C) + Len(H)
      /\ \A i \in 1 .. Len(C) + Len(H) : t[i] = IF i <= Len(C) THEN C[i] ELSE H[i - Len(C)]
  BY <1>1, <1>2, ConcatProperties
<1>4. /\ Len(C) \in Nat /\ DOMAIN C = 1 .. Len(C) /\ Len(H) \in Nat /\ DOMAIN H = 1 .. Len(H)
      /\ DOMAIN t = 1 .. Len(C) + Len(H)
  BY <1>1, <1>3, LenProperties
<1>5. \A i \in DOMAIN C : i \in DOMAIN t /\ t[i] = C[i]
  BY <1>3, <1>4
<1>6. \A i \in DOMAIN H : Len(C) + i \in DOMAIN t /\ t[Len(C) + i] = H[i]
  <2>1. ASSUME NEW i \in DOMAIN H PROVE Len(C) + i \in DOMAIN t /\ t[Len(C) + i] = H[i]
    <3>1. Len(C) + i \in 1 .. Len(C) + Len(H) /\ ~(Len(C) + i <= Len(C)) /\ (Len(C) + i) - Len(C) = i
      BY <1>4
    <3> QED
      BY <1>3, <1>4, <3>1
  <2> QED
    BY <2>1
<1>7. \A i \in DOMAIN t : \/ i \in DOMAIN C /\ t[i] = C[i]
                          \/ i > Len(C) /\ i - Len(C) \in DOMAIN H /\ t[i] = H[i - Len(C)]
  BY <1>3, <1>4
<1>8. Range(t) = Range(C) \cup Range(H)
  <2>1. Range(t) \subseteq Range(C) \cup Range(H)
    BY <1>7 DEF Range
  <2>2. Range(C) \subseteq Range(t)
    BY <1>5 DEF Range
  <2>3. Range(H) \subseteq Range(t)
    BY <1>6 DEF Range
  <2> QED
    BY <2>1, <2>2, <2>3
<1>9. Increasing(t)
  <2>1. ASSUME NEW i \in DOMAIN t, NEW j \in DOMAIN t, i < j PROVE t[i] < t[j]
    <3>1. CASE i \in DOMAIN C /\ t[i] = C[i] /\ j \in DOMAIN C /\ t[j] = C[j]
      BY <2>1, <3>1 DEF Lined, Increasing
    <3>2. CASE /\ i \in DOMAIN C /\ t[i] = C[i]
               /\ j - Len(C) \in DOMAIN H /\ t[j] = H[j - Len(C)]
      BY <3>2 DEF Lined, Range
    <3>3. CASE /\ i - Len(C) \in DOMAIN H /\ t[i] = H[i - Len(C)]
               /\ j - Len(C) \in DOMAIN H /\ t[j] = H[j - Len(C)]
      <4>1. i - Len(C) < j - Len(C)
        BY <1>4, <2>1
      <4> QED
        BY <3>3, <4>1 DEF Lined, Increasing
    <3>4. ~(i > Len(C) /\ j \in DOMAIN C)
      BY <1>4, <2>1
    <3> QED
      BY <1>7, <3>1, <3>2, <3>3, <3>4
  <2> QED
    BY <2>1 DEF Increasing
<1>10. \A x \in Range(t) : x < m
  BY <1>8 DEF Lined
<1>11. Lined(t, <<>>, m)
  BY <1>3, <1>9, <1>10, NothingInHand DEF Lined
<1> QED
  BY <1>2, <1>8, <1>11

LEMMA SinkTook ==
    ASSUME Inv, Ordered, stack # <<>>, Top.fn = "sinkWrite", w' = w, ops' = ops, ticks' = ticks,
           consumed' = consumed \o Top.ids,
           stack' = <<>> \/ \E c : Goods(c) /\ stack' = c \o Tail(stack)
    PROVE  Ordered'
<1>1. Untouched /\ InSync /\ Top.fn \notin Processing \cup {"clearBuffer"}
  BY DEF Untouched, InSync, Ordered, Processing
<1>2. /\ Framed(stack', w') /\ Hand(stack') = <<>> /\ Next1(stack', ops) = ops + 1
      /\ (stack' # <<>> => Head(stack').fn \notin Foremost)
      /\ Positions(stack', w') \subseteq Positions(stack, w)
  BY <1>1, SteadyStack
<1>3. Hand(stack) = Top.ids /\ Next1(stack, ops) = ops + 1
  BY DEF Hand, Next1, Top
<1>4. PICK H : H = Top.ids
  OBVIOUS
<1>5. Lined(consumed, H, ops + 1)
  BY <1>3, <1>4 DEF Ordered, Line
<1>6. Lined(consumed', <<>>, ops + 1) /\ Range(consumed') = Range(consumed) \cup Range(H)
  BY <1>4, <1>5, Taken
<1>7. ASSUME NEW k \in Positions(stack', w') PROVE Behind(consumed', <<>>, ops + 1, w.buffered, k)
  <2>1. Behind(consumed, H, ops + 1, w.buffered, k)
    BY <1>2, <1>3, <1>4, <1>7 DEF Ordered, Line
  <2> QED
    BY <1>6, <2>1, NothingInHand DEF Behind
<1>8. ~Free(w')
  BY DEF Ordered, Heads, Free
<1>9. Heads'
  BY <1>2 DEF Heads, Top, Foremost
<1>10. Line'
  BY <1>2, <1>6, <1>7, <1>8 DEF Line, Ordered
<1> QED
  BY <1>1, <1>2, <1>9, <1>10 DEF Ordered, Untouched

\* A method that has called back, or not yet, or thrown.
LEMMA SinkAnswered ==
    ASSUME Inv, Ordered, NEW f \in Calls, Runs(f), Received(Top), w' = w, ops' = ops, ticks' = ticks,
           \/ stack' = <<>>
           \/ \E e1 : stack' = <<Err(Answer[f], e1)>> \o Tail(stack)
           \/ \E e1, e2 : stack' = <<Err(Answer[f], e1), Err(Answer[f], e2)>> \o Tail(stack)
           \/ stack' = <<>> \o Tail(stack)
    PROVE  Ordered'
<1>1. stack # <<>> /\ Top.fn = f /\ consumed' = consumed \o Top.ids
  BY DEF Runs, Received
<1>2. Top = stack[1] /\ 1 \in DOMAIN stack /\ Framed(stack, w) /\ More(w)
  BY <1>1, TopIsFirst DEF Ordered
<1>3. f \in {"sinkWrite", "sinkFinal", "constructNT", "_destroy"}
      /\ Answer[f] = (IF f = "sinkWrite" THEN "onwrite" ELSE IF f = "sinkFinal" THEN "onFinish"
                      ELSE IF f = "constructNT" THEN "onConstruct" ELSE "onDestroy")
  BY DEF Calls, Answer
<1>4. \A e1 : Good(Err(Answer[f], e1))
  <2>1. ASSUME NEW e1 PROVE Good(Err(Answer[f], e1))
    <3>1. PICK a : a = Err(Answer[f], e1)
      OBVIOUS
    <3>2. a.fn = Answer[f]
      BY <3>1, PieceFields
    <3>3. Common(a)
      BY <1>3, <3>2 DEF Common, Foremost, Processing, Chunkless
    <3>4. CASE f = "sinkWrite"
      <4>1. a.fn = "onwrite" /\ Top.fn = "sinkWrite"
        BY <1>1, <1>3, <3>2, <3>4
      <4>2. Fits(Top, w) => Fits(a, w')
        BY <4>1 DEF Fits, Inside, Quick
      <4> QED
        BY <3>1, <3>3, <4>1, <4>2 DEF Good
    <3>5. CASE f = "_destroy"
      <4>1. a.fn = "onDestroy" /\ Top.fn = "_destroy"
        BY <1>1, <1>3, <3>2, <3>5
      <4>2. Fits(Top, w) => Fits(a, w')
        BY <4>1 DEF Fits, Inside, Quick
      <4> QED
        BY <3>1, <3>3, <4>1, <4>2 DEF Good
    <3>6. CASE f \in {"sinkFinal", "constructNT"}
      <4>1. Top.fn \notin Inside
        BY <1>1, <3>6 DEF Inside, Quick
      <4> QED
        BY <3>1, <3>3, <4>1, Outside
    <3> QED
      BY <1>3, <3>1, <3>4, <3>5, <3>6
  <2> QED
    BY <2>1
<1>5. stack' = <<>> \/ \E c : Goods(c) /\ stack' = c \o Tail(stack)
  <2>1. CASE stack' = <<>> \/ stack' = <<>> \o Tail(stack)
    BY <2>1, GoodShort
  <2>2. CASE \E e1 : stack' = <<Err(Answer[f], e1)>> \o Tail(stack)
    BY <1>4, <2>2, GoodShort
  <2>3. CASE \E e1, e2 : stack' = <<Err(Answer[f], e1), Err(Answer[f], e2)>> \o Tail(stack)
    BY <1>4, <2>3, GoodShort
  <2> QED
    BY <2>1, <2>2, <2>3
<1>6. CASE f = "sinkWrite"
  BY <1>1, <1>5, <1>6, SinkTook
<1>7. CASE f # "sinkWrite"
  <2>1. Top.ids = <<>>
    BY <1>1, <1>2, <1>3, <1>7 DEF Framed, FramedAt, Chunkless
  <2>2. consumed \in Seq(Nat)
    BY DEF Ordered, Line, Lined
  <2>3. consumed' = consumed
    BY <1>1, <2>1, <2>2
  <2>4. Same /\ InSync
    BY <1>2, <2>3 DEF Same, Untouched, InSync, Ordered
  <2>5. Top.fn \notin Processing \cup {"clearBuffer"}
    BY <1>1, <1>3 DEF Processing
  <2> QED
    BY <1>1, <1>5, <2>4, <2>5, SteadyStep DEF Steady
<1> QED
  BY <1>6, <1>7

LEMMA SinkOrder == ASSUME Inv, Ordered, SinkAnswersAtOnce \/ SinkKeeps \/ SinkThrows PROVE Ordered'
<1>1. CASE SinkAnswersAtOnce
  <2>1. PICK f \in Calls :
            /\ Runs(f) /\ Received(Top)
            /\ \/ Then(<<Err(Answer[f], Passes(Top))>>) \/ Then(<<Err(Answer[f], "sink")>>)
               \/ Then(<<Do(Answer[f]), Again(f)>>)
            /\ w' = w /\ ticks' = ticks /\ ops' = ops
    BY <1>1 DEF SinkAnswersAtOnce, client
  <2>2. Do(Answer[f]) = Err(Answer[f], None)
    BY DEF Do, Err
  <2>3. \/ \E e1 : stack' = <<Err(Answer[f], e1)>> \o Tail(stack)
        \/ \E e1, e2 : stack' = <<Err(Answer[f], e1), Err(Answer[f], e2)>> \o Tail(stack)
    BY <2>1, <2>2 DEF Then, Again
  <2> QED
    BY <2>1, <2>3, SinkAnswered
<1>2. CASE SinkKeeps
  <2>1. PICK f \in Calls : /\ Runs(f) /\ Received(Top) /\ stack' = <<>> \o Tail(stack)
                           /\ w' = w /\ ticks' = ticks /\ ops' = ops
    BY <1>2 DEF SinkKeeps, Then, client
  <2> QED
    BY <2>1, SinkAnswered
<1>3. CASE SinkThrows
  <2>1. PICK f \in Calls :
            /\ Runs(f) /\ Received(Top)
            /\ stack' = <<>> \/ \E e1 : stack' = <<Err(Answer[f], e1)>> \o Tail(stack)
            /\ w' = w /\ ticks' = ticks /\ ops' = ops
    BY <1>3 DEF SinkThrows, Then, client
  <2> QED
    BY <2>1, SinkAnswered
<1> QED
  BY <1>1, <1>2, <1>3

\* A tick, or an answer of the sink, on an empty stack.
LEMMA BegunOrder ==
    ASSUME Inv, Ordered, stack = <<>>, NEW a, Common(a), stack' = <<a>>, w' = w, ops' = ops,
           consumed' = consumed, \A i \in DOMAIN ticks' : Common(ticks'[i])
    PROVE  Ordered'
<1>1. Untouched
  BY DEF Untouched, Ordered
<1>2. DOMAIN stack' = {1} /\ stack'[1] = a /\ stack' # <<>> /\ Head(stack') = a
  OBVIOUS
<1>3. Framed(stack', w')
  BY <1>2 DEF Framed, FramedAt, Common
<1>4. Hand(stack') = <<>> /\ Next1(stack', ops) = ops + 1 /\ Head(stack').fn \notin Foremost
  BY <1>2 DEF Hand, Next1, Common, Foremost
<1>5. Positions(stack', w') \subseteq Positions(stack, w)
  BY <1>2 DEF Positions, Common, Processing
<1>6. ASSUME NEW k \in Positions(stack', w'), k < Len(w.buffered), Free(w') PROVE Busy(stack')
  <2>1. Busy(stack)
    BY <1>5, <1>6 DEF Ordered, Line
  <2>2. DOMAIN stack = {}
    OBVIOUS
  <2> QED
    BY <2>1, <2>2 DEF Busy
<1> QED
  BY <1>1, <1>3, <1>4, <1>5, <1>6, UntouchedStep

LEMMA RunTickOrder == ASSUME Inv, Ordered, RunTick PROVE Ordered'
<1>1. /\ stack = <<>> /\ stack' = <<Head(ticks)>> /\ ticks # <<>> /\ ticks' = Tail(ticks) /\ w' = w
      /\ ops' = ops /\ consumed' = consumed
  BY DEF RunTick, client, log
<1>2. ticks \in Seq(Range(ticks))
  BY DEF Inv, Cold
<1>3. Head(ticks) = ticks[1] /\ 1 \in DOMAIN ticks
  BY <1>1, <1>2
<1>4. Len(ticks) \in Nat \ {0} /\ DOMAIN ticks = 1 .. Len(ticks)
  BY <1>1, <1>2, LenProperties, EmptySeq
<1>5. /\ Tail(ticks) \in Seq(Range(ticks)) /\ Len(Tail(ticks)) = Len(ticks) - 1
      /\ \A i \in 1 .. Len(Tail(ticks)) : Tail(ticks)[i] = ticks[i + 1]
  BY <1>1, <1>2, HeadTailProperties
<1>6. DOMAIN Tail(ticks) = 1 .. Len(Tail(ticks))
  BY <1>5, LenProperties
<1>7. ASSUME NEW i \in DOMAIN ticks' PROVE Common(ticks'[i])
  <2>1. i + 1 \in DOMAIN ticks /\ ticks'[i] = ticks[i + 1]
    BY <1>1, <1>4, <1>5, <1>6
  <2> QED
    BY <2>1 DEF Ordered
<1>8. PICK a : a = Head(ticks)
  OBVIOUS
<1>9. Common(a)
  BY <1>3, <1>8 DEF Ordered
<1> QED
  BY <1>1, <1>7, <1>8, <1>9, BegunOrder

LEMMA SinkLaterOrder == ASSUME Inv, Ordered, SinkAnswersLater PROVE Ordered'
<1>1. PICK a \in owed :
          /\ stack = <<>> /\ (stack' = <<a>> \/ stack' = <<Err(a.fn, "sink")>>)
          /\ w' = w /\ ticks' = ticks /\ ops' = ops /\ consumed' = consumed
  BY DEF SinkAnswersLater, client, log
<1>2. a.fn \in {"onwrite", "onFinish", "onConstruct", "onDestroy"}
  BY DEF Inv, OwedFits
<1>3. Common(a) /\ Common(Err(a.fn, "sink"))
  BY <1>2, PieceFields DEF Common, Foremost, Processing, Chunkless
<1>4. \A i \in DOMAIN ticks' : Common(ticks'[i])
  BY <1>1 DEF Ordered
<1>5. CASE stack' = <<a>>
  BY <1>1, <1>3, <1>4, <1>5, BegunOrder
<1>6. CASE stack' = <<Err(a.fn, "sink")>>
  <2>1. PICK b : b = Err(a.fn, "sink")
    OBVIOUS
  <2> QED
    BY <1>1, <1>3, <1>4, <1>6, <2>1, BegunOrder
<1> QED
  BY <1>1, <1>5, <1>6

\* The calls a client makes, which only go on top: from a loop up to the
\* callback it is called from something has gone wrong.
Calling == {"write", "cork", "uncork", "end", "destroy"}

LEMMA CallsOrder ==
    ASSUME Inv, Ordered, NEW x, NEW calls, ClientCalls(calls), x.fn \in Calling,
           x.fn = "write" => x.ids = <<Id>>,
           calls = <<x>> \/ \E y : calls = <<x, y>> /\ y.fn \in Calling \ {"write"}
    PROVE  Ordered'
<1>1. /\ stack = <<>> \/ (stack # <<>> /\ Top.fn = "user")
      /\ ops' = ops + 1 /\ stack' = calls \o stack /\ w' = w /\ ticks' = ticks /\ consumed' = consumed
  BY DEF ClientCalls, ClientMay, Runs, Id, log
<1>2. /\ stack \in Seq(Range(stack)) /\ Framed(stack, w) /\ More(w)
      /\ ops \in Nat /\ ops + 1 \in Nat /\ ops' \in Nat /\ ops' = ops + 1
  BY <1>1 DEF Inv, Stacked, Ordered, Line
<1>3. calls \in Seq(Range(calls)) /\ DOMAIN calls = 1 .. Len(calls) /\ Len(calls) \in {1, 2} /\ calls[1] = x
      /\ \A i \in DOMAIN calls : calls[i].fn \in Calling /\ (i > 1 => calls[i].fn # "write")
  <2>1. CASE calls = <<x>>
    <3>1. <<x>> \in Seq({x})
      OBVIOUS
    <3>2. <<x>> \in Seq(Range(<<x>>))
      BY <3>1, OfItsRange
    <3>3. DOMAIN <<x>> = 1 .. 1 /\ Len(<<x>>) = 1 /\ <<x>>[1] = x
      OBVIOUS
    <3> QED
      BY <2>1, <3>2, <3>3
  <2>2. CASE \E y : calls = <<x, y>> /\ y.fn \in Calling \ {"write"}
    <3>1. PICK y : calls = <<x, y>> /\ y.fn \in Calling \ {"write"}
      BY <2>2
    <3>2. <<x, y>> \in Seq({x, y})
      OBVIOUS
    <3>3. <<x, y>> \in Seq(Range(<<x, y>>))
      BY <3>2, OfItsRange
    <3>4. DOMAIN calls = 1 .. 2 /\ Len(calls) = 2 /\ calls[1] = x /\ calls[2] = y
      BY <3>1, TwoPieces
    <3> QED
      BY <3>1, <3>3, <3>4
  <2> QED
    BY <2>1, <2>2
<1>4. \A i \in DOMAIN calls : /\ calls[i].fn \notin Processing /\ calls[i].fn \notin Chunkless
                              /\ calls[i].fn \notin {"syncFalse", "doWrite"}
                              /\ i > 1 => calls[i].fn \notin Foremost
                              /\ w.errored # None => Fits(calls[i], w)
  BY <1>3 DEF Calling, Processing, Chunkless, Foremost, Fits, Inside, Quick
<1>5. Framed(calls, w)
  <2>1. ASSUME NEW i \in DOMAIN calls PROVE FramedAt(calls, w, i)
    <3>1. i = 1 \/ i > 1
      BY <1>3
    <3> QED
      BY <1>4, <3>1 DEF FramedAt
  <2> QED
    BY <2>1 DEF Framed
<1>6. Hand(stack) = <<>> /\ Next1(stack, ops) = ops + 1
  BY <1>1 DEF Hand, Next1, Top
<1>7. ASSUME stack' # <<>>, Head(stack') = x, Framed(stack', w),
             Positions(stack', w) \subseteq Positions(stack, w), Busy(stack) => Busy(stack')
      PROVE  Ordered'
  <2>1. Hand(stack') = <<>>
    BY <1>7 DEF Hand, Calling
  <2>2. /\ Next1(stack', ops') \in Nat /\ ops + 1 <= Next1(stack', ops')
        /\ Head(stack').fn = "write" => Head(stack').ids = <<ops'>>
    BY <1>1, <1>2, <1>7 DEF Next1, Id
  <2>3. PICK m : m = Next1(stack', ops')
    OBVIOUS
  <2>4. Lined(consumed, <<>>, m)
    BY <1>2, <1>6, <2>2, <2>3, LinedLess DEF Ordered, Line
  <2>5. ASSUME NEW k \in Positions(stack', w) PROVE Behind(consumed, <<>>, m, w.buffered, k)
    <3>1. Behind(consumed, <<>>, ops + 1, w.buffered, k)
      BY <1>6, <1>7, <2>5 DEF Ordered, Line
    <3> QED
      BY <1>2, <2>2, <2>3, <3>1, BehindLess
  <2>6. Heads'
    BY <1>7, <2>2 DEF Heads, Top, Calling
  <2>7. \A k \in Positions(stack', w) : k < Len(w.buffered) /\ Free(w) => Busy(stack')
    BY <1>7 DEF Ordered, Line
  <2>8. Line'
    BY <1>1, <1>2, <2>1, <2>3, <2>4, <2>5, <2>7 DEF Line
  <2> QED
    BY <1>1, <1>2, <1>7, <2>6, <2>8 DEF Ordered
<1>8. CASE stack = <<>>
  <2>1. stack' = calls
    BY <1>1, <1>3, <1>8
  <2>2. stack' # <<>> /\ Head(stack') = x
    BY <1>3, <2>1
  <2>3. Positions(stack', w) \subseteq Positions(stack, w)
    BY <1>4, <2>1 DEF Positions, Processing
  <2>4. ~Busy(stack)
    BY <1>8 DEF Busy
  <2> QED
    BY <1>5, <1>7, <2>1, <2>2, <2>3, <2>4
<1>9. CASE stack # <<>> /\ Top.fn = "user"
  <2>1. Top = stack[1] /\ 1 \in DOMAIN stack
    BY <1>9, TopIsFirst
  <2>2. PICK c : c = calls \o <<Top>>
    OBVIOUS
  <2>3. stack' = c \o Tail(stack)
    <3> DEFINE S == Range(stack) \cup Range(calls)
    <3>1. stack \in Seq(S) /\ calls \in Seq(S) /\ stack # <<>> /\ Head(stack) \in S
      <4>1. stack \in Seq(S) /\ calls \in Seq(S)
        BY <1>2, <1>3, SeqMonotonic
      <4> HIDE DEF S
      <4> QED
        BY <1>9, <4>1, HeadTailProperties
    <3> HIDE DEF S
    <3>2. Tail(stack) \in Seq(S) /\ <<Top>> \in Seq(S) /\ stack = <<Top>> \o Tail(stack)
      BY <3>1 DEF Top
    <3>3. (calls \o <<Top>>) \o Tail(stack) = calls \o (<<Top>> \o Tail(stack))
      BY <3>1, <3>2, ConcatAssociative
    <3> QED
      BY <1>1, <2>2, <3>2, <3>3
  <2>4. /\ c \in Seq(Range(c)) /\ DOMAIN c = 1 .. Len(calls) + 1 /\ c[1] = x
        /\ \A i \in DOMAIN c : (i \in DOMAIN calls /\ c[i] = calls[i]) \/ (i > 1 /\ c[i] = Top)
    <3> DEFINE S == Range(calls) \cup {Top}
    <3>1. calls \in Seq(S) /\ <<Top>> \in Seq(S)
      BY <1>3, SeqMonotonic
    <3> HIDE DEF S
    <3>2. /\ c \in Seq(S) /\ Len(c) = Len(calls) + Len(<<Top>>)
          /\ \A i \in 1 .. Len(calls) + Len(<<Top>>) :
                c[i] = IF i <= Len(calls) THEN calls[i] ELSE <<Top>>[i - Len(calls)]
      BY <2>2, <3>1, ConcatProperties
    <3>3. Len(<<Top>>) = 1 /\ <<Top>>[1] = Top
      OBVIOUS
    <3>4. c \in Seq(Range(c))
      BY <3>2, OfItsRange
    <3>5. DOMAIN c = 1 .. Len(calls) + 1
      BY <3>2, <3>3, LenProperties
    <3>6. ASSUME NEW i \in DOMAIN c
          PROVE  (i \in DOMAIN calls /\ c[i] = calls[i]) \/ (i > 1 /\ c[i] = Top)
      <4>1. CASE i <= Len(calls)
        BY <1>3, <3>2, <3>3, <3>5, <4>1
      <4>2. CASE ~(i <= Len(calls))
        <5>1. i - Len(calls) = 1 /\ i > 1
          BY <1>3, <3>5, <4>2
        <5> QED
          BY <3>2, <3>3, <3>5, <4>2, <5>1
      <4> QED
        BY <4>1, <4>2
    <3>7. c[1] = x
      BY <1>3, <3>5, <3>6
    <3> QED
      BY <3>4, <3>5, <3>6, <3>7
  <2>5. /\ Top.fn \notin Processing /\ Top.fn \notin Chunkless /\ Top.fn \notin Foremost
        /\ Top.fn \notin {"syncFalse", "doWrite"} /\ (Fits(Top, w) => w.errored # None)
    BY <1>9 DEF Processing, Chunkless, Foremost, Fits, Quick
  <2>6. \A i \in DOMAIN c : /\ c[i].fn \notin Processing /\ c[i].fn \notin Chunkless
                            /\ c[i].fn \notin {"syncFalse", "doWrite"}
                            /\ i > 1 => c[i].fn \notin Foremost
                            /\ Fits(Top, w) => Fits(c[i], w)
    BY <1>4, <2>4, <2>5
  <2>7. Framed(c, w)
    <3>1. ASSUME NEW i \in DOMAIN c PROVE FramedAt(c, w, i)
      <4>1. i = 1 \/ i > 1
        BY <1>3, <2>4
      <4> QED
        BY <2>6, <4>1 DEF FramedAt
    <3> QED
      BY <3>1 DEF Framed
  <2>8. 1 \in DOMAIN c
    BY <1>3, <2>4
  <2>9. stack' # <<>> /\ Head(stack') = x
    <3>1. c \o Tail(stack) # <<>> /\ Head(c \o Tail(stack)) = c[1]
      BY <1>2, <1>9, <2>4, <2>8, HeadOfPut
    <3> QED
      BY <2>3, <2>4, <3>1
  <2>10. Framed(stack', w)
    BY <1>2, <1>9, <2>1, <2>3, <2>4, <2>5, <2>6, <2>7, FramedReplaced
  <2>11. Positions(stack', w) \subseteq Positions(stack, w) /\ (Busy(stack) => Busy(stack'))
    BY <1>2, <1>9, <2>1, <2>3, <2>4, <2>5, <2>6, PositionsKept
  <2> QED
    BY <1>7, <2>9, <2>10, <2>11
<1> QED
  BY <1>1, <1>8, <1>9

LEMMA ClientOrder == ASSUME Inv, Ordered, ClientStep PROVE Ordered'
<1>1. \A cb : /\ WriteOf(cb).fn = "write" /\ WriteOf(cb).ids = <<Id>>
              /\ EndOf(cb).fn = "end" /\ \A er : [EndOf(cb) EXCEPT !.err = er].fn = "end"
  BY DEF WriteOf, EndOf, Do
<1>2. PICK x, calls : /\ ClientCalls(calls) /\ x.fn \in Calling /\ (x.fn = "write" => x.ids = <<Id>>)
                      /\ calls = <<x>> \/ \E y : calls = <<x, y>> /\ y.fn \in Calling \ {"write"}
  <2>1. CASE ClientWrites
    <3>1. PICK cb : ClientCalls(<<WriteOf(cb)>>)
      BY <2>1 DEF ClientWrites
    <3> QED
      BY <1>1, <3>1 DEF Calling
  <2>2. CASE ClientCorks
    BY <2>2, PieceFields DEF ClientCorks, Calling
  <2>3. CASE ClientUncorks
    BY <2>3, PieceFields DEF ClientUncorks, Calling
  <2>4. CASE ClientEnds
    <3>1. PICK x : x = EndOf(<<Id>>)
      OBVIOUS
    <3> QED
      BY <1>1, <2>4, <3>1 DEF ClientEnds, Calling
  <2>5. CASE ClientEndsWith
    <3>1. PICK er : ClientCalls(<<WriteOf(<<>>), [EndOf(<<Id>>) EXCEPT !.err = er]>>)
      BY <2>5 DEF ClientEndsWith
    <3>2. PICK x, y : x = WriteOf(<<>>) /\ y = [EndOf(<<Id>>) EXCEPT !.err = er]
      OBVIOUS
    <3>3. x.fn = "write" /\ x.ids = <<Id>> /\ y.fn = "end" /\ ClientCalls(<<x, y>>)
      BY <1>1, <3>1, <3>2
    <3> QED
      BY <3>3 DEF Calling
  <2>6. CASE ClientDestroys
    <3>1. PICK er : ClientCalls(<<Err("destroy", er)>>)
      BY <2>6 DEF ClientDestroys
    <3>2. PICK x : x = Err("destroy", er)
      OBVIOUS
    <3>3. x.fn = "destroy"
      BY <3>2, PieceFields
    <3> QED
      BY <3>1, <3>2, <3>3 DEF Calling
  <2> QED
    BY <2>1, <2>2, <2>3, <2>4, <2>5, <2>6 DEF ClientStep
<1> QED
  BY <1>2, CallsOrder

-----------------------------------------------------------------------------
(* The order of the chunks: the invariant and the theorem.                  *)

\* The stream is what it is.
LEMMA SameStream == ASSUME Inv, [Next]_vars PROVE w'.stream = w.stream
<1> USE DEF Runs, Then, Continue, Quiet, Set
<1>1. Fields(w) /\ "stream" \in DOMAIN w
  BY DEF Inv, Fields
<1>2. ASSUME StreamStep PROVE w'.stream = w.stream
  <2>1. CASE \/ EmitEvent \/ RunCallback \/ SyncFalse \/ Cork \/ ClearBufferEnd
             \/ OnwriteSync \/ AfterWriteTick \/ AfterWrite \/ SettleWrite \/ AfterWriteEnd
             \/ OnwriteError
    BY <2>1, MildWriteSteps DEF Mild, Kept
  <2>2. CASE \/ ErrorBuffer \/ ErrorBufferLoop \/ ResetBuffer \/ EndOnce \/ Ended \/ EndCallback
             \/ FinishMaybe \/ FinishIfSettled \/ Prefinish \/ OnFinish \/ ErrorOrDestroyIfSync
             \/ FinishLater \/ Finish
    BY <2>2, MildEndSteps DEF Mild, Kept
  <2>3. CASE ErrorOrDestroy \/ OnDestroy \/ EmitErrorClose \/ EmitError \/ EmitClose
    BY <2>3, MildDestroySteps DEF Mild, Kept
  <2>4. CASE Write
    BY <1>1, <2>4 DEF Write
  <2>5. CASE DoWrite \/ Uncork \/ End \/ RunTick \/ EmitConstruct
    BY <1>1, <2>5 DEF DoWrite, Uncork, End, RunTick, EmitConstruct
  <2>6. CASE Onwrite
    BY <1>1, <2>6 DEF Onwrite
  <2>7. CASE ClearBuffer \/ ClearBufferLoop
    BY <1>1, <2>7 DEF ClearBuffer, ClearBufferLoop
  <2>8. CASE ClearBufferTest
    BY <1>1, <2>8 DEF ClearBufferTest, Reset
  <2>9. CASE OnConstruct
    BY <1>1, <2>9 DEF OnConstruct
  <2>10. CASE Destroy
    BY <1>1, <2>10 DEF Destroy, WithError
  <2> QED
    BY <1>2, <2>1, <2>2, <2>3, <2>4, <2>5, <2>6, <2>7, <2>8, <2>9, <2>10 DEF StreamStep
<1>3. ASSUME UserReturns PROVE w'.stream = w.stream
  BY <1>3 DEF UserReturns
<1>4. ASSUME SinkStep PROVE w'.stream = w.stream
  BY <1>4 DEF SinkStep, SinkAnswersAtOnce, SinkKeeps, SinkThrows, SinkAnswersLater
<1>5. ASSUME ClientStep PROVE w'.stream = w.stream
  BY <1>5 DEF ClientStep, ClientWrites, ClientCorks, ClientUncorks, ClientEnds, ClientEndsWith,
              ClientDestroys, ClientCalls
<1>6. ASSUME UNCHANGED vars PROVE w'.stream = w.stream
  BY <1>6 DEF vars
<1> QED
  BY <1>2, <1>3, <1>4, <1>5, <1>6 DEF Next, Rest

LEMMA OrderStarts == ASSUME Init, ~w.stream.construct PROVE Ordered
<1>1. PICK stream \in Streams : InitFor(stream)
  BY DEF Init
<1>2. /\ stack = <<>> /\ consumed = <<>> /\ ops = 0 /\ w.stream = stream
      /\ ticks = IF stream.construct THEN <<Do("constructNT")>> ELSE <<>>
  BY <1>1 DEF InitFor, client, log
<1>3. ticks = <<>>
  BY <1>2
<1>4. /\ w.corked = 0 /\ w.buffered = <<>> /\ w.bufferedIndex = 0 /\ ~w.bufferProcessing
      /\ w.constructed /\ ~w.writing
  BY <1>1, <1>2 DEF InitFor
<1>5. /\ {"stream", "writing", "corked", "sync", "bufferProcessing", "buffered", "bufferedIndex",
          "constructed", "destroyed", "errored"} \subseteq DOMAIN w
  BY <1>1 DEF InitFor
<1>6. More(w)
  BY <1>2, <1>4, <1>5 DEF More, Range
<1>7. Framed(stack, w) /\ Heads /\ \A i \in DOMAIN ticks : Common(ticks[i])
  BY <1>2, <1>3 DEF Framed, Heads
<1>8. Hand(stack) = <<>> /\ Next1(stack, ops) = 1 /\ Positions(stack, w) = {0}
  BY <1>2, <1>4 DEF Hand, Next1, Positions
<1>9. Line
  <2>1. Lined(<<>>, <<>>, 1)
    BY NothingInHand DEF Lined
  <2>2. Behind(<<>>, <<>>, 1, <<>>, 0) /\ Len(<<>>) = 0
    BY DEF Behind
  <2> QED
    BY <1>2, <1>4, <1>8, <2>1, <2>2 DEF Line
<1> QED
  BY <1>6, <1>7, <1>9 DEF Ordered

LEMMA OrderSteps == ASSUME Inv, Ordered, [Next]_vars PROVE Ordered'
<1>1. ASSUME StreamStep PROVE Ordered'
  <2>1. CASE \/ EmitEvent \/ RunCallback \/ SyncFalse \/ Cork \/ OnwriteSync \/ AfterWriteTick
             \/ AfterWrite \/ SettleWrite \/ AfterWriteEnd \/ OnwriteError
    BY <2>1, SteadyWriteSteps, SteadyStep
  <2>2. CASE \/ ErrorBuffer \/ ErrorBufferLoop \/ EndOnce \/ Ended \/ EndCallback
             \/ FinishMaybe \/ FinishIfSettled \/ Prefinish \/ OnFinish \/ ErrorOrDestroyIfSync
             \/ FinishLater \/ Finish
    BY <2>2, SteadyEndSteps, SteadyStep
  <2>3. CASE \/ OnConstruct \/ ErrorOrDestroy \/ Destroy \/ OnDestroy \/ EmitErrorClose
             \/ EmitError \/ EmitClose
    BY <2>3, SteadyDestroySteps, SteadyStep
  <2>4. CASE Write \/ DoWrite \/ Uncork \/ End \/ Onwrite \/ EmitConstruct \/ RunTick
    BY <2>4, WriteOrder, DoWriteOrder, UncorkOrder, EndOrder, OnwriteOrder, EmitConstructOrder,
       RunTickOrder
  <2>5. CASE ClearBuffer \/ ClearBufferLoop \/ ClearBufferTest \/ ClearBufferEnd \/ ResetBuffer
    BY <2>5, ClearBufferOrder, ClearBufferLoopOrder, ClearBufferTestOrder, ClearBufferEndOrder,
       ResetBufferOrder
  <2> QED
    BY <1>1, <2>1, <2>2, <2>3, <2>4, <2>5 DEF StreamStep
<1>2. ASSUME UserReturns PROVE Ordered'
  BY <1>2, SteadyWriteSteps, SteadyStep
<1>3. ASSUME SinkStep PROVE Ordered'
  BY <1>3, SinkOrder, SinkLaterOrder DEF SinkStep
<1>4. ASSUME ClientStep PROVE Ordered'
  BY <1>4, ClientOrder
<1>5. ASSUME UNCHANGED vars PROVE Ordered'
  BY <1>5 DEF vars, client, log, Ordered, Heads, Line, Top
<1> QED
  BY <1>1, <1>2, <1>3, <1>4, <1>5 DEF Next, Rest

\* The sink is handed the chunks in the order of the writes, each once,
\* whatever it answers and when, and whatever the client calls meanwhile, on a
\* stream without _construct.
THEOREM ChunksInOrder == Spec => []InOrderOnceConstructed
<1> DEFINE InLine == Inv /\ (~w.stream.construct => Ordered)
<1>1. Init => InLine
  BY Starts, OrderStarts
<1>2. InLine /\ [Next]_vars => InLine'
  BY Steps, SameStream, OrderSteps
<1>3. InLine => InOrderOnceConstructed
  BY DEF Ordered, Line, Lined, Increasing, InOrderOnceConstructed, InOrder
<1> HIDE DEF InLine
<1> QED
  BY <1>1, <1>2, <1>3, PTL DEF Spec
-----------------------------------------------------------------------------
(* What length counts.                                                      *)

\* Beyond the loops over the buffer (Processing) there are those of
\* errorBuffer.  What may run above each of them, as long as nothing has gone
\* wrong: the pieces of one write, and what a callback of the client may call
\* on a stream that is destroyed.
Erring  == {"errorBufferLoop", "resetBuffer"}
Walking == Processing \cup Erring
Calm    == {"doWrite", "sinkWrite", "syncFalse", "onwrite", "clearBuffer", "onwriteSync"}
Told    == {"callback", "user", "write", "cork", "uncork", "clearBuffer", "end", "endOnce", "ended",
            "endCallback", "finishMaybe", "finishMaybeSync", "prefinish", "finishIfSettled", "finish",
            "emit", "errorOrDestroy", "errorOrDestroySync", "destroy"}

\* The chunk and the callback of an entry that has not been taken, and a buffer
\* from which none has been from position k on.
Numbers == Nat \ {0}
Listed(e)  == e.id \in Numbers /\ e.cb \in Seq(Numbers)
From(v, k) == k \in 0 .. Len(v.buffered) /\ \A i \in k + 1 .. Len(v.buffered) : Listed(v.buffered[i])

\* How far in the buffer a loop has come.
Reached(f, v) == IF f.fn \in {"clearBufferEnd", "resetBuffer"} THEN Len(v.buffered) ELSE f.n

\* Pieces of P occur in s only below pieces of A.
Nested(s, P, A) == \A i \in DOMAIN s : s[i].fn \in P => \A j \in 1 .. i - 1 : s[j].fn \in A
Has(s, P) == \E i \in DOMAIN s : s[i].fn \in P

\* What a piece is sure of, with a sink that neither calls back twice nor
\* throws; and what it is sure of when nothing has gone wrong.
Sane(f, v) ==
    /\ f.fn \in Processing => From(v, Reached(f, v))
    /\ f.fn = "clearBufferLoop" => f.n < Len(v.buffered)
    /\ f.fn \in {"write", "doWrite"} => f.cb \in Seq(Numbers)
    /\ f.fn = "write" => f.ids[1] \in Numbers
Unharmed(f, v) ==
    /\ f.fn \in Erring \cup {"errorBuffer"} => v.destroyed
    /\ f.fn = "errorBufferLoop" => f.n \in v.bufferedIndex .. Len(v.buffered)
    /\ f.fn # "onwriteError"
    /\ f.fn = "onwrite" => f.err = None

\* The length of what doWrite is about to write, and what length must be when
\* it is h and the loop has come to k.
Handing(s) == IF s # <<>> /\ Head(s).fn = "doWrite" THEN Head(s).n ELSE 0
Account(v, h, k) == v.length = v.writelen + h + Len(v.buffered) - k

SoundStack(s, v) ==
    /\ Nested(s, Processing, Calm)
    /\ v.bufferProcessing <=> Has(s, Processing)
    /\ Has(s, Processing) => ~v.destroyed /\ (Head(s).fn \in Asked => v.sync)
    /\ \A i \in DOMAIN s : Sane(s[i], v)
    /\ ~v.bufferProcessing => From(v, v.bufferedIndex)
    /\ s # <<>> /\ Head(s).fn = "doWrite" => ~v.destroyed
FlawlessStack(s, v) ==
    /\ Nested(s, Erring, Told)
    /\ \A i \in DOMAIN s : Unharmed(s[i], v)
    /\ \A i \in DOMAIN s : s[i].fn \in Walking => Account(v, Handing(s), Reached(s[i], v))
    /\ ~Has(s, Walking) => Account(v, Handing(s), v.bufferedIndex)

\* A write that is being made has a callback, and the sink has it.
Trusted == w.stream.faults \cap {"twice", "throw"} = {}
Bearing ==
    /\ w.writing => w.writecb # NoCallback
    /\ w.writing /\ Trusted => Writes \/ (stack # <<>> /\ Top.fn \in Asked)

Details(v) ==
    /\ {"writecb", "sync", "buffered", "bufferProcessing", "destroyed"} \subseteq DOMAIN v
    /\ v.buffered \in Seq(Range(v.buffered))
Harmless(f) == f.fn \notin Walking \cup {"write", "doWrite"}
Sound == faults = 0 \/ Trusted
Flawless ==
    /\ FlawlessStack(stack, w)
    /\ \A i \in DOMAIN ticks : Unharmed(ticks[i], w)
    /\ \A a \in owed : a.fn = "onwrite" => a.err = None
Booked ==
    /\ Details(w) /\ ops \in Nat
    /\ ~w.writing => w.writelen = 0
    /\ \A i \in DOMAIN ticks : Harmless(ticks[i])
    /\ Sound => SoundStack(stack, w) /\ Bearing
    /\ faults = 0 => Flawless

-----------------------------------------------------------------------------
\* A set of numbers has a least one.
LEMMA Least == ASSUME NEW T, T \subseteq Nat, T # {} PROVE \E x \in T : \A y \in T : x <= y
<1> DEFINE R == OpToRel(<, Nat)
<1>1. IsWellFoundedOn(R, Nat)
  BY NatLessThanWellFounded
<1>2. \A x, y \in Nat : y < x => <<y, x>> \in R
  BY DEF OpToRel
<1> HIDE DEF R
<1>3. PICK x \in T : \A y \in T : <<y, x>> \notin R
  BY <1>1, WFMin
<1>4. \A y \in T : x \in Nat /\ y \in Nat /\ ~(y < x)
  BY <1>2, <1>3
<1> QED
  BY <1>4

\* The callbacks of a list of entries, one list after the other.
LEMMA FlattenOf == ASSUME NEW S, NEW q \in Seq(Seq(S)) PROVE FlattenSeq(q) \in Seq(S)
<1> DEFINE n == Len(q)
           Step(f, i) == IF i = 1 THEN q[i] ELSE f[i - 1] \o q[i]
           Fits1(m) == \E f \in [1 .. m -> Seq(S)] : \A i \in 1 .. m : f[i] = Step(f, i)
<1>1. n \in Nat /\ \A i \in 1 .. n : q[i] \in Seq(S)
  OBVIOUS
<1>2. \A m \in 0 .. n : Fits1(m)
  <2> DEFINE T == {m \in 0 .. n : ~Fits1(m)}
  <2> SUFFICES ASSUME T # {} PROVE FALSE
    OBVIOUS
  <2>1. PICK m \in T : \A y \in T : m <= y
    <3>1. T \subseteq Nat
      OBVIOUS
    <3> HIDE DEF T
    <3> QED
      BY <3>1, Least
  <2>2. m \in 0 .. n /\ ~Fits1(m)
    OBVIOUS
  <2>3. Fits1(0)
    <3>1. [i \in 1 .. 0 |-> <<>>] \in [1 .. 0 -> Seq(S)]
      OBVIOUS
    <3>2. \A i \in 1 .. 0 : FALSE
      OBVIOUS
    <3> QED
      BY <3>1, <3>2
  <2>4. m # 0
    BY <2>2, <2>3
  <2>5. m \in 1 .. n /\ m - 1 \in 0 .. n /\ m - 1 < m
    BY <1>1, <2>2, <2>4
  <2>6. Fits1(m - 1)
    <3>1. \A y \in 0 .. n : y \in T \/ Fits1(y)
      OBVIOUS
    <3> HIDE DEF T, Fits1
    <3>2. m - 1 \notin T
      BY <2>1, <2>5
    <3> QED
      BY <2>5, <3>1, <3>2
  <2>7. PICK f \in [1 .. m - 1 -> Seq(S)] : \A i \in 1 .. m - 1 : f[i] = Step(f, i)
    BY <2>6
  <2> DEFINE g == [i \in 1 .. m |-> IF i < m THEN f[i] ELSE Step(f, m)]
  <2>8. Step(f, m) \in Seq(S)
    <3>1. q[m] \in Seq(S)
      BY <1>1, <2>5
    <3>2. CASE m = 1
      BY <3>1, <3>2
    <3>3. CASE m # 1
      <4>1. m - 1 \in 1 .. m - 1
        BY <1>1, <2>5, <3>3
      <4>2. f[m - 1] \in Seq(S)
        BY <4>1
      <4>3. f[m - 1] \o q[m] \in Seq(S)
        BY <3>1, <4>2, ConcatProperties
      <4> QED
        BY <3>3, <4>3
    <3> QED
      BY <3>2, <3>3
  <2>9. \A i \in 1 .. m : i = m \/ (i < m /\ i \in 1 .. m - 1)
    BY <1>1, <2>5
  <2>10. g \in [1 .. m -> Seq(S)]
    BY <2>8, <2>9
  <2>11. ASSUME NEW i \in 1 .. m PROVE g[i] = Step(g, i)
    <3>1. i = 1 \/ (i - 1 \in 1 .. m /\ i - 1 < m)
      BY <1>1, <2>5
    <3>2. Step(g, i) = Step(f, i)
      BY <3>1
    <3>3. g[i] = Step(f, i)
      <4>1. CASE i = m
        BY <4>1
      <4>2. CASE i < m /\ i \in 1 .. m - 1
        <5>1. g[i] = f[i]
          BY <4>2
        <5> HIDE DEF g, Step
        <5> QED
          BY <2>7, <4>2, <5>1
      <4> QED
        BY <2>9, <4>1, <4>2
    <3> QED
      BY <3>2, <3>3
  <2> HIDE DEF g, Step
  <2> QED
    BY <2>2, <2>10, <2>11
<1> DEFINE F(f) == [i \in 1 .. n |-> IF i = 1 THEN q[i] ELSE f[i - 1] \o q[i]]
           flat == CHOOSE f : f = F(f)
<1>3. \E f : f = F(f)
  <2>1. PICK f \in [1 .. n -> Seq(S)] : \A i \in 1 .. n : f[i] = Step(f, i)
    <3>1. n \in 0 .. n
      BY <1>1
    <3>2. Fits1(n)
      <4> HIDE DEF Fits1
      <4> QED
        BY <1>2, <3>1
    <3> QED
      BY <3>2
  <2>2. F(f) = [i \in 1 .. n |-> f[i]]
    BY <2>1
  <2>3. f = [i \in 1 .. n |-> f[i]]
    OBVIOUS
  <2> QED
    BY <2>2, <2>3
<1>4. flat = F(flat)
  BY <1>3
<1>5. CASE n = 0
  BY <1>5 DEF FlattenSeq
<1>6. CASE n # 0
  <2>1. FlattenSeq(q) = flat[n]
    BY <1>6 DEF FlattenSeq
  <2> HIDE DEF flat
  <2>2. \A i \in 1 .. n : flat[i] = IF i = 1 THEN q[i] ELSE flat[i - 1] \o q[i]
    BY <1>4
  <2> DEFINE U == {i \in 1 .. n : flat[i] \notin Seq(S)}
  <2>3. U = {}
    <3> SUFFICES ASSUME U # {} PROVE FALSE
      OBVIOUS
    <3>1. PICK i \in U : \A y \in U : i <= y
      <4>1. U \subseteq Nat
        OBVIOUS
      <4> HIDE DEF U
      <4> QED
        BY <4>1, Least
    <3>2. i \in 1 .. n /\ flat[i] \notin Seq(S) /\ q[i] \in Seq(S)
      BY <1>1
    <3>3. i # 1
      BY <2>2, <3>2
    <3>4. i - 1 \in 1 .. n /\ ~(i <= i - 1)
      BY <1>1, <3>2, <3>3
    <3>5. flat[i - 1] \in Seq(S)
      BY <3>1, <3>4
    <3>6. flat[i] = flat[i - 1] \o q[i]
      BY <2>2, <3>2, <3>3
    <3> QED
      BY <3>2, <3>5, <3>6, ConcatProperties
  <2>4. n \in 1 .. n
    BY <1>1, <1>6
  <2> QED
    BY <2>1, <2>3, <2>4
<1> QED
  BY <1>5, <1>6

-----------------------------------------------------------------------------
(* Stacks again: what a step puts on one, and what it leaves.               *)

\* t is s with c in place of its top.
OnPut(s, c, t) ==
    /\ Len(c) \in Nat /\ DOMAIN c = 1 .. Len(c) /\ Len(s) \in Nat \ {0} /\ DOMAIN s = 1 .. Len(s)
    /\ t \in Seq(Range(t)) /\ DOMAIN t = 1 .. Len(c) + Len(s) - 1
    /\ \A i \in DOMAIN t : \/ i \in DOMAIN c /\ t[i] = c[i]
                           \/ \E q \in DOMAIN s : q > 1 /\ i = q + Len(c) - 1 /\ t[i] = s[q]
    /\ \A i \in DOMAIN c : i \in DOMAIN t /\ t[i] = c[i]
    /\ \A q \in DOMAIN s : q > 1 => q + Len(c) - 1 \in DOMAIN t /\ t[q + Len(c) - 1] = s[q]

LEMMA PutElements ==
    ASSUME NEW s, NEW c, NEW t, s \in Seq(Range(s)), s # <<>>, c \in Seq(Range(c)), t = c \o Tail(s)
    PROVE  OnPut(s, c, t)
<1>1. /\ t \in Seq(Range(t))
      /\ DOMAIN t = 1 .. Len(c) + Len(s) - 1 /\ DOMAIN c = 1 .. Len(c) /\ DOMAIN s = 1 .. Len(s)
      /\ Len(c) \in Nat /\ Len(s) \in Nat \ {0}
  BY Replaced
<1>2. \A i \in 1 .. Len(c) : t[i] = c[i]
  BY Replaced
<1>3. \A i \in Len(c) + 1 .. Len(c) + Len(s) - 1 : t[i] = s[i - Len(c) + 1]
  BY Replaced
<1>4. ASSUME NEW i \in DOMAIN t
      PROVE  \/ i \in DOMAIN c /\ t[i] = c[i]
             \/ \E q \in DOMAIN s : q > 1 /\ i = q + Len(c) - 1 /\ t[i] = s[q]
  <2>1. CASE i \in 1 .. Len(c)
    BY <1>1, <1>2, <2>1
  <2>2. CASE i \in Len(c) + 1 .. Len(c) + Len(s) - 1
    <3>1. PICK q : q = i - Len(c) + 1
      OBVIOUS
    <3>2. q \in DOMAIN s /\ q > 1 /\ i = q + Len(c) - 1
      BY <1>1, <2>2, <3>1
    <3>3. t[i] = s[q]
      BY <1>3, <2>2, <3>1
    <3> QED
      BY <3>2, <3>3
  <2> QED
    BY <1>1, <2>1, <2>2
<1>5. \A i \in DOMAIN c : i \in DOMAIN t /\ t[i] = c[i]
  BY <1>1, <1>2
<1>6. ASSUME NEW q \in DOMAIN s, q > 1 PROVE q + Len(c) - 1 \in DOMAIN t /\ t[q + Len(c) - 1] = s[q]
  <2>1. PICK i : i = q + Len(c) - 1
    OBVIOUS
  <2>2. i \in Len(c) + 1 .. Len(c) + Len(s) - 1 /\ i - Len(c) + 1 = q
    BY <1>1, <1>6, <2>1
  <2> QED
    BY <1>1, <1>3, <2>1, <2>2
<1> QED
  BY <1>1, <1>4, <1>5, <1>6 DEF OnPut

LEMMA NestedPut ==
    ASSUME NEW s, NEW c, NEW t, NEW P, NEW A,
           s \in Seq(Range(s)), s # <<>>, c \in Seq(Range(c)), t = c \o Tail(s),
           Nested(s, P, A), Nested(c, P, A), s[1].fn \in A /\ Has(s, P) => \A i \in DOMAIN c : c[i].fn \in A
    PROVE  /\ Nested(t, P, A)
           /\ Has(t, P) => Has(c, P) \/ (Has(s, P) /\ s[1].fn \in A)
           /\ Has(c, P) \/ (Has(s, P) /\ s[1].fn \notin P) => Has(t, P)
<1>0. OnPut(s, c, t)
  BY PutElements
<1>1. /\ Len(c) \in Nat /\ DOMAIN c = 1 .. Len(c) /\ Len(s) \in Nat \ {0} /\ DOMAIN s = 1 .. Len(s)
      /\ DOMAIN t = 1 .. Len(c) + Len(s) - 1
  BY <1>0 DEF OnPut
<1>2. \A i \in DOMAIN t : \/ i \in DOMAIN c /\ t[i] = c[i]
                          \/ \E q \in DOMAIN s : q > 1 /\ i = q + Len(c) - 1 /\ t[i] = s[q]
  BY <1>0 DEF OnPut
<1>3. \A i \in DOMAIN c : i \in DOMAIN t /\ t[i] = c[i]
  BY <1>0 DEF OnPut
<1>4. \A q \in DOMAIN s : q > 1 => q + Len(c) - 1 \in DOMAIN t /\ t[q + Len(c) - 1] = s[q]
  BY <1>0 DEF OnPut
<1>5. ASSUME NEW q \in DOMAIN s, q > 1, s[q].fn \in P
      PROVE  s[1].fn \in A /\ Has(s, P) /\ \A i \in DOMAIN c : c[i].fn \in A
  <2>1. 1 \in 1 .. q - 1
    BY <1>1, <1>5
  <2>2. s[1].fn \in A /\ Has(s, P)
    BY <1>5, <2>1 DEF Nested, Has
  <2> QED
    BY <2>2
<1>6. ASSUME NEW i \in DOMAIN t, t[i].fn \in P, NEW j \in 1 .. i - 1 PROVE t[j].fn \in A
  <2>0. i \in Int /\ j \in DOMAIN t
    BY <1>1
  <2>1. CASE i \in DOMAIN c /\ t[i] = c[i]
    <3>1. j \in DOMAIN c
      BY <1>1, <2>1
    <3> QED
      BY <1>3, <1>6, <2>1, <3>1 DEF Nested
  <2>2. CASE \E q \in DOMAIN s : q > 1 /\ i = q + Len(c) - 1 /\ t[i] = s[q]
    <3>1. PICK q \in DOMAIN s : q > 1 /\ i = q + Len(c) - 1 /\ t[i] = s[q]
      BY <2>2
    <3>2. \A k \in DOMAIN c : c[k].fn \in A
      BY <1>5, <1>6, <3>1
    <3>3. CASE j \in DOMAIN c /\ t[j] = c[j]
      BY <3>2, <3>3
    <3>4. CASE \E k \in DOMAIN s : k > 1 /\ j = k + Len(c) - 1 /\ t[j] = s[k]
      <4>1. PICK k \in DOMAIN s : k > 1 /\ j = k + Len(c) - 1 /\ t[j] = s[k]
        BY <3>4
      <4>2. k \in 1 .. q - 1
        BY <1>1, <3>1, <4>1
      <4> QED
        BY <1>6, <3>1, <4>1, <4>2 DEF Nested
    <3> QED
      BY <1>2, <2>0, <3>3, <3>4
  <2> QED
    BY <1>2, <2>1, <2>2
<1>7. ASSUME Has(t, P) PROVE Has(c, P) \/ (Has(s, P) /\ s[1].fn \in A)
  <2>1. PICK i \in DOMAIN t : t[i].fn \in P
    BY <1>7 DEF Has
  <2>2. CASE i \in DOMAIN c /\ t[i] = c[i]
    BY <2>1, <2>2 DEF Has
  <2>3. CASE \E q \in DOMAIN s : q > 1 /\ i = q + Len(c) - 1 /\ t[i] = s[q]
    <3>1. PICK q \in DOMAIN s : q > 1 /\ i = q + Len(c) - 1 /\ t[i] = s[q]
      BY <2>3
    <3>2. s[1].fn \in A /\ Has(s, P)
      BY <1>5, <2>1, <3>1
    <3> QED
      BY <3>2
  <2> QED
    BY <1>2, <2>1, <2>2, <2>3
<1>8. ASSUME Has(c, P) PROVE Has(t, P)
  BY <1>3, <1>8 DEF Has
<1>9. ASSUME Has(s, P), s[1].fn \notin P PROVE Has(t, P)
  <2>1. PICK q \in DOMAIN s : s[q].fn \in P
    BY <1>9 DEF Has
  <2>2. q > 1
    BY <1>1, <1>9, <2>1
  <2> QED
    BY <1>4, <2>1, <2>2 DEF Has
<1>10. Nested(t, P, A)
  BY <1>6 DEF Nested
<1> QED
  BY <1>7, <1>8, <1>9, <1>10

\* Below a piece that is not of A there is none of P.
LEMMA NestedBelow ==
    ASSUME NEW s, NEW P, NEW A, s \in Seq(Range(s)), s # <<>>, Nested(s, P, A), s[1].fn \notin A
    PROVE  \A q \in DOMAIN s : q > 1 => s[q].fn \notin P
<1>1. DOMAIN s = 1 .. Len(s) /\ Len(s) \in Nat
  BY LenProperties
<1>2. ASSUME NEW q \in DOMAIN s, q > 1, s[q].fn \in P PROVE FALSE
  <2>1. 1 \in 1 .. q - 1
    BY <1>1, <1>2
  <2> QED
    BY <1>2, <2>1 DEF Nested
<1> QED
  BY <1>2

LEMMA HeadPut ==
    ASSUME NEW s, NEW c, NEW t, s \in Seq(Range(s)), s # <<>>, c \in Seq(Range(c)), t = c \o Tail(s)
    PROVE  /\ c # <<>> => t # <<>> /\ Head(t) = c[1] /\ 1 \in DOMAIN c
           /\ c = <<>> /\ t # <<>> => 2 \in DOMAIN s /\ Head(t) = s[2]
<1>0. OnPut(s, c, t)
  BY PutElements
<1>1. /\ Len(c) \in Nat /\ DOMAIN c = 1 .. Len(c) /\ Len(s) \in Nat \ {0} /\ DOMAIN s = 1 .. Len(s)
      /\ t \in Seq(Range(t)) /\ DOMAIN t = 1 .. Len(c) + Len(s) - 1
  BY <1>0 DEF OnPut
<1>2. \A i \in DOMAIN c : i \in DOMAIN t /\ t[i] = c[i]
  BY <1>0 DEF OnPut
<1>3. ASSUME c # <<>> PROVE t # <<>> /\ Head(t) = c[1] /\ 1 \in DOMAIN c
  <2>1. 1 \in DOMAIN c
    BY <1>1, <1>3, EmptySeq
  <2>2. 1 \in DOMAIN t /\ t[1] = c[1]
    BY <1>2, <2>1
  <2>3. t # <<>>
    BY <2>2
  <2> QED
    BY <1>1, <2>1, <2>2, <2>3, HeadIsFirst
<1>4. ASSUME c = <<>>, t # <<>> PROVE 2 \in DOMAIN s /\ Head(t) = s[2]
  <2>1. Head(t) = t[1] /\ 1 \in DOMAIN t
    BY <1>1, <1>4, HeadIsFirst
  <2>2. Len(c) = 0 /\ DOMAIN c = {}
    BY <1>1, <1>4
  <2>3. PICK q \in DOMAIN s : q > 1 /\ 1 = q + Len(c) - 1 /\ t[1] = s[q]
    BY <1>0, <2>1, <2>2 DEF OnPut
  <2>4. q = 2
    BY <1>1, <2>2, <2>3
  <2> QED
    BY <2>1, <2>3, <2>4
<1> QED
  BY <1>3, <1>4

\* What SoundStack says of a stack is true of the next one.
LEMMA SoundPut ==
    ASSUME NEW s, NEW v, NEW c, NEW t, NEW u,
           s \in Seq(Range(s)), s # <<>>, c \in Seq(Range(c)), t = c \o Tail(s), SoundStack(s, v),
           \A q \in DOMAIN s : q > 1 => s[q].fn \notin Hot,
           Nested(c, Processing, Calm),
           s[1].fn \in Calm /\ Has(s, Processing) => \A i \in DOMAIN c : c[i].fn \in Calm,
           u.bufferProcessing <=> Has(c, Processing) \/ (Has(s, Processing) /\ s[1].fn \notin Processing),
           u.bufferProcessing => ~u.destroyed,
           c # <<>> /\ u.bufferProcessing /\ c[1].fn \in Asked => u.sync,
           c # <<>> /\ c[1].fn = "doWrite" => ~u.destroyed,
           \A q \in DOMAIN s : q > 1 => Sane(s[q], u),
           \A i \in DOMAIN c : Sane(c[i], u),
           ~u.bufferProcessing => From(u, u.bufferedIndex)
    PROVE  SoundStack(t, u)
<1>0. OnPut(s, c, t)
  BY PutElements
<1>1. Nested(s, Processing, Calm)
  BY DEF SoundStack
<1>2. Nested(t, Processing, Calm)
  BY <1>1, NestedPut
<1>3. u.bufferProcessing <=> Has(t, Processing)
  <2>1. Has(t, Processing) => Has(c, Processing) \/ (Has(s, Processing) /\ s[1].fn \in Calm)
    BY <1>1, NestedPut
  <2>2. Has(c, Processing) \/ (Has(s, Processing) /\ s[1].fn \notin Processing) => Has(t, Processing)
    BY <1>1, NestedPut
  <2>3. s[1].fn \in Calm => s[1].fn \notin Processing
    BY DEF Calm, Processing
  <2> QED
    BY <2>1, <2>2, <2>3
<1>4. t # <<>> => \/ c # <<>> /\ Head(t) = c[1]
                  \/ Head(t).fn \notin Hot
  <2>1. c # <<>> => Head(t) = c[1]
    BY HeadPut
  <2>2. c = <<>> /\ t # <<>> => 2 \in DOMAIN s /\ Head(t) = s[2]
    BY HeadPut
  <2> QED
    BY <2>1, <2>2
<1>5. t = <<>> => ~Has(t, Processing)
  BY DEF Has
<1>6. Has(t, Processing) => ~u.destroyed /\ (Head(t).fn \in Asked => u.sync)
  BY <1>3, <1>4, <1>5 DEF Hot
<1>7. t # <<>> /\ Head(t).fn = "doWrite" => ~u.destroyed
  BY <1>4 DEF Hot, Ready
<1>8. ASSUME NEW i \in DOMAIN t PROVE Sane(t[i], u)
  <2>1. \/ i \in DOMAIN c /\ t[i] = c[i]
        \/ \E q \in DOMAIN s : q > 1 /\ i = q + Len(c) - 1 /\ t[i] = s[q]
    BY <1>0 DEF OnPut
  <2> QED
    BY <2>1
<1> QED
  BY <1>2, <1>3, <1>6, <1>7, <1>8 DEF SoundStack

\* The same of FlawlessStack.
LEMMA FlawlessPut ==
    ASSUME NEW s, NEW v, NEW c, NEW t, NEW u, NEW h,
           s \in Seq(Range(s)), s # <<>>, c \in Seq(Range(c)), t = c \o Tail(s), FlawlessStack(s, v),
           \A q \in DOMAIN s : q > 1 => s[q].fn \notin Hot,
           Nested(c, Erring, Told),
           s[1].fn \in Told /\ Has(s, Erring) => \A i \in DOMAIN c : c[i].fn \in Told,
           \A q \in DOMAIN s : q > 1 => Unharmed(s[q], u),
           \A i \in DOMAIN c : Unharmed(c[i], u),
           h = IF c # <<>> /\ c[1].fn = "doWrite" THEN c[1].n ELSE 0,
           \A i \in DOMAIN c : c[i].fn \in Walking => Account(u, h, Reached(c[i], u)),
           \A q \in DOMAIN s : q > 1 /\ s[q].fn \in Walking => Account(u, h, Reached(s[q], u)),
           (\A i \in DOMAIN c : c[i].fn \notin Walking)
              /\ (\A q \in DOMAIN s : q > 1 => s[q].fn \notin Walking) => Account(u, h, u.bufferedIndex)
    PROVE  FlawlessStack(t, u)
<1>0. OnPut(s, c, t)
  BY PutElements
<1>1. Nested(s, Erring, Told)
  BY DEF FlawlessStack
<1>2. Nested(t, Erring, Told)
  BY <1>1, NestedPut
<1>3. Handing(t) = h
  <2>1. CASE c # <<>>
    <3>1. t # <<>> /\ Head(t) = c[1]
      BY <2>1, HeadPut
    <3> QED
      BY <2>1, <3>1 DEF Handing
  <2>2. CASE c = <<>>
    <3>1. t # <<>> => Head(t).fn \notin Hot
      BY <2>2, HeadPut
    <3> QED
      BY <2>2, <3>1 DEF Handing, Hot, Ready
  <2> QED
    BY <2>1, <2>2
<1>4. \A i \in DOMAIN t : \/ i \in DOMAIN c /\ t[i] = c[i]
                          \/ \E q \in DOMAIN s : q > 1 /\ i = q + Len(c) - 1 /\ t[i] = s[q]
  BY <1>0 DEF OnPut
<1>5. \A i \in DOMAIN c : i \in DOMAIN t /\ t[i] = c[i]
  BY <1>0 DEF OnPut
<1>6. \A q \in DOMAIN s : q > 1 => q + Len(c) - 1 \in DOMAIN t /\ t[q + Len(c) - 1] = s[q]
  BY <1>0 DEF OnPut
<1>7. ASSUME NEW i \in DOMAIN t
      PROVE  Unharmed(t[i], u) /\ (t[i].fn \in Walking => Account(u, h, Reached(t[i], u)))
  BY <1>4
<1>8. ASSUME ~Has(t, Walking) PROVE Account(u, h, u.bufferedIndex)
  <2>1. \A i \in DOMAIN c : c[i].fn \notin Walking
    BY <1>5, <1>8 DEF Has
  <2>2. \A q \in DOMAIN s : q > 1 => s[q].fn \notin Walking
    BY <1>6, <1>8 DEF Has
  <2> QED
    BY <2>1, <2>2
<1> QED
  BY <1>2, <1>3, <1>7, <1>8 DEF FlawlessStack

-----------------------------------------------------------------------------
(* Steps that take nothing from the buffer and put nothing there.           *)

SameBuffer ==
    /\ w'.stream = w.stream /\ w'.buffered = w.buffered /\ w'.bufferedIndex = w.bufferedIndex
    /\ w'.bufferProcessing = w.bufferProcessing /\ (w.destroyed => w'.destroyed)
    /\ (faults' = 0 => faults = 0)

First(c) == IF c # <<>> /\ c[1].fn = "doWrite" THEN c[1].n ELSE 0

\* With a sink one can rely on, and when nothing has gone wrong.
KeepsSound(c) ==
    /\ Top.fn \in Calm /\ w.bufferProcessing => ~w'.destroyed /\ \A i \in DOMAIN c : c[i].fn \in Calm
    /\ c # <<>> /\ w.bufferProcessing /\ c[1].fn \in Asked => w'.sync
    /\ c # <<>> /\ c[1].fn = "doWrite" => ~w'.destroyed
    /\ \A i \in DOMAIN c : Sane(c[i], w')
    /\ Bearing'
KeepsFlawless(c) ==
    /\ Top.fn \in Told /\ w.destroyed => \A i \in DOMAIN c : c[i].fn \in Told
    /\ \A i \in DOMAIN c : Unharmed(c[i], w')
    /\ \A i \in DOMAIN ticks' : Unharmed(ticks'[i], w')
    /\ \A a \in owed' : a.fn = "onwrite" => a.err = None
    /\ w'.length - w'.writelen - First(c) = w.length - w.writelen - Handing(stack)
Keeps(c) ==
    /\ stack # <<>> /\ c \in Seq(Range(c)) /\ stack' = c \o Tail(stack)
    /\ Top.fn \notin Walking /\ \A i \in DOMAIN c : c[i].fn \notin Walking
    /\ SameBuffer /\ Details(w') /\ ops' \in Nat /\ (~w'.writing => w'.writelen = 0)
    /\ \A i \in DOMAIN ticks' : Harmless(ticks'[i])
    /\ Sound' => KeepsSound(c)
    /\ faults' = 0 => KeepsFlawless(c)

LEMMA StackFacts ==
    ASSUME Inv, stack # <<>>
    PROVE  /\ stack \in Seq(Range(stack)) /\ Top = stack[1] /\ 1 \in DOMAIN stack
           /\ \A i \in DOMAIN stack : IsPiece(stack[i])
  BY TopIsFirst DEF Inv, Stacked

LEMMA SoundIsFaithful == Sound => Faithful
  BY DEF Sound, Trusted, Faithful, Sole

LEMMA StillSound ==
    ASSUME w'.stream = w.stream, faults' = 0 => faults = 0
    PROVE  Sound' => Sound
  BY DEF Sound, Trusted

LEMMA NothingHot == ASSUME Inv, Sound PROVE \A q \in DOMAIN stack : q > 1 => stack[q].fn \notin Hot
  BY SoundIsFaithful DEF Inv, Stacked, Faithful

\* A loop over the buffer is running: what runs is of that loop or of the
\* write it makes.
LEMMA AboveLoops ==
    ASSUME Inv, Sound, SoundStack(stack, w), stack # <<>>, Top.fn \notin Calm
    PROVE  /\ \A q \in DOMAIN stack : q > 1 => stack[q].fn \notin Processing
           /\ Top.fn \notin Processing => ~Has(stack, Processing) /\ ~w.bufferProcessing
<1>1. stack \in Seq(Range(stack)) /\ Top = stack[1]
  BY StackFacts
<1>2. \A q \in DOMAIN stack : q > 1 => stack[q].fn \notin Processing
  <2>1. Nested(stack, Processing, Calm)
    BY DEF SoundStack
  <2> QED
    BY <1>1, <2>1, NestedBelow
<1>3. ASSUME Top.fn \notin Processing PROVE ~Has(stack, Processing)
  <2>1. \A q \in DOMAIN stack : q = 1 \/ q > 1
    <3>1. DOMAIN stack = 1 .. Len(stack) /\ Len(stack) \in Nat
      BY <1>1, LenProperties
    <3> QED
      BY <3>1
  <2> QED
    BY <1>1, <1>2, <1>3, <2>1 DEF Has
<1> QED
  BY <1>2, <1>3 DEF SoundStack

\* Nor does a loop of errorBuffer run below what no callback of it can have
\* called, or on a stream that is not destroyed.
LEMMA AboveErrors ==
    ASSUME Inv, FlawlessStack(stack, w), stack # <<>>
    PROVE  /\ Top.fn \notin Told => \A q \in DOMAIN stack : q > 1 => stack[q].fn \notin Erring
           /\ ~w.destroyed => \A q \in DOMAIN stack : stack[q].fn \notin Erring
           /\ Top.fn \notin Told \cup Erring => ~Has(stack, Erring)
<1>1. stack \in Seq(Range(stack)) /\ Top = stack[1]
  BY StackFacts
<1>2. Top.fn \notin Told => \A q \in DOMAIN stack : q > 1 => stack[q].fn \notin Erring
  <2>1. Nested(stack, Erring, Told)
    BY DEF FlawlessStack
  <2> QED
    BY <1>1, <2>1, NestedBelow
<1>3. ~w.destroyed => \A q \in DOMAIN stack : stack[q].fn \notin Erring
  BY DEF FlawlessStack, Unharmed
<1>4. ASSUME Top.fn \notin Told \cup Erring PROVE ~Has(stack, Erring)
  <2>1. \A q \in DOMAIN stack : q = 1 \/ q > 1
    <3>1. DOMAIN stack = 1 .. Len(stack) /\ Len(stack) \in Nat
      BY <1>1, LenProperties
    <3> QED
      BY <3>1
  <2> QED
    BY <1>1, <1>2, <1>4, <2>1 DEF Has
<1> QED
  BY <1>2, <1>3, <1>4

LEMMA Balance ==
    \A a, b, h, l, k, d, e, g \in Int : a = b + h + l - k /\ d - e - g = a - b - h => d = e + g + l - k
  OBVIOUS

LEMMA AccountMoves ==
    ASSUME NEW v, NEW u, NEW h, NEW g, NEW k, {v.length, v.writelen, u.length, u.writelen, h, g, k} \subseteq Int,
           Len(v.buffered) \in Int, Len(u.buffered) = Len(v.buffered), Account(v, h, k),
           u.length - u.writelen - g = v.length - v.writelen - h
    PROVE  Account(u, g, k)
<1>1. v.length = v.writelen + h + Len(v.buffered) - k
  BY DEF Account
<1>2. /\ v.length \in Int /\ v.writelen \in Int /\ u.length \in Int /\ u.writelen \in Int
      /\ h \in Int /\ g \in Int /\ k \in Int /\ Len(v.buffered) \in Int
  OBVIOUS
<1>3. PICK a \in Int, b \in Int, l \in Int, d \in Int, e \in Int :
          a = v.length /\ b = v.writelen /\ l = Len(v.buffered) /\ d = u.length /\ e = u.writelen
  BY <1>2
<1>4. a = b + h + l - k
  BY <1>1, <1>3
<1>5. d - e - g = a - b - h
  BY <1>3
<1>6. d = e + g + l - k
  BY <1>2, <1>4, <1>5, Balance
<1>7. u.length = u.writelen + g + Len(v.buffered) - k
  BY <1>3, <1>6
<1> QED
  BY <1>7 DEF Account

LEMMA KeptStack ==
    ASSUME Inv, Inv', NEW c, Keeps(c), Sound, SoundStack(stack, w), KeepsSound(c)
    PROVE  SoundStack(stack', w')
<1>1. /\ stack \in Seq(Range(stack)) /\ stack # <<>> /\ c \in Seq(Range(c)) /\ stack' = c \o Tail(stack)
      /\ Top = stack[1] /\ 1 \in DOMAIN stack
  BY StackFacts DEF Keeps
<1>2. \A q \in DOMAIN stack : q > 1 => stack[q].fn \notin Hot
  BY NothingHot
<1>3. ~Has(c, Processing) /\ Nested(c, Processing, Calm) /\ Top.fn \notin Processing
  BY DEF Keeps, Has, Nested, Walking
<1>4. w.bufferProcessing <=> Has(stack, Processing)
  BY DEF SoundStack
<1>5. w.bufferProcessing => Top.fn \in Calm
  BY <1>1, <1>3, AboveLoops
<1>6. \A f : Sane(f, w) => Sane(f, w')
  BY DEF Keeps, SameBuffer, Sane, From, Reached
<1>7. \A q \in DOMAIN stack : q > 1 => Sane(stack[q], w')
  BY <1>6 DEF SoundStack
<1>8. ~w'.bufferProcessing => From(w', w'.bufferedIndex)
  BY DEF Keeps, SameBuffer, SoundStack, From
<1>9. w'.bufferProcessing = w.bufferProcessing
  BY DEF Keeps, SameBuffer
<1>10. w'.bufferProcessing <=> Has(c, Processing) \/ (Has(stack, Processing) /\ stack[1].fn \notin Processing)
  BY <1>1, <1>3, <1>4, <1>9
<1>11. stack[1].fn \in Calm /\ Has(stack, Processing) => \A i \in DOMAIN c : c[i].fn \in Calm
  BY <1>1, <1>4 DEF KeepsSound
<1>12. w'.bufferProcessing => ~w'.destroyed
  BY <1>5, <1>9 DEF KeepsSound
<1>13. /\ c # <<>> /\ w'.bufferProcessing /\ c[1].fn \in Asked => w'.sync
       /\ c # <<>> /\ c[1].fn = "doWrite" => ~w'.destroyed
       /\ \A i \in DOMAIN c : Sane(c[i], w')
  BY <1>9 DEF KeepsSound
<1> QED
  BY <1>1, <1>2, <1>3, <1>7, <1>8, <1>10, <1>11, <1>12, <1>13, SoundPut

LEMMA KeptFlawless ==
    ASSUME Inv, Inv', Details(w), NEW c, Keeps(c), Sound, FlawlessStack(stack, w), KeepsFlawless(c)
    PROVE  FlawlessStack(stack', w')
<1>1. /\ stack \in Seq(Range(stack)) /\ stack # <<>> /\ c \in Seq(Range(c)) /\ stack' = c \o Tail(stack)
      /\ Top = stack[1] /\ 1 \in DOMAIN stack /\ \A i \in DOMAIN stack : IsPiece(stack[i])
  BY StackFacts DEF Keeps
<1>2. \A q \in DOMAIN stack : q > 1 => stack[q].fn \notin Hot
  BY NothingHot
<1>3. Nested(c, Erring, Told)
  BY DEF Keeps, Nested, Walking
<1>4. stack[1].fn \in Told /\ Has(stack, Erring) => \A i \in DOMAIN c : c[i].fn \in Told
  <2>1. Has(stack, Erring) => w.destroyed
    BY DEF FlawlessStack, Unharmed, Has
  <2> QED
    BY <1>1, <2>1 DEF KeepsFlawless
<1>5. \A f : Unharmed(f, w) => Unharmed(f, w')
  BY DEF Keeps, SameBuffer, Unharmed
<1>6. \A q \in DOMAIN stack : q > 1 => Unharmed(stack[q], w')
  BY <1>5 DEF FlawlessStack
<1>7. \A i \in DOMAIN c : Unharmed(c[i], w')
  BY DEF KeepsFlawless
<1>8. First(c) \in Int /\ Handing(stack) \in Int
  <2>1. c # <<>> => stack' # <<>> /\ Head(stack') = c[1]
    BY <1>1, HeadPut
  <2>2. stack' # <<>> => IsPiece(Head(stack'))
    BY HeadIsFirst DEF Inv, Stacked
  <2> QED
    BY <1>1, <2>1, <2>2 DEF First, Handing, IsPiece, Top
<1>9. ASSUME NEW k \in Int, Account(w, Handing(stack), k) PROVE Account(w', First(c), k)
  <2>1. {w.length, w.writelen, w'.length, w'.writelen} \subseteq Int
    BY DEF Inv, Fields
  <2>2. Len(w.buffered) \in Int /\ Len(w'.buffered) = Len(w.buffered)
    BY LenProperties DEF Details, Keeps, SameBuffer
  <2>3. w'.length - w'.writelen - First(c) = w.length - w.writelen - Handing(stack)
    BY DEF KeepsFlawless
  <2> QED
    BY <1>8, <1>9, <2>1, <2>2, <2>3, AccountMoves
<1>10. \A f : Reached(f, w') = Reached(f, w)
  BY DEF Reached, Keeps, SameBuffer
<1>11. \A i \in DOMAIN stack : Reached(stack[i], w) \in Int
  BY <1>1, LenProperties DEF Reached, IsPiece, Details
<1>12. ASSUME NEW q \in DOMAIN stack, q > 1, stack[q].fn \in Walking
       PROVE  Account(w', First(c), Reached(stack[q], w'))
  BY <1>9, <1>10, <1>11, <1>12 DEF FlawlessStack
<1>13. ASSUME \A q \in DOMAIN stack : q > 1 => stack[q].fn \notin Walking
       PROVE  Account(w', First(c), w'.bufferedIndex)
  <2>1. \A q \in DOMAIN stack : q = 1 \/ q > 1
    <3>1. DOMAIN stack = 1 .. Len(stack) /\ Len(stack) \in Nat
      BY <1>1, LenProperties
    <3> QED
      BY <3>1
  <2>2. ~Has(stack, Walking)
    BY <1>1, <1>13, <2>1 DEF Has, Keeps
  <2>3. w.bufferedIndex \in Int /\ w'.bufferedIndex = w.bufferedIndex
    BY DEF Inv, Fields, Keeps, SameBuffer
  <2> QED
    BY <1>9, <2>2, <2>3 DEF FlawlessStack
<1>14. \A i \in DOMAIN c : c[i].fn \notin Walking
  BY DEF Keeps
<1>15. First(c) = IF c # <<>> /\ c[1].fn = "doWrite" THEN c[1].n ELSE 0
  BY DEF First
<1> QED
  BY <1>1, <1>2, <1>3, <1>4, <1>6, <1>7, <1>12, <1>13, <1>14, <1>15, FlawlessPut

LEMMA KeepsStep == ASSUME Inv, Inv', Booked, NEW c, Keeps(c) PROVE Booked'
<1>1. (Sound' => Sound) /\ (faults' = 0 => faults = 0)
  BY StillSound DEF Keeps, SameBuffer
<1>2. Details(w') /\ ops' \in Nat /\ (~w'.writing => w'.writelen = 0)
      /\ \A i \in DOMAIN ticks' : Harmless(ticks'[i])
  BY DEF Keeps
<1>3. ASSUME Sound' PROVE SoundStack(stack', w') /\ Bearing'
  <2>1. Sound /\ SoundStack(stack, w) /\ KeepsSound(c)
    BY <1>1, <1>3 DEF Booked, Keeps
  <2> QED
    BY <2>1, KeptStack DEF KeepsSound
<1>4. ASSUME faults' = 0 PROVE Flawless'
  <2>1. Sound /\ FlawlessStack(stack, w) /\ KeepsFlawless(c) /\ Details(w)
    BY <1>1, <1>4 DEF Booked, Flawless, Keeps, Sound
  <2>2. FlawlessStack(stack', w')
    BY <2>1, KeptFlawless
  <2> QED
    BY <2>1, <2>2 DEF KeepsFlawless, Flawless
<1> QED
  BY <1>2, <1>3, <1>4 DEF Booked

\* Those steps that have nothing to do with a write either.
SameBook ==
    /\ SameBuffer /\ Details(w')
    /\ w'.writing = w.writing /\ w'.writecb = w.writecb
    /\ w'.writelen = w.writelen /\ w'.length = w.length
SameTicks ==
    /\ \A i \in DOMAIN ticks' : Harmless(ticks'[i])
    /\ faults' = 0 => \A i \in DOMAIN ticks' : Unharmed(ticks'[i], w')
SameOwed ==
    /\ Writes' = Writes /\ ops' \in Nat
    /\ faults' = 0 => \A a \in owed' : a.fn = "onwrite" => a.err = None
Low(f) ==
    /\ f.fn \notin Walking \cup Asked \cup {"doWrite"} /\ Sane(f, w')
    /\ faults' = 0 => Unharmed(f, w') /\ (Top.fn \in Told /\ w.destroyed => f.fn \in Told)
Lows(c) == \E T : c \in Seq(T) /\ \A f \in T : Low(f)
Aside ==
    /\ stack # <<>> /\ Top.fn \notin Walking \cup Asked \cup {"doWrite"}
    /\ SameBook /\ SameTicks /\ SameOwed
    /\ \E c : /\ Lows(c) /\ stack' = c \o Tail(stack)
              /\ Top.fn \in Calm => c = <<>> /\ w'.destroyed = w.destroyed

LEMMA AsideStep == ASSUME Inv, Inv', Booked, Aside PROVE Booked'
<1>1. PICK c : /\ Lows(c) /\ stack' = c \o Tail(stack)
               /\ Top.fn \in Calm => c = <<>> /\ w'.destroyed = w.destroyed
  BY DEF Aside
<1>2. c \in Seq(Range(c)) /\ \A i \in DOMAIN c : Low(c[i])
  <2>1. PICK T : c \in Seq(T) /\ \A f \in T : Low(f)
    BY <1>1 DEF Lows
  <2>2. \A i \in DOMAIN c : c[i] \in T
    BY <2>1
  <2> QED
    BY <2>1, <2>2, OfItsRange
<1>3. stack # <<>> /\ Top.fn \notin Walking \cup Asked \cup {"doWrite"} /\ SameBook /\ SameTicks /\ SameOwed
  BY DEF Aside
<1>4. Sound' => Sound
  BY <1>3, StillSound DEF SameBook, SameBuffer
<1>5. ASSUME Sound' PROVE KeepsSound(c)
  <2>1. SoundStack(stack, w) /\ Bearing
    BY <1>4, <1>5 DEF Booked
  <2>2. Bearing'
    BY <1>3, <2>1 DEF Bearing, SameBook, SameBuffer, SameOwed, Trusted
  <2>3. \A i \in DOMAIN c : Sane(c[i], w') /\ c[i].fn \notin Asked \cup {"doWrite"}
    BY <1>2 DEF Low
  <2>4. c # <<>> => 1 \in DOMAIN c
    BY <1>2, EmptySeq, LenProperties
  <2>5. w.bufferProcessing => ~w.destroyed
    BY <2>1 DEF SoundStack
  <2>6. Top.fn \in Calm /\ w.bufferProcessing => ~w'.destroyed /\ \A i \in DOMAIN c : c[i].fn \in Calm
    BY <1>1, <2>5
  <2> QED
    BY <2>2, <2>3, <2>4, <2>6 DEF KeepsSound
<1>6. ASSUME faults' = 0 PROVE KeepsFlawless(c)
  <2>1. \A i \in DOMAIN c : Unharmed(c[i], w') /\ (Top.fn \in Told /\ w.destroyed => c[i].fn \in Told)
    BY <1>2, <1>6 DEF Low
  <2>2. First(c) = 0
    <3>1. c # <<>> => 1 \in DOMAIN c
      BY <1>2, EmptySeq, LenProperties
    <3> QED
      BY <1>2, <3>1 DEF First, Low
  <2>3. Handing(stack) = 0
    BY <1>3 DEF Handing, Top
  <2>4. w'.length - w'.writelen - First(c) = w.length - w.writelen - Handing(stack)
    BY <1>3, <2>2, <2>3 DEF SameBook
  <2> QED
    BY <1>3, <1>6, <2>1, <2>4 DEF KeepsFlawless, SameTicks, SameOwed
<1>7. Keeps(c)
  <2>1. \A i \in DOMAIN c : c[i].fn \notin Walking
    BY <1>2 DEF Low
  <2>2. ~w'.writing => w'.writelen = 0
    BY <1>3 DEF SameBook, Booked
  <2> QED
    BY <1>1, <1>2, <1>3, <1>5, <1>6, <2>1, <2>2 DEF Keeps, SameBook, SameTicks, SameOwed
<1> QED
  BY <1>7, KeepsStep

\* Sequences of such pieces.
LEMMA LowsOf == ASSUME NEW T, NEW c, c \in Seq(T), \A f \in T : Low(f) PROVE Lows(c)
  BY Zenon DEF Lows

LEMMA LowSequences ==
    /\ Lows(<<>>)
    /\ \A a : Low(a) => Lows(<<a>>)
    /\ \A a, b : Low(a) /\ Low(b) => Lows(<<a, b>>)
    /\ \A a, b, c : Low(a) /\ Low(b) /\ Low(c) => Lows(<<a, b, c>>)
    /\ \A a, b : Lows(a) /\ Lows(b) => Lows(a \o b)
    /\ \A a : \A n \in Int : Low(a) => Lows([i \in 1 .. n |-> a])
<1>1. Lows(<<>>)
  <2>1. PICK T, c : T = {} /\ c = <<>>
    OBVIOUS
  <2>2. c \in Seq(T)
    BY <2>1
  <2>3. \A f \in T : Low(f)
    BY <2>1
  <2>4. Lows(c)
    BY <2>2, <2>3, LowsOf
  <2> QED
    BY <2>1, <2>4
<1>2. ASSUME NEW a, Low(a) PROVE Lows(<<a>>)
  <2>1. PICK T, c : T = {a} /\ c = <<a>>
    OBVIOUS
  <2>2. c \in Seq(T)
    BY <2>1
  <2>3. \A f \in T : Low(f)
    BY <1>2, <2>1
  <2>4. Lows(c)
    BY <2>2, <2>3, LowsOf
  <2> QED
    BY <2>1, <2>4
<1>3. ASSUME NEW a, NEW b, Low(a), Low(b) PROVE Lows(<<a, b>>)
  <2>1. PICK T, c : T = {a, b} /\ c = <<a, b>>
    OBVIOUS
  <2>2. c \in Seq(T)
    BY <2>1
  <2>3. \A f \in T : Low(f)
    BY <1>3, <2>1
  <2>4. Lows(c)
    BY <2>2, <2>3, LowsOf
  <2> QED
    BY <2>1, <2>4
<1>4. ASSUME NEW a, NEW b, NEW d, Low(a), Low(b), Low(d) PROVE Lows(<<a, b, d>>)
  <2>1. PICK T, c : T = {a, b, d} /\ c = <<a, b, d>>
    OBVIOUS
  <2>2. c \in Seq(T)
    BY <2>1
  <2>3. \A f \in T : Low(f)
    BY <1>4, <2>1
  <2>4. Lows(c)
    BY <2>2, <2>3, LowsOf
  <2> QED
    BY <2>1, <2>4
<1>5. ASSUME NEW a, NEW b, Lows(a), Lows(b) PROVE Lows(a \o b)
  <2>1. PICK S : a \in Seq(S) /\ \A f \in S : Low(f)
    BY <1>5 DEF Lows
  <2>2. PICK T : b \in Seq(T) /\ \A f \in T : Low(f)
    BY <1>5 DEF Lows
  <2>3. PICK U, c : U = S \cup T /\ c = a \o b
    OBVIOUS
  <2>4. a \in Seq(U) /\ b \in Seq(U)
    BY <2>1, <2>2, <2>3, SeqMonotonic
  <2>5. c \in Seq(U)
    BY <2>3, <2>4, ConcatProperties
  <2>6. \A f \in U : Low(f)
    BY <2>1, <2>2, <2>3
  <2>7. Lows(c)
    BY <2>5, <2>6, LowsOf
  <2> QED
    BY <2>3, <2>7
<1>6. ASSUME NEW a, NEW n \in Int, Low(a) PROVE Lows([i \in 1 .. n |-> a])
  <2>1. PICK T, c : T = {a} /\ c = [i \in 1 .. n |-> a]
    OBVIOUS
  <2>2. c \in Seq(T)
    <3>1. CASE n \in Nat
      BY <2>1, <3>1
    <3>2. CASE n \notin Nat
      <4>1. 1 .. n = 1 .. 0
        BY <3>2
      <4> QED
        BY <2>1, <4>1
    <3> QED
      BY <3>1, <3>2
  <2>3. \A f \in T : Low(f)
    BY <1>6, <2>1
  <2>4. Lows(c)
    BY <2>2, <2>3, LowsOf
  <2> QED
    BY <2>1, <2>4
<1> QED
  BY <1>1, <1>2, <1>3, <1>4, <1>5, <1>6

\* ticks and owed.
LEMMA TicksStay == ASSUME Booked, SameBuffer, ticks' = ticks PROVE SameTicks
<1>1. \A f : Unharmed(f, w) => Unharmed(f, w')
  BY DEF SameBuffer, Unharmed
<1> QED
  BY <1>1 DEF Booked, Flawless, SameBuffer, SameTicks

LEMMA TicksLater ==
    ASSUME Inv, Booked, SameBuffer, NEW a, Harmless(a), faults' = 0 => Unharmed(a, w'), ticks' = Append(ticks, a)
    PROVE  SameTicks
<1>1. ticks \in Seq(Range(ticks))
  BY DEF Inv, Cold
<1>2. /\ Len(ticks) \in Nat /\ DOMAIN ticks = 1 .. Len(ticks)
      /\ DOMAIN ticks' = 1 .. Len(ticks) + 1
      /\ \A i \in 1 .. Len(ticks) : ticks'[i] = ticks[i]
      /\ ticks'[Len(ticks) + 1] = a
  BY <1>1, AppendProperties, LenProperties
<1>3. \A i \in DOMAIN ticks' : (i \in DOMAIN ticks /\ ticks'[i] = ticks[i]) \/ ticks'[i] = a
  BY <1>2
<1>4. \A f : Unharmed(f, w) => Unharmed(f, w')
  BY DEF SameBuffer, Unharmed
<1>5. \A i \in DOMAIN ticks' : Harmless(ticks'[i])
  BY <1>3 DEF Booked
<1>6. faults' = 0 => \A i \in DOMAIN ticks' : Unharmed(ticks'[i], w')
  BY <1>3, <1>4 DEF Booked, Flawless, SameBuffer
<1> QED
  BY <1>5, <1>6 DEF SameTicks

LEMMA OwedStays == ASSUME Booked, owed' = owed, ops' = ops, faults' = 0 => faults = 0 PROVE SameOwed
  BY DEF Booked, Flawless, SameOwed, Writes

\* Pieces that may come of anything.
LEMMA LowPieces ==
    /\ \A f : f.fn \notin Walking \cup Asked \cup {"doWrite", "write", "errorBuffer", "onwriteError"}
                 => /\ Harmless(f) /\ Unharmed(f, w')
                    /\ f.fn \in Told \/ Top.fn \notin Told \/ ~w.destroyed => Low(f)
    /\ \A f : f.fn = "errorBuffer" /\ w'.destroyed => Harmless(f) /\ Unharmed(f, w')
    /\ \A f : f.fn = "errorBuffer" /\ (faults' = 0 => w'.destroyed) /\ Top.fn \notin Told => Low(f)
<1>1. ASSUME NEW f, f.fn \notin Walking \cup Asked \cup {"doWrite", "write", "errorBuffer", "onwriteError"}
      PROVE  /\ Harmless(f) /\ Unharmed(f, w')
             /\ f.fn \in Told \/ Top.fn \notin Told \/ ~w.destroyed => Low(f)
  <2>1. Harmless(f)
    BY <1>1 DEF Harmless
  <2>2. Unharmed(f, w')
    BY <1>1 DEF Unharmed, Walking, Erring, Asked
  <2>3. Sane(f, w')
    BY <1>1 DEF Sane, Walking, Processing
  <2> QED
    BY <1>1, <2>1, <2>2, <2>3 DEF Low
<1>2. ASSUME NEW f, f.fn = "errorBuffer"
      PROVE  /\ w'.destroyed => Harmless(f) /\ Unharmed(f, w')
             /\ (faults' = 0 => w'.destroyed) /\ Top.fn \notin Told => Low(f)
  <2>1. f.fn \notin Walking \cup Asked \cup {"doWrite"} /\ Harmless(f)
    BY <1>2 DEF Walking, Processing, Erring, Asked, Harmless
  <2>2. w'.destroyed => Unharmed(f, w')
    BY <1>2 DEF Unharmed, Erring
  <2>3. Sane(f, w')
    BY <1>2 DEF Sane, Processing
  <2> QED
    BY <2>1, <2>2, <2>3 DEF Low
<1> QED
  BY <1>1, <1>2

\* Those the handlers make.
LEMMA LowMade ==
    /\ Low(User) /\ \A ev : Low(Emit(ev))
    /\ \A cb, er : Low(Callback(cb, er))
    /\ \A f, er :
          (/\ f \notin Walking \cup Asked \cup {"doWrite", "write", "errorBuffer", "onwriteError"}
           /\ f \in Told \/ Top.fn \notin Told \/ ~w.destroyed)
          => Low(Do(f)) /\ Low(Err(f, er))
<1>1. \A x : x.fn \in {"user", "emit", "callback"} => Low(x)
  BY LowPieces DEF Walking, Processing, Erring, Asked, Told
<1>2. \A f, er : Do(f).fn = f /\ Err(f, er).fn = f
  BY PieceFields
<1>3. ASSUME NEW f, NEW er,
             f \notin Walking \cup Asked \cup {"doWrite", "write", "errorBuffer", "onwriteError"},
             f \in Told \/ Top.fn \notin Told \/ ~w.destroyed
      PROVE  Low(Do(f)) /\ Low(Err(f, er))
  <2>1. PICK x, y : x = Do(f) /\ y = Err(f, er)
    OBVIOUS
  <2>2. x.fn = f /\ y.fn = f
    BY <1>2, <2>1
  <2>3. Low(x) /\ Low(y)
    BY <1>3, <2>2, LowPieces
  <2> QED
    BY <2>1, <2>3
<1>4. ASSUME NEW cb, NEW er PROVE Low(User) /\ Low(Emit(er)) /\ Low(Callback(cb, er))
  <2>1. PICK x, y, z : x = User /\ y = Emit(er) /\ z = Callback(cb, er)
    OBVIOUS
  <2>2. x.fn = "user" /\ y.fn = "emit" /\ z.fn = "callback"
    BY <2>1, PieceFields
  <2>3. Low(x) /\ Low(y) /\ Low(z)
    BY <1>1, <2>2
  <2> QED
    BY <2>1, <2>3
<1>5. Low(User) /\ (\A ev : Low(Emit(ev))) /\ \A cb, er : Low(Callback(cb, er))
  BY <1>4, Zenon
<1>6. \A f, er :
         (/\ f \notin Walking \cup Asked \cup {"doWrite", "write", "errorBuffer", "onwriteError"}
          /\ f \in Told \/ Top.fn \notin Told \/ ~w.destroyed)
         => Low(Do(f)) /\ Low(Err(f, er))
  BY <1>3, Zenon
<1> QED
  BY <1>5, <1>6

-----------------------------------------------------------------------------
\* The handlers around a write.
LEMMA AsideWriteSteps ==
    ASSUME Inv, Booked,
           \/ EmitEvent \/ RunCallback \/ UserReturns \/ SyncFalse \/ Cork \/ Uncork
           \/ OnwriteSync \/ AfterWriteTick \/ AfterWrite
           \/ SettleWrite \/ AfterWriteEnd \/ OnwriteError
    PROVE  Aside
<1> USE DEF Runs, Then, Continue, Quiet, Set, client, log
<1>1. Details(w) /\ Fields(w)
  BY DEF Booked, Inv
<1>2. CASE EmitEvent
  <2>1. stack # <<>> /\ Top.fn = "emit" /\ w' = w /\ stack' = <<User>> \o Tail(stack)
    BY <1>2 DEF EmitEvent
  <2>2. SameBook
    BY <1>1, <1>2, <2>1 DEF EmitEvent, SameBook, SameBuffer
  <2>3. Low(User)
    BY <2>1, PieceFields, LowPieces DEF Walking, Processing, Erring, Asked, Told
  <2>4. SameTicks /\ SameOwed
    BY <1>2, <2>2, TicksStay, OwedStays DEF EmitEvent, SameBook
  <2>5. Lows(<<User>>)
    BY <2>3, LowSequences
  <2> QED
    BY <2>1, <2>2, <2>4, <2>5 DEF Aside, Walking, Processing, Erring, Asked, Calm
<1>3. CASE RunCallback
  <2>1. stack # <<>> /\ Top.fn = "callback" /\ w' = w
    BY <1>3 DEF RunCallback
  <2>2. SameBook
    BY <1>1, <1>3, <2>1 DEF RunCallback, SameBook, SameBuffer
  <2>3. Low(User) /\ \A cb, er : Low(Callback(cb, er))
    BY <2>1, PieceFields, LowPieces DEF Walking, Processing, Erring, Asked, Told
  <2>4. SameTicks /\ SameOwed
    BY <1>3, <2>2, TicksStay, OwedStays DEF RunCallback, SameBook
  <2>5. Lows(<<>>) /\ Lows(<<User, Callback(Tail(Top.cb), Top.err)>>)
    BY <2>3, LowSequences
  <2>6. \E c : Lows(c) /\ stack' = c \o Tail(stack)
    BY <1>3, <2>5 DEF RunCallback
  <2> QED
    BY <2>1, <2>2, <2>4, <2>6 DEF Aside, Walking, Processing, Erring, Asked, Calm
<1>4. CASE UserReturns
  <2>1. stack # <<>> /\ Top.fn = "user" /\ w' = w /\ stack' = <<>> \o Tail(stack)
    BY <1>4 DEF UserReturns
  <2>2. SameBook
    BY <1>1, <1>4, <2>1 DEF UserReturns, SameBook, SameBuffer
  <2>3. SameTicks /\ SameOwed
    BY <1>4, <2>2, TicksStay, OwedStays DEF UserReturns, SameBook
  <2> QED
    BY <2>1, <2>2, <2>3, LowSequences DEF Aside, Walking, Processing, Erring, Asked, Calm
<1>5. CASE SyncFalse
  <2>1. stack # <<>> /\ Top.fn = "syncFalse" /\ stack' = <<>> \o Tail(stack) /\ w' = [w EXCEPT !.sync = FALSE]
    BY <1>5 DEF SyncFalse
  <2>2. SameBook /\ w'.destroyed = w.destroyed
    BY <1>1, <1>5, <2>1 DEF SyncFalse, SameBook, SameBuffer, Details, Fields
  <2>3. SameTicks /\ SameOwed
    BY <1>5, <2>2, TicksStay, OwedStays DEF SyncFalse, SameBook
  <2> QED
    BY <2>1, <2>2, <2>3, LowSequences DEF Aside, Walking, Processing, Erring, Asked
<1>6. CASE Cork
  <2>1. stack # <<>> /\ Top.fn = "cork" /\ stack' = <<>> \o Tail(stack) /\ w' = [w EXCEPT !.corked = @ + 1]
    BY <1>6 DEF Cork
  <2>2. SameBook
    BY <1>1, <1>6, <2>1 DEF Cork, SameBook, SameBuffer, Details, Fields
  <2>3. SameTicks /\ SameOwed
    BY <1>6, <2>2, TicksStay, OwedStays DEF Cork, SameBook
  <2> QED
    BY <2>1, <2>2, <2>3, LowSequences DEF Aside, Walking, Processing, Erring, Asked, Calm
<1>7. CASE Uncork
  <2>1. /\ stack # <<>> /\ Top.fn = "uncork" /\ w' = [w EXCEPT !.corked = IF @ > 0 THEN @ - 1 ELSE 0]
        /\ stack' = (IF w.corked > 0 /\ ~w.writing THEN <<Do("clearBuffer")>> ELSE <<>>) \o Tail(stack)
    BY <1>7 DEF Uncork
  <2>2. SameBook
    BY <1>1, <1>7, <2>1 DEF Uncork, SameBook, SameBuffer, Details, Fields
  <2>3. SameTicks /\ SameOwed
    BY <1>7, <2>2, TicksStay, OwedStays DEF Uncork, SameBook
  <2>4. Low(Do("clearBuffer"))
    BY <2>1, PieceFields, LowPieces DEF Walking, Processing, Erring, Asked, Told
  <2>5. Lows(IF w.corked > 0 /\ ~w.writing THEN <<Do("clearBuffer")>> ELSE <<>>)
    BY <2>4, LowSequences
  <2> QED
    BY <2>1, <2>2, <2>3, <2>5 DEF Aside, Walking, Processing, Erring, Asked, Calm
<1>8. CASE OnwriteSync
  <2>1. stack # <<>> /\ Top.fn = "onwriteSync" /\ stack' = <<>> \o Tail(stack)
        /\ (w' = w \/ w' = [w EXCEPT !.tickInfo = TRUE])
    BY <1>8 DEF OnwriteSync
  <2>2. SameBook /\ w'.destroyed = w.destroyed /\ SameOwed
    BY <1>1, <1>8, <2>1, OwedStays DEF OnwriteSync, SameBook, SameBuffer, Details, Fields
  <2>3. SameTicks
    <3> DEFINE a == [Do("afterWriteTick") EXCEPT !.cb = Top.cb, !.n = 1]
    <3>1. a.fn = "afterWriteTick"
      BY DEF Do
    <3>2. Harmless(a) /\ Unharmed(a, w')
      BY <3>1, LowPieces DEF Walking, Processing, Erring, Asked
    <3>3. CASE ticks' = Append(ticks, a)
      <4> HIDE DEF a
      <4> QED
        BY <2>2, <3>2, <3>3, TicksLater DEF SameBook
    <3>4. CASE ticks' = [ticks EXCEPT ![LastTick].n = @ + 1]
      <4>1. DOMAIN ticks' = DOMAIN ticks
        BY <3>4
      <4>2. \A i \in DOMAIN ticks : \/ ticks'[i] = ticks[i]
                                    \/ ticks'[i] = [ticks[i] EXCEPT !.n = @ + 1]
        BY <3>4
      <4>3. \A i \in DOMAIN ticks : IsPiece(ticks[i]) /\ Harmless(ticks[i])
        BY DEF Inv, Cold, Booked
      <4>4. \A i \in DOMAIN ticks : ticks'[i].fn = ticks[i].fn /\ ticks'[i].err = ticks[i].err
        BY <4>2, <4>3 DEF IsPiece
      <4>5. \A i \in DOMAIN ticks : Harmless(ticks'[i])
        BY <4>3, <4>4 DEF Harmless
      <4>6. ASSUME faults' = 0, NEW i \in DOMAIN ticks PROVE Unharmed(ticks'[i], w')
        <5>1. Unharmed(ticks[i], w) /\ Harmless(ticks[i])
          BY <2>2, <4>3, <4>6 DEF Booked, Flawless, SameBook, SameBuffer
        <5>2. w'.destroyed = w.destroyed /\ ticks'[i].fn = ticks[i].fn /\ ticks'[i].err = ticks[i].err
          BY <2>2, <4>4
        <5> QED
          BY <5>1, <5>2 DEF Unharmed, Harmless, Walking, Erring
      <4> QED
        BY <4>1, <4>5, <4>6 DEF SameTicks
    <3> QED
      BY <1>8, <3>3, <3>4 DEF OnwriteSync, Later
  <2> QED
    BY <2>1, <2>2, <2>3, LowSequences DEF Aside, Walking, Processing, Erring, Asked
<1>9. CASE AfterWriteTick
  <2> DEFINE a == [Top EXCEPT !.fn = "afterWrite"]
  <2>1. stack # <<>> /\ Top.fn = "afterWriteTick" /\ stack' = <<a>> \o Tail(stack)
        /\ w' = [w EXCEPT !.tickInfo = FALSE]
    BY <1>9 DEF AfterWriteTick
  <2>2. SameBook
    BY <1>1, <1>9, <2>1 DEF AfterWriteTick, SameBook, SameBuffer, Details, Fields
  <2>3. SameTicks /\ SameOwed
    BY <1>9, <2>2, TicksStay, OwedStays DEF AfterWriteTick, SameBook
  <2>4. a.fn = "afterWrite"
    BY <2>1, TopFits DEF IsPiece
  <2>5. Low(a)
    BY <2>1, <2>4, LowPieces DEF Walking, Processing, Erring, Asked, Told
  <2> HIDE DEF a
  <2>6. Lows(<<a>>)
    BY <2>5, LowSequences
  <2> QED
    BY <2>1, <2>2, <2>3, <2>6 DEF Aside, Walking, Processing, Erring, Asked, Calm
<1>10. CASE AfterWrite
  <2> DEFINE a == [Top EXCEPT !.fn = "settleWrite"]
             settled == [i \in 1 .. Top.n |-> a]
  <2>1. stack # <<>> /\ Top.fn = "afterWrite" /\ w' = [w EXCEPT !.needDrain = @ /\ ~Drains]
        /\ stack' = ((IF Drains THEN <<Emit("drain")>> ELSE <<>>) \o settled
                     \o <<Do("afterWriteEnd")>>) \o Tail(stack)
    BY <1>10 DEF AfterWrite
  <2>2. SameBook
    BY <1>1, <1>10, <2>1 DEF AfterWrite, SameBook, SameBuffer, Details, Fields
  <2>3. SameTicks /\ SameOwed
    BY <1>10, <2>2, TicksStay, OwedStays DEF AfterWrite, SameBook
  <2>4. a.fn = "settleWrite" /\ Top.n \in Int
    BY <2>1, TopFits DEF IsPiece
  <2> HIDE DEF a
  <2>5. Low(a) /\ Low(Emit("drain")) /\ Low(Do("afterWriteEnd"))
    <3>1. Low(a)
      BY <2>1, <2>4, LowPieces DEF Walking, Processing, Erring, Asked, Told
    <3>2. Low(Emit("drain")) /\ Low(Do("afterWriteEnd"))
      BY <2>1, LowMade DEF Walking, Processing, Erring, Asked, Told
    <3> QED
      BY <3>1, <3>2
  <2>6. Lows(settled)
    BY <2>4, <2>5, LowSequences
  <2> HIDE DEF settled
  <2>7. Lows(IF Drains THEN <<Emit("drain")>> ELSE <<>>) /\ Lows(<<Do("afterWriteEnd")>>)
    BY <2>5, LowSequences
  <2>8. Lows((IF Drains THEN <<Emit("drain")>> ELSE <<>>) \o settled \o <<Do("afterWriteEnd")>>)
    BY <2>6, <2>7, LowSequences
  <2> QED
    BY <2>1, <2>2, <2>3, <2>8 DEF Aside, Walking, Processing, Erring, Asked, Calm
<1>11. CASE SettleWrite
  <2>1. stack # <<>> /\ Top.fn = "settleWrite" /\ w' = [w EXCEPT !.pendingcb = @ - 1]
        /\ stack' = <<Callback(Top.cb, None)>> \o Tail(stack)
    BY <1>11 DEF SettleWrite
  <2>2. SameBook
    BY <1>1, <1>11, <2>1 DEF SettleWrite, SameBook, SameBuffer, Details, Fields
  <2>3. SameTicks /\ SameOwed
    BY <1>11, <2>2, TicksStay, OwedStays DEF SettleWrite, SameBook
  <2>4. Low(Callback(Top.cb, None))
    BY <2>1, PieceFields, LowPieces DEF Walking, Processing, Erring, Asked, Told
  <2>5. Lows(<<Callback(Top.cb, None)>>)
    BY <2>4, LowSequences
  <2> QED
    BY <2>1, <2>2, <2>3, <2>5 DEF Aside, Walking, Processing, Erring, Asked, Calm
<1>12. CASE AfterWriteEnd
  <2>1. stack # <<>> /\ Top.fn = "afterWriteEnd" /\ w' = w
        /\ stack' = ((IF w.destroyed THEN <<Do("errorBuffer")>> ELSE <<>>) \o <<Do("finishMaybe")>>)
                    \o Tail(stack)
    BY <1>12 DEF AfterWriteEnd
  <2>2. SameBook
    BY <1>1, <1>12, <2>1 DEF AfterWriteEnd, SameBook, SameBuffer
  <2>3. SameTicks /\ SameOwed
    BY <1>12, <2>2, TicksStay, OwedStays DEF AfterWriteEnd, SameBook
  <2>4. (w.destroyed => Low(Do("errorBuffer"))) /\ Low(Do("finishMaybe"))
    BY <2>1, PieceFields, LowPieces DEF Walking, Processing, Erring, Asked, Told
  <2>5. Lows(IF w.destroyed THEN <<Do("errorBuffer")>> ELSE <<>>) /\ Lows(<<Do("finishMaybe")>>)
    BY <2>4, LowSequences
  <2>6. Lows((IF w.destroyed THEN <<Do("errorBuffer")>> ELSE <<>>) \o <<Do("finishMaybe")>>)
    BY <2>5, LowSequences
  <2> QED
    BY <2>1, <2>2, <2>3, <2>6 DEF Aside, Walking, Processing, Erring, Asked, Calm
<1>13. CASE OnwriteError
  <2>1. stack # <<>> /\ Top.fn = "onwriteError" /\ w' = [w EXCEPT !.pendingcb = @ - 1]
        /\ stack' = <<Callback(Top.cb, Top.err), Do("errorBuffer"), Err("errorOrDestroy", Top.err)>>
                    \o Tail(stack)
    BY <1>13 DEF OnwriteError
  <2>2. SameBook
    BY <1>1, <1>13, <2>1 DEF OnwriteError, SameBook, SameBuffer, Details, Fields
  <2>3. SameTicks /\ SameOwed
    BY <1>13, <2>2, TicksStay, OwedStays DEF OnwriteError, SameBook
  <2>4. faults' # 0
    <3>1. Top = stack[1] /\ 1 \in DOMAIN stack
      BY <2>1, StackFacts
    <3> QED
      BY <2>1, <2>2, <3>1 DEF Booked, Flawless, FlawlessStack, Unharmed, SameBook, SameBuffer
  <2>5. Low(Callback(Top.cb, Top.err)) /\ Low(Do("errorBuffer")) /\ Low(Err("errorOrDestroy", Top.err))
    BY <2>1, <2>4, PieceFields, LowPieces DEF Walking, Processing, Erring, Asked, Told
  <2>6. Lows(<<Callback(Top.cb, Top.err), Do("errorBuffer"), Err("errorOrDestroy", Top.err)>>)
    BY <2>5, LowSequences
  <2> QED
    BY <2>1, <2>2, <2>3, <2>6 DEF Aside, Walking, Processing, Erring, Asked, Calm
<1> QED
  BY <1>2, <1>3, <1>4, <1>5, <1>6, <1>7, <1>8, <1>9, <1>10, <1>11, <1>12, <1>13

\* Those around end.
LEMMA AsideEndSteps ==
    ASSUME Inv, Booked,
           \/ End \/ EndOnce \/ Ended \/ EndCallback \/ FinishMaybe \/ FinishIfSettled
           \/ Prefinish \/ (OnFinish /\ ~(w.onFinishCalled /\ Top.err = None)) \/ ErrorOrDestroyIfSync
           \/ FinishLater \/ Finish \/ (ErrorBuffer /\ w.writing)
    PROVE  Aside
<1> USE DEF Runs, Then, Continue, Quiet, Set, client, log
<1>1. Details(w) /\ Fields(w)
  BY DEF Booked, Inv
<1>2. CASE End
  <2> DEFINE a == [Top EXCEPT !.fn = "endOnce"]
             cleared == IF w.corked > 0 /\ ~w.writing THEN <<Do("clearBuffer")>> ELSE <<>>
  <2>1. stack # <<>> /\ Top.fn = "end" /\ w' = [w EXCEPT !.corked = 0] /\ stack' = (cleared \o <<a>>) \o Tail(stack)
    BY <1>2 DEF End
  <2>2. SameBook
    BY <1>1, <1>2, <2>1 DEF End, SameBook, SameBuffer, Details, Fields
  <2>3. SameTicks /\ SameOwed
    BY <1>2, <2>2, TicksStay, OwedStays DEF End, SameBook
  <2>4. a.fn = "endOnce"
    BY <2>1, TopFits DEF IsPiece
  <2> HIDE DEF a
  <2>5. Low(a)
    BY <2>1, <2>4, LowPieces DEF Walking, Processing, Erring, Asked, Told
  <2>6. Low(Do("clearBuffer"))
    BY <2>1, PieceFields, LowPieces DEF Walking, Processing, Erring, Asked, Told
  <2>7. Lows(cleared) /\ Lows(<<a>>)
    BY <2>5, <2>6, LowSequences
  <2> HIDE DEF cleared
  <2>8. Lows(cleared \o <<a>>)
    BY <2>7, LowSequences
  <2> QED
    BY <2>1, <2>2, <2>3, <2>8 DEF Aside, Walking, Processing, Erring, Asked, Calm
<1>3. CASE EndOnce
  <2> DEFINE rest(er) == [Top EXCEPT !.fn = "endCallback", !.err = er]
  <2>1. stack # <<>> /\ Top.fn = "endOnce" /\ (w' = w \/ w' = [w EXCEPT !.ending = TRUE])
    BY <1>3 DEF EndOnce
  <2>2. SameBook
    BY <1>1, <1>3, <2>1 DEF EndOnce, SameBook, SameBuffer, Details, Fields
  <2>3. SameTicks /\ SameOwed
    BY <1>3, <2>2, TicksStay, OwedStays DEF EndOnce, SameBook
  <2>4. \E er : stack' = <<rest(er)>> \o Tail(stack)
                \/ stack' = <<Do("finishMaybeSync"), Do("ended"), rest(er)>> \o Tail(stack)
    BY <1>3 DEF EndOnce
  <2>5. \A er : rest(er).fn = "endCallback"
    BY <2>1, TopFits DEF IsPiece
  <2> HIDE DEF rest
  <2>6. \A er : Low(rest(er))
    BY <2>1, <2>5, LowPieces DEF Walking, Processing, Erring, Asked, Told
  <2>7. Low(Do("finishMaybeSync")) /\ Low(Do("ended"))
    BY <2>1, PieceFields, LowPieces DEF Walking, Processing, Erring, Asked, Told
  <2>8. \A er : Lows(<<rest(er)>>) /\ Lows(<<Do("finishMaybeSync"), Do("ended"), rest(er)>>)
    BY <2>6, <2>7, LowSequences, Zenon
  <2>9. \E c : Lows(c) /\ stack' = c \o Tail(stack)
    BY <2>4, <2>8
  <2> QED
    BY <2>1, <2>2, <2>3, <2>9 DEF Aside, Walking, Processing, Erring, Asked, Calm
<1>4. CASE Ended
  <2>1. stack # <<>> /\ Top.fn = "ended" /\ stack' = <<>> \o Tail(stack) /\ w' = [w EXCEPT !.ended = TRUE]
    BY <1>4 DEF Ended
  <2>2. SameBook
    BY <1>1, <1>4, <2>1 DEF Ended, SameBook, SameBuffer, Details, Fields
  <2>3. SameTicks /\ SameOwed
    BY <1>4, <2>2, TicksStay, OwedStays DEF Ended, SameBook
  <2> QED
    BY <2>1, <2>2, <2>3, LowSequences DEF Aside, Walking, Processing, Erring, Asked, Calm
<1>5. CASE EndCallback
  <2>1. stack # <<>> /\ Top.fn = "endCallback" /\ stack' = <<>> \o Tail(stack)
        /\ (w' = w \/ w' = [w EXCEPT !.onFinished = @ \o Top.cb])
    BY <1>5 DEF EndCallback
  <2>2. SameBook /\ SameOwed
    BY <1>1, <1>5, <2>1, OwedStays DEF EndCallback, SameBook, SameBuffer, Details, Fields
  <2>3. SameTicks
    <3>1. Harmless(Callback(Top.cb, Top.err)) /\ Unharmed(Callback(Top.cb, Top.err), w')
      BY PieceFields, LowPieces DEF Walking, Processing, Erring, Asked
    <3> QED
      BY <1>5, <2>2, <3>1, TicksStay, TicksLater DEF EndCallback, Later, SameBook
  <2> QED
    BY <2>1, <2>2, <2>3, LowSequences DEF Aside, Walking, Processing, Erring, Asked, Calm
<1>6. CASE FinishMaybe
  <2>1. stack # <<>> /\ Top.fn \in {"finishMaybe", "finishMaybeSync"} /\ w' = w
        /\ stack' = (IF NeedFinish(w) THEN <<Do("prefinish"), Err("finishIfSettled", Top.fn)>> ELSE <<>>)
                    \o Tail(stack)
    BY <1>6 DEF FinishMaybe
  <2>2. SameBook
    BY <1>1, <1>6, <2>1 DEF FinishMaybe, SameBook, SameBuffer
  <2>3. SameTicks /\ SameOwed
    BY <1>6, <2>2, TicksStay, OwedStays DEF FinishMaybe, SameBook
  <2>4. Low(Do("prefinish")) /\ Low(Err("finishIfSettled", Top.fn))
    BY <2>1, PieceFields, LowPieces DEF Walking, Processing, Erring, Asked, Told
  <2>5. Lows(IF NeedFinish(w) THEN <<Do("prefinish"), Err("finishIfSettled", Top.fn)>> ELSE <<>>)
    BY <2>4, LowSequences
  <2> QED
    BY <2>1, <2>2, <2>3, <2>5 DEF Aside, Walking, Processing, Erring, Asked, Calm
<1>7. CASE FinishIfSettled
  <2>1. stack # <<>> /\ Top.fn = "finishIfSettled" /\ (w' = w \/ w' = [w EXCEPT !.pendingcb = 1])
    BY <1>7 DEF FinishIfSettled
  <2>2. SameBook /\ SameOwed
    BY <1>1, <1>7, <2>1, OwedStays DEF FinishIfSettled, SameBook, SameBuffer, Details, Fields
  <2>3. SameTicks
    <3>1. Harmless(Do("finish")) /\ Unharmed(Do("finish"), w')
      BY PieceFields, LowPieces DEF Walking, Processing, Erring, Asked
    <3> QED
      BY <1>7, <2>2, <3>1, TicksStay, TicksLater DEF FinishIfSettled, Later, SameBook
  <2>4. Low(Do("finish"))
    BY <2>1, PieceFields, LowPieces DEF Walking, Processing, Erring, Asked, Told
  <2>5. Lows(<<>>) /\ Lows(<<Do("finish")>>)
    BY <2>4, LowSequences
  <2>6. \E c : Lows(c) /\ stack' = c \o Tail(stack)
    BY <1>7, <2>5 DEF FinishIfSettled
  <2> QED
    BY <2>1, <2>2, <2>3, <2>6 DEF Aside, Walking, Processing, Erring, Asked, Calm
<1>8. CASE Prefinish
  <2>1. stack # <<>> /\ Top.fn = "prefinish"
    BY <1>8 DEF Prefinish
  <2>2. SameBook
    BY <1>1, <1>8, <2>1 DEF Prefinish, SameBook, SameBuffer, Details, Fields
  <2>3. SameTicks /\ SameOwed
    BY <1>8, <2>2, TicksStay, OwedStays DEF Prefinish, SameBook
  <2>4. Low(Emit("prefinish")) /\ (~w.destroyed => Low(Do("sinkFinal")) /\ Low(Do("syncFalse")))
    BY <2>1, PieceFields, LowPieces DEF Walking, Processing, Erring, Asked, Told
  <2>5. /\ Lows(<<>>) /\ Lows(<<Emit("prefinish")>>)
        /\ ~w.destroyed => Lows(<<Do("sinkFinal"), Do("syncFalse")>>)
    BY <2>4, LowSequences
  <2>6. \E c : Lows(c) /\ stack' = c \o Tail(stack)
    BY <1>8, <2>5 DEF Prefinish
  <2> QED
    BY <2>1, <2>2, <2>3, <2>6 DEF Aside, Walking, Processing, Erring, Asked, Calm
<1>9. CASE OnFinish /\ ~(w.onFinishCalled /\ Top.err = None)
  <2>1. stack # <<>> /\ Top.fn = "onFinish"
    BY <1>9 DEF OnFinish
  <2>2. SameBook
    BY <1>1, <1>9, <2>1 DEF OnFinish, SameBook, SameBuffer, Details, Fields
  <2>3. SameTicks /\ SameOwed
    BY <1>9, <2>2, TicksStay, OwedStays DEF OnFinish, SameBook
  <2>4. /\ Low(Err("errorOrDestroy", Top.err)) /\ Low(Callback(w.onFinished, Top.err))
        /\ Low(Err("errorOrDestroy?", Top.err)) /\ Low(Emit("prefinish")) /\ Low(Do("finishLater"))
    BY <2>1, PieceFields, LowPieces DEF Walking, Processing, Erring, Asked, Told
  <2>5. /\ Lows(<<>>) /\ Lows(<<Err("errorOrDestroy", Top.err)>>)
        /\ Lows(<<Callback(w.onFinished, Top.err), Err("errorOrDestroy?", Top.err)>>)
        /\ Lows(<<Emit("prefinish"), Do("finishLater")>>)
    BY <2>4, LowSequences
  <2>6. \E c : Lows(c) /\ stack' = c \o Tail(stack)
    BY <1>9, <2>5 DEF OnFinish
  <2> QED
    BY <2>1, <2>2, <2>3, <2>6 DEF Aside, Walking, Processing, Erring, Asked, Calm
<1>10. CASE ErrorOrDestroyIfSync
  <2>1. stack # <<>> /\ Top.fn = "errorOrDestroy?" /\ w' = w
    BY <1>10 DEF ErrorOrDestroyIfSync
  <2>2. SameBook
    BY <1>1, <1>10, <2>1 DEF ErrorOrDestroyIfSync, SameBook, SameBuffer
  <2>3. SameTicks /\ SameOwed
    BY <1>10, <2>2, TicksStay, OwedStays DEF ErrorOrDestroyIfSync, SameBook
  <2>4. Low(Err("errorOrDestroySync", Top.err)) /\ Low(Err("errorOrDestroy", Top.err))
    BY <2>1, PieceFields, LowPieces DEF Walking, Processing, Erring, Asked, Told
  <2>5. Lows(<<Err("errorOrDestroySync", Top.err)>>) /\ Lows(<<Err("errorOrDestroy", Top.err)>>)
    BY <2>4, LowSequences
  <2>6. \E c : Lows(c) /\ stack' = c \o Tail(stack)
    BY <1>10, <2>5 DEF ErrorOrDestroyIfSync
  <2> QED
    BY <2>1, <2>2, <2>3, <2>6 DEF Aside, Walking, Processing, Erring, Asked, Calm
<1>11. CASE FinishLater
  <2>1. stack # <<>> /\ Top.fn = "finishLater" /\ stack' = <<>> \o Tail(stack)
        /\ w' = [w EXCEPT !.pendingcb = @ + 1]
    BY <1>11 DEF FinishLater
  <2>2. SameBook /\ SameOwed
    BY <1>1, <1>11, <2>1, OwedStays DEF FinishLater, SameBook, SameBuffer, Details, Fields
  <2>3. SameTicks
    <3>1. Harmless(Do("finish")) /\ Unharmed(Do("finish"), w')
      BY PieceFields, LowPieces DEF Walking, Processing, Erring, Asked
    <3> QED
      BY <1>11, <2>2, <3>1, TicksLater DEF FinishLater, Later, SameBook
  <2> QED
    BY <2>1, <2>2, <2>3, LowSequences DEF Aside, Walking, Processing, Erring, Asked, Calm
<1>12. CASE Finish
  <2> DEFINE told == <<Callback(w.onFinished, None), Emit("finish")>>
             over == IF w.stream.autoDestroy THEN <<Do("destroy")>> ELSE <<>>
  <2>1. stack # <<>> /\ Top.fn = "finish" /\ stack' = (told \o over) \o Tail(stack)
        /\ w' = [w EXCEPT !.pendingcb = @ - 1, !.finished = TRUE, !.onFinished = <<>>]
    BY <1>12 DEF Finish
  <2>2. SameBook
    BY <1>1, <1>12, <2>1 DEF Finish, SameBook, SameBuffer, Details, Fields
  <2>3. SameTicks /\ SameOwed
    BY <1>12, <2>2, TicksStay, OwedStays DEF Finish, SameBook
  <2>4. Low(Callback(w.onFinished, None)) /\ Low(Emit("finish")) /\ Low(Do("destroy"))
    BY <2>1, LowMade DEF Walking, Processing, Erring, Asked, Told
  <2>5. Lows(told) /\ Lows(over)
    BY <2>4, LowSequences
  <2> HIDE DEF told, over
  <2>6. Lows(told \o over)
    BY <2>5, LowSequences
  <2> QED
    BY <2>1, <2>2, <2>3, <2>6 DEF Aside, Walking, Processing, Erring, Asked, Calm
<1>13. CASE ErrorBuffer /\ w.writing
  <2>1. stack # <<>> /\ Top.fn = "errorBuffer" /\ w' = w /\ stack' = <<>> \o Tail(stack)
    BY <1>13 DEF ErrorBuffer
  <2>2. SameBook
    BY <1>1, <1>13, <2>1 DEF ErrorBuffer, SameBook, SameBuffer
  <2>3. SameTicks /\ SameOwed
    BY <1>13, <2>2, TicksStay, OwedStays DEF ErrorBuffer, SameBook
  <2> QED
    BY <2>1, <2>2, <2>3, LowSequences DEF Aside, Walking, Processing, Erring, Asked, Calm
<1> QED
  BY <1>2, <1>3, <1>4, <1>5, <1>6, <1>7, <1>8, <1>9, <1>10, <1>11, <1>12, <1>13

\* Those around errors and destroy, and those that wait for _construct.
LEMMA AsideDestroySteps ==
    ASSUME Inv, Booked,
           \/ OnConstruct \/ EmitConstruct \/ ErrorOrDestroy \/ Destroy \/ OnDestroy
           \/ EmitErrorClose \/ EmitError \/ EmitClose
    PROVE  Aside
<1> USE DEF Runs, Then, Continue, Quiet, Set, client, log
<1>1. Details(w) /\ Fields(w)
  BY DEF Booked, Inv
<1>2. CASE OnConstruct
  <2>1. stack # <<>> /\ Top.fn = "onConstruct"
        /\ (w' = w \/ w' = [w EXCEPT !.onConstructCalled = TRUE, !.constructed = TRUE])
    BY <1>2 DEF OnConstruct
  <2>2. SameBook /\ SameOwed
    BY <1>1, <1>2, <2>1, OwedStays DEF OnConstruct, SameBook, SameBuffer, Details, Fields
  <2>3. SameTicks
    <3>1. Harmless(Do("emitConstructNT")) /\ Unharmed(Do("emitConstructNT"), w')
      BY PieceFields, LowPieces DEF Walking, Processing, Erring, Asked
    <3>2. ticks' = ticks \/ ticks' = Append(ticks, Do("emitConstructNT"))
      BY <1>2 DEF OnConstruct, Later
    <3> QED
      BY <2>2, <3>1, <3>2, TicksStay, TicksLater DEF SameBook
  <2>4. \A er : Low(Err("errorOrDestroy", er)) /\ Low(Err("_destroy", er)) /\ Low(Err("errorOrDestroySync", er))
    BY <2>1, LowMade DEF Walking, Processing, Erring, Asked, Told
  <2>5. Lows(<<>>) /\ \A er : /\ Lows(<<Err("errorOrDestroy", er)>>) /\ Lows(<<Err("_destroy", er)>>)
                              /\ Lows(<<Err("errorOrDestroySync", er)>>)
    BY <2>4, LowSequences
  <2>6. \/ stack' = <<>> \o Tail(stack)
        \/ \E er : \/ stack' = <<Err("errorOrDestroy", er)>> \o Tail(stack)
                   \/ stack' = <<Err("_destroy", er)>> \o Tail(stack)
                   \/ stack' = <<Err("errorOrDestroySync", er)>> \o Tail(stack)
    BY <1>2 DEF OnConstruct
  <2>7. \E c : Lows(c) /\ stack' = c \o Tail(stack)
    BY <2>5, <2>6
  <2> QED
    BY <2>1, <2>2, <2>3, <2>7 DEF Aside, Walking, Processing, Erring, Asked, Calm
<1>3. CASE EmitConstruct
  <2> DEFINE cleared == IF w.writing THEN <<>> ELSE <<Do("clearBuffer")>>
  <2>1. stack # <<>> /\ Top.fn = "emitConstructNT" /\ w' = w
        /\ stack' = (cleared \o <<Do("finishMaybe")>>) \o Tail(stack)
    BY <1>3 DEF EmitConstruct
  <2>2. SameBook
    BY <1>1, <1>3, <2>1 DEF EmitConstruct, SameBook, SameBuffer
  <2>3. SameTicks /\ SameOwed
    BY <1>3, <2>2, TicksStay, OwedStays DEF EmitConstruct, SameBook
  <2>4. Low(Do("clearBuffer")) /\ Low(Do("finishMaybe"))
    BY <2>1, LowMade DEF Walking, Processing, Erring, Asked, Told
  <2>5. Lows(cleared) /\ Lows(<<Do("finishMaybe")>>)
    BY <2>4, LowSequences
  <2> HIDE DEF cleared
  <2>6. Lows(cleared \o <<Do("finishMaybe")>>)
    BY <2>5, LowSequences
  <2> QED
    BY <2>1, <2>2, <2>3, <2>6 DEF Aside, Walking, Processing, Erring, Asked, Calm
<1>4. CASE ErrorOrDestroy
  <2>1. stack # <<>> /\ Top.fn \in {"errorOrDestroy", "errorOrDestroySync"}
        /\ (w' = w \/ w' = [w EXCEPT !.errored = IF @ = None THEN Top.err ELSE @])
    BY <1>4 DEF ErrorOrDestroy
  <2>2. SameBook /\ SameOwed
    BY <1>1, <1>4, <2>1, OwedStays DEF ErrorOrDestroy, SameBook, SameBuffer, Details, Fields
  <2>3. SameTicks
    <3>1. Harmless(Err("emitErrorNT", Top.err)) /\ Unharmed(Err("emitErrorNT", Top.err), w')
      BY PieceFields, LowPieces DEF Walking, Processing, Erring, Asked
    <3>2. ticks' = ticks \/ ticks' = Append(ticks, Err("emitErrorNT", Top.err))
      BY <1>4 DEF ErrorOrDestroy, Later
    <3> QED
      BY <2>2, <3>1, <3>2, TicksStay, TicksLater DEF SameBook
  <2>4. /\ Low(Err("destroy", Top.err))
        /\ ~w.destroyed => Low(Err("emitErrorNT", Top.err))
    BY <2>1, LowMade DEF Walking, Processing, Erring, Asked, Told
  <2>5. /\ Lows(<<>>) /\ Lows(<<Err("destroy", Top.err)>>)
        /\ ~w.destroyed => Lows(<<Err("emitErrorNT", Top.err)>>)
    BY <2>4, LowSequences
  <2>6. \E c : Lows(c) /\ stack' = c \o Tail(stack)
    BY <1>4, <2>5 DEF ErrorOrDestroy
  <2> QED
    BY <2>1, <2>2, <2>3, <2>6 DEF Aside, Walking, Processing, Erring, Asked, Calm
<1>5. CASE Destroy
  <2>1. stack # <<>> /\ Top.fn = "destroy"
        /\ \/ w' = w
           \/ /\ ~w.destroyed
              /\ w' = [WithError(w, Top.err) EXCEPT !.destroyed = TRUE, !.destroyErr = Top.err]
    BY <1>5 DEF Destroy
  <2>2. SameBook /\ SameOwed
    BY <1>1, <1>5, <2>1, OwedStays DEF Destroy, WithError, SameBook, SameBuffer, Details, Fields
  <2>3. SameTicks
    <3>1. CASE ticks' = ticks
      BY <2>2, <3>1, TicksStay DEF SameBook
    <3>2. CASE ticks' = Append(ticks, Do("errorBuffer")) /\ w' # w
      <4>1. w'.destroyed
        BY <1>1, <2>1, <3>2 DEF WithError, Details
      <4>2. Harmless(Do("errorBuffer")) /\ Unharmed(Do("errorBuffer"), w')
        BY <4>1, PieceFields, LowPieces
      <4> QED
        BY <2>2, <3>2, <4>2, TicksLater DEF SameBook
    <3>3. ~w.destroyed => w' # w
      BY <1>1, <1>5 DEF Destroy, WithError, Details
    <3> QED
      BY <1>5, <3>1, <3>2, <3>3 DEF Destroy, Later
  <2>4. ~w.destroyed => Low(Err("_destroy", Top.err))
    BY <2>1, LowMade DEF Walking, Processing, Erring, Asked, Told
  <2>5. Lows(<<>>) /\ (~w.destroyed => Lows(<<Err("_destroy", Top.err)>>))
    BY <2>4, LowSequences
  <2>6. \E c : Lows(c) /\ stack' = c \o Tail(stack)
    BY <1>5, <2>5 DEF Destroy, DestroyWhen
  <2> QED
    BY <2>1, <2>2, <2>3, <2>6 DEF Aside, Walking, Processing, Erring, Asked, Calm
<1>6. CASE OnDestroy
  <2>1. stack # <<>> /\ Top.fn = "onDestroy" /\ stack' = <<>> \o Tail(stack)
        /\ (w' = w \/ w' = [WithError(w, Top.err) EXCEPT !.onDestroyCalled = TRUE, !.closed = TRUE])
    BY <1>6 DEF OnDestroy
  <2>2. SameBook /\ SameOwed
    BY <1>1, <1>6, <2>1, OwedStays DEF OnDestroy, WithError, SameBook, SameBuffer, Details, Fields
  <2>3. SameTicks
    <3>1. /\ Harmless(Err("emitErrorCloseNT", Top.err)) /\ Unharmed(Err("emitErrorCloseNT", Top.err), w')
          /\ Harmless(Do("emitCloseNT")) /\ Unharmed(Do("emitCloseNT"), w')
      BY PieceFields, LowPieces DEF Walking, Processing, Erring, Asked
    <3>2. \/ ticks' = ticks \/ ticks' = Append(ticks, Err("emitErrorCloseNT", Top.err))
          \/ ticks' = Append(ticks, Do("emitCloseNT"))
      BY <1>6 DEF OnDestroy, Later
    <3> QED
      BY <2>2, <3>1, <3>2, TicksStay, TicksLater DEF SameBook
  <2> QED
    BY <2>1, <2>2, <2>3, LowSequences DEF Aside, Walking, Processing, Erring, Asked, Calm
<1>7. CASE EmitErrorClose
  <2>1. stack # <<>> /\ Top.fn = "emitErrorCloseNT" /\ w' = w
        /\ stack' = <<Err("emitErrorNT", Top.err), Do("emitCloseNT")>> \o Tail(stack)
    BY <1>7 DEF EmitErrorClose
  <2>2. SameBook
    BY <1>1, <1>7, <2>1 DEF EmitErrorClose, SameBook, SameBuffer
  <2>3. SameTicks /\ SameOwed
    BY <1>7, <2>2, TicksStay, OwedStays DEF EmitErrorClose, SameBook
  <2>4. Low(Err("emitErrorNT", Top.err)) /\ Low(Do("emitCloseNT"))
    BY <2>1, LowMade DEF Walking, Processing, Erring, Asked, Told
  <2>5. Lows(<<Err("emitErrorNT", Top.err), Do("emitCloseNT")>>)
    BY <2>4, LowSequences
  <2> QED
    BY <2>1, <2>2, <2>3, <2>5 DEF Aside, Walking, Processing, Erring, Asked, Calm
<1>8. CASE EmitError
  <2>1. stack # <<>> /\ Top.fn = "emitErrorNT" /\ w' = [w EXCEPT !.errorEmitted = TRUE]
        /\ stack' = (IF w.errorEmitted THEN <<>> ELSE <<Emit("error")>>) \o Tail(stack)
    BY <1>8 DEF EmitError
  <2>2. SameBook
    BY <1>1, <1>8, <2>1 DEF EmitError, SameBook, SameBuffer, Details, Fields
  <2>3. SameTicks /\ SameOwed
    BY <1>8, <2>2, TicksStay, OwedStays DEF EmitError, SameBook
  <2>4. Lows(IF w.errorEmitted THEN <<>> ELSE <<Emit("error")>>)
    BY LowMade, LowSequences
  <2> QED
    BY <2>1, <2>2, <2>3, <2>4 DEF Aside, Walking, Processing, Erring, Asked, Calm
<1>9. CASE EmitClose
  <2>1. stack # <<>> /\ Top.fn = "emitCloseNT" /\ w' = [w EXCEPT !.closeEmitted = TRUE]
        /\ stack' = <<Emit("close")>> \o Tail(stack)
    BY <1>9 DEF EmitClose
  <2>2. SameBook
    BY <1>1, <1>9, <2>1 DEF EmitClose, SameBook, SameBuffer, Details, Fields
  <2>3. SameTicks /\ SameOwed
    BY <1>9, <2>2, TicksStay, OwedStays DEF EmitClose, SameBook
  <2>4. Lows(<<Emit("close")>>)
    BY LowMade, LowSequences
  <2> QED
    BY <2>1, <2>2, <2>3, <2>4 DEF Aside, Walking, Processing, Erring, Asked, Calm
<1> QED
  BY <1>2, <1>3, <1>4, <1>5, <1>6, <1>7, <1>8, <1>9

\* A call that is refused, and one of clearBuffer with nothing to clear.
LEMMA AsideRefused ==
    ASSUME Inv, Booked, (Write /\ (w.ending \/ w.destroyed)) \/ (ClearBuffer /\ w' = w)
    PROVE  Aside
<1> USE DEF Runs, Then, Continue, Quiet, Set, client, log
<1>1. Details(w) /\ Fields(w)
  BY DEF Booked, Inv
<1>2. CASE Write /\ (w.ending \/ w.destroyed)
  <2>1. PICK er : /\ stack # <<>> /\ Top.fn = "write" /\ w' = w
                  /\ stack' = <<Err("errorOrDestroySync", er)>> \o Tail(stack)
                  /\ ticks' = Append(ticks, Callback(Top.cb, er))
    BY <1>2 DEF Write, Later
  <2>2. SameBook /\ SameOwed
    BY <1>1, <1>2, <2>1, OwedStays DEF Write, SameBook, SameBuffer
  <2>3. SameTicks
    <3>1. Harmless(Callback(Top.cb, er)) /\ Unharmed(Callback(Top.cb, er), w')
      BY PieceFields, LowPieces DEF Walking, Processing, Erring, Asked
    <3> QED
      BY <2>1, <2>2, <3>1, TicksLater DEF SameBook
  <2>4. Low(Err("errorOrDestroySync", er))
    BY <2>1, LowMade DEF Walking, Processing, Erring, Asked, Told
  <2>5. Lows(<<Err("errorOrDestroySync", er)>>)
    BY <2>4, LowSequences
  <2> QED
    BY <2>1, <2>2, <2>3, <2>5 DEF Aside, Walking, Processing, Erring, Asked, Calm
<1>3. CASE ClearBuffer /\ w' = w
  <2>1. stack # <<>> /\ Top.fn = "clearBuffer" /\ w' = w
    BY <1>3 DEF ClearBuffer
  <2>2. stack' = <<>> \o Tail(stack)
    <3>1. ~w.bufferProcessing => /\ w' # [w EXCEPT !.bufferProcessing = TRUE, !.pendingcb = @ - CallbacksSaved]
                                 /\ w' # [w EXCEPT !.bufferProcessing = TRUE]
      BY <1>1, <2>1 DEF Details
    <3> QED
      BY <1>3, <3>1 DEF ClearBuffer
  <2>3. SameBook
    BY <1>1, <1>3, <2>1 DEF ClearBuffer, SameBook, SameBuffer
  <2>4. SameTicks /\ SameOwed
    BY <1>3, <2>3, TicksStay, OwedStays DEF ClearBuffer, SameBook
  <2> QED
    BY <2>1, <2>2, <2>3, <2>4, LowSequences DEF Aside, Walking, Processing, Erring, Asked
<1> QED
  BY <1>2, <1>3

\* The sink, when it is not given a chunk.
PutsAnswer(f) ==
    \/ stack' = <<>> \o Tail(stack)
    \/ \E e1 : stack' = <<Err(Answer[f], e1)>> \o Tail(stack)
    \/ \E e1, e2 : stack' = <<Err(Answer[f], e1), Err(Answer[f], e2)>> \o Tail(stack)
LEMMA AsideSinkSteps ==
    ASSUME Inv, Booked, SinkAnswersAtOnce \/ SinkKeeps \/ SinkThrows, Top.fn # "sinkWrite"
    PROVE  Aside
<1> USE DEF Runs, Then
<1>1. PICK f \in Calls \ {"sinkWrite"} :
         /\ stack # <<>> /\ Top.fn = f /\ w' = w /\ ticks' = ticks /\ ops' = ops
         /\ faults' \in {faults, faults + 1}
         /\ PutsAnswer(f)
         /\ owed' = owed \/ owed' = owed \cup {[Top EXCEPT !.fn = Answer[f], !.err = Passes(Top)]}
  <2>1. CASE SinkAnswersAtOnce
    <3>1. PICK f \in Calls :
             /\ Runs(f) /\ w' = w /\ ticks' = ticks /\ ops' = ops /\ owed' = owed
             /\ faults' \in {faults, faults + 1}
             /\ \/ Then(<<Err(Answer[f], Passes(Top))>>) \/ Then(<<Err(Answer[f], "sink")>>)
                \/ Then(<<Do(Answer[f]), Again(f)>>)
      BY <2>1 DEF SinkAnswersAtOnce, client, Fault
    <3>2. Do(Answer[f]) = Err(Answer[f], None)
      BY DEF Do, Err
    <3>3. PutsAnswer(f)
      BY <3>1, <3>2 DEF Again, PutsAnswer
    <3>4. f \in Calls \ {"sinkWrite"} /\ stack # <<>> /\ Top.fn = f
      BY <3>1
    <3> QED
      BY <3>1, <3>3, <3>4
  <2>2. CASE SinkKeeps
    <3>1. PICK f \in Calls :
             /\ Runs(f) /\ w' = w /\ ticks' = ticks /\ ops' = ops /\ faults' = faults
             /\ owed' = owed \cup {[Top EXCEPT !.fn = Answer[f], !.err = Passes(Top)]}
             /\ stack' = <<>> \o Tail(stack)
      BY <2>2, Zenon DEF SinkKeeps, client
    <3>2. f \in Calls \ {"sinkWrite"} /\ stack # <<>> /\ Top.fn = f /\ PutsAnswer(f)
      BY <3>1 DEF PutsAnswer
    <3> QED
      BY <3>1, <3>2
  <2>3. CASE SinkThrows
    <3>1. PICK f \in Calls :
              /\ Runs(f) /\ w' = w /\ ticks' = ticks /\ ops' = ops /\ owed' = owed
              /\ faults' \in {faults, faults + 1}
              /\ f # "sinkWrite" => \E e1 : stack' = <<Err(Answer[f], e1)>> \o Tail(stack)
      BY <2>3 DEF SinkThrows, client, Fault
    <3>2. f \in Calls \ {"sinkWrite"} /\ stack # <<>> /\ Top.fn = f /\ PutsAnswer(f)
      BY <3>1 DEF PutsAnswer
    <3> QED
      BY <3>1, <3>2
  <2> QED
    BY <2>1, <2>2, <2>3
<1>2. f \in {"sinkFinal", "constructNT", "_destroy"} /\ Answer[f] \in {"onFinish", "onConstruct", "onDestroy"}
  BY <1>1 DEF Calls, Answer
<1>3. SameBook
  <2>1. Details(w) /\ (faults' = 0 => faults = 0)
    BY <1>1, OneMore DEF Booked
  <2> QED
    BY <1>1, <2>1 DEF SameBook, SameBuffer
<1>4. SameTicks
  BY <1>1, <1>3, TicksStay DEF SameBook
<1>5. SameOwed
  <2>1. [Top EXCEPT !.fn = Answer[f], !.err = Passes(Top)].fn # "onwrite"
    BY <1>1, <1>2, TopFits DEF IsPiece
  <2>2. \A a \in owed' : a.fn = "onwrite" => a \in owed
    BY <1>1, <2>1
  <2>3. owed \subseteq owed'
    BY <1>1
  <2> QED
    BY <1>1, <1>3, <2>2, <2>3 DEF SameOwed, Writes, Booked, Flawless, SameBook, SameBuffer
<1>6. \A e1 : Low(Err(Answer[f], e1))
  BY <1>1, <1>2, LowMade DEF Walking, Processing, Erring, Asked, Told
<1>7. Lows(<<>>) /\ \A e1 : Lows(<<Err(Answer[f], e1)>>) /\ \A e2 : Lows(<<Err(Answer[f], e1), Err(Answer[f], e2)>>)
  BY <1>6, LowSequences, Zenon
<1>8. \E c : Lows(c) /\ stack' = c \o Tail(stack)
  BY <1>1, <1>7 DEF PutsAnswer
<1> QED
  BY <1>1, <1>2, <1>3, <1>4, <1>5, <1>8 DEF Aside, Walking, Processing, Erring, Asked, Calm

-----------------------------------------------------------------------------
\* What begins on an empty stack.
LEMMA FreshStep ==
    ASSUME Inv', Booked, stack = <<>>, w' = w, faults' = 0 => faults = 0, ops' \in Nat, SameTicks,
           \A i \in DOMAIN stack' : stack'[i].fn \notin Walking \cup {"doWrite"},
           Sound' => Bearing' /\ \A i \in DOMAIN stack' : Sane(stack'[i], w),
           faults' = 0 => /\ \A i \in DOMAIN stack' : Unharmed(stack'[i], w)
                          /\ \A a \in owed' : a.fn = "onwrite" => a.err = None
    PROVE  Booked'
<1>1. Sound' => Sound
  BY StillSound
<1>2. \A P : ~Has(stack, P)
  BY DEF Has
<1>3. stack' # <<>> => Head(stack') = stack'[1] /\ 1 \in DOMAIN stack'
  BY HeadIsFirst DEF Inv, Stacked
<1>4. stack' # <<>> => Head(stack').fn # "doWrite"
  BY <1>3
<1>5. ~Has(stack', Processing) /\ ~Has(stack', Walking) /\ Nested(stack', Processing, Calm) /\ Nested(stack', Erring, Told)
  BY DEF Has, Nested, Walking
<1>6. ASSUME Sound' PROVE SoundStack(stack', w')
  <2>1. SoundStack(stack, w)
    BY <1>1, <1>6 DEF Booked
  <2> QED
    BY <1>2, <1>4, <1>5, <1>6, <2>1 DEF SoundStack
<1>7. ASSUME faults' = 0 PROVE Flawless'
  <2>1. FlawlessStack(stack, w)
    BY <1>7 DEF Booked, Flawless
  <2>2. Account(w, 0, w.bufferedIndex)
    BY <1>2, <2>1 DEF FlawlessStack, Handing
  <2>3. Handing(stack') = 0
    BY <1>4 DEF Handing
  <2>4. \A i \in DOMAIN stack' : Unharmed(stack'[i], w) /\ stack'[i].fn \notin Walking
    BY <1>7
  <2>5. FlawlessStack(stack', w')
    BY <1>5, <2>2, <2>3, <2>4 DEF FlawlessStack
  <2> QED
    BY <1>7, <2>5 DEF Flawless, SameTicks
<1> QED
  BY <1>6, <1>7 DEF Booked, SameTicks

\* What an exception leaves.
LEMMA UnwoundStep ==
    ASSUME Inv, Booked, stack # <<>>, stack' = <<>>, w' = w, faults' = faults, SameTicks, SameOwed,
           Top.fn \notin Calm \cup Asked \cup Processing,
           faults = 0 => Top.fn \notin Told \cup Erring
    PROVE  Booked'
<1>1. Sound' => Sound
  BY StillSound
<1>2. \A P : ~Has(stack', P)
  BY DEF Has
<1>3. ASSUME Sound' PROVE SoundStack(stack', w') /\ Bearing'
  <2>1. SoundStack(stack, w) /\ Bearing /\ Sound
    BY <1>1, <1>3 DEF Booked
  <2>2. ~w.bufferProcessing
    BY <2>1, AboveLoops
  <2>3. SoundStack(stack', w')
    BY <1>2, <2>1, <2>2 DEF SoundStack, Nested
  <2>4. Bearing'
    BY <2>1 DEF Bearing, SameOwed, Trusted
  <2> QED
    BY <2>3, <2>4
<1>4. ASSUME faults' = 0 PROVE Flawless'
  <2>1. FlawlessStack(stack, w) /\ Sound /\ SoundStack(stack, w)
    BY <1>4 DEF Booked, Flawless, Sound
  <2>2. ~Has(stack, Erring) /\ ~Has(stack, Processing)
    BY <1>4, <2>1, AboveErrors, AboveLoops
  <2>3. ~Has(stack, Walking)
    BY <2>2 DEF Has, Walking
  <2>4. Handing(stack) = 0 /\ Handing(stack') = 0
    BY DEF Handing, Top, Calm
  <2>5. FlawlessStack(stack', w')
    BY <2>1, <2>3, <2>4 DEF FlawlessStack, Nested
  <2> QED
    BY <1>4, <2>5 DEF Flawless, SameTicks, SameOwed
<1> QED
  BY <1>3, <1>4 DEF Booked, SameTicks, SameOwed

LEMMA RunTickBook == ASSUME Inv, Inv', Booked, RunTick PROVE Booked'
<1>1. /\ stack = <<>> /\ stack' = <<Head(ticks)>> /\ ticks # <<>> /\ ticks' = Tail(ticks) /\ w' = w
      /\ ops' = ops /\ owed' = owed /\ faults' = faults
  BY DEF RunTick, client, log
<1>2. ticks \in Seq(Range(ticks))
  BY DEF Inv, Cold
<1>3. Head(ticks) = ticks[1] /\ 1 \in DOMAIN ticks
  BY <1>1, <1>2
<1>4. Len(ticks) \in Nat \ {0} /\ DOMAIN ticks = 1 .. Len(ticks)
  BY <1>1, <1>2, LenProperties, EmptySeq
<1>5. /\ Tail(ticks) \in Seq(Range(ticks)) /\ Len(Tail(ticks)) = Len(ticks) - 1
      /\ \A i \in 1 .. Len(Tail(ticks)) : Tail(ticks)[i] = ticks[i + 1]
  BY <1>1, <1>2, HeadTailProperties
<1>6. DOMAIN Tail(ticks) = 1 .. Len(Tail(ticks))
  BY <1>5, LenProperties
<1>7. \A i \in DOMAIN ticks' : i + 1 \in DOMAIN ticks /\ ticks'[i] = ticks[i + 1]
  BY <1>1, <1>4, <1>5, <1>6
<1>8. SameTicks
  BY <1>1, <1>7 DEF SameTicks, Booked, Flawless
<1>9. PICK a : a = Head(ticks)
  OBVIOUS
<1>10. Harmless(a) /\ (faults = 0 => Unharmed(a, w))
  BY <1>3, <1>9 DEF Booked, Flawless
<1>11. DOMAIN stack' = {1} /\ stack'[1] = a
  BY <1>1, <1>9
<1>12. \A i \in DOMAIN stack' : stack'[i].fn \notin Walking \cup {"doWrite"} /\ Sane(stack'[i], w)
  BY <1>10, <1>11 DEF Harmless, Sane, Walking, Processing
<1>13. Sound' => Bearing'
  BY <1>1, StillSound DEF Booked, Bearing, Trusted, Writes
<1>14. faults' = 0 => /\ \A i \in DOMAIN stack' : Unharmed(stack'[i], w)
                      /\ \A b \in owed' : b.fn = "onwrite" => b.err = None
  BY <1>1, <1>10, <1>11 DEF Booked, Flawless
<1>15. ops' \in Nat
  BY <1>1 DEF Booked
<1> QED
  BY <1>1, <1>8, <1>12, <1>13, <1>14, <1>15, FreshStep

LEMMA SinkLaterBook == ASSUME Inv, Inv', Booked, SinkAnswersLater PROVE Booked'
<1>1. PICK a \in owed :
         /\ stack = <<>> /\ w' = w /\ ticks' = ticks /\ ops' = ops /\ faults' \in {faults, faults + 1}
         /\ \/ stack' = <<a>> /\ owed' = owed \ {a}
            \/ stack' = <<Err(a.fn, "sink")>> /\ owed' = owed \ {a} /\ faults' = faults + 1
            \/ stack' = <<a>> /\ owed' = owed /\ Fault("twice")
  BY DEF SinkAnswersLater, Fault, client
<1>2. PICK x : x.fn = a.fn /\ stack' = <<x>> /\ (x = a \/ faults' = faults + 1)
  BY <1>1, PieceFields
<1>3. x.fn \in {"onwrite", "onFinish", "onConstruct", "onDestroy"}
  BY <1>2 DEF Inv, OwedFits
<1>4. faults \in Nat /\ faults' \in Nat /\ (faults' = 0 => faults = 0 /\ x = a)
  BY <1>1, <1>2 DEF Inv
<1>5. DOMAIN stack' = {1} /\ stack'[1] = x /\ stack' # <<>> /\ Head(stack') = x
  BY <1>2
<1>6. \A i \in DOMAIN stack' : stack'[i].fn \notin Walking \cup {"doWrite"} /\ Sane(stack'[i], w)
  BY <1>3, <1>5 DEF Sane, Walking, Processing, Erring
<1>7. SameTicks
  BY <1>1, <1>4 DEF SameTicks, Booked, Flawless
<1>8. ASSUME Sound' PROVE Bearing'
  <2>1. Sound /\ Bearing
    BY <1>1, <1>4, <1>8, StillSound DEF Booked
  <2>2. x.fn = "onwrite" => Top'.fn \in Asked
    BY <1>5 DEF Top, Asked
  <2>3. x.fn # "onwrite" => Writes' = Writes
    BY <1>1, <1>2 DEF Writes
  <2> QED
    BY <1>1, <1>5, <2>1, <2>2, <2>3 DEF Bearing, Trusted
<1>9. ASSUME faults' = 0
      PROVE  /\ \A i \in DOMAIN stack' : Unharmed(stack'[i], w)
             /\ \A b \in owed' : b.fn = "onwrite" => b.err = None
  <2>1. \A b \in owed : b.fn = "onwrite" => b.err = None
    BY <1>4, <1>9 DEF Booked, Flawless
  <2>2. Unharmed(x, w)
    BY <1>3, <1>4, <1>9, <2>1 DEF Unharmed, Erring
  <2> QED
    BY <1>1, <1>5, <2>1, <2>2
<1>10. ops' \in Nat
  BY <1>1 DEF Booked
<1> QED
  BY <1>1, <1>4, <1>6, <1>7, <1>8, <1>9, <1>10, FreshStep

\* The client calls on top of what called it.
LEMMA PutOn ==
    ASSUME NEW s, NEW c, s \in Seq(Range(s)), s # <<>>, c \in Seq(Range(c))
    PROVE  c \o s = (c \o <<Head(s)>>) \o Tail(s)
<1> DEFINE S == Range(s) \cup Range(c)
<1>1. s \in Seq(S) /\ c \in Seq(S) /\ Head(s) \in S
  <2>1. Head(s) = s[1] /\ 1 \in DOMAIN s
    BY HeadIsFirst
  <2> QED
    BY <2>1, SeqMonotonic DEF Range
<1> HIDE DEF S
<1>2. Tail(s) \in Seq(S) /\ <<Head(s)>> \in Seq(S) /\ s = <<Head(s)>> \o Tail(s)
  BY <1>1
<1>3. (c \o <<Head(s)>>) \o Tail(s) = c \o (<<Head(s)>> \o Tail(s))
  BY <1>1, <1>2, ConcatAssociative
<1> QED
  BY <1>2, <1>3

LEMMA CallsBook == ASSUME Inv, Inv', Booked, NEW calls, Lows(calls), ClientCalls(calls) PROVE Booked'
<1>1. /\ stack' = calls \o stack /\ (stack = <<>> \/ Runs("user"))
      /\ w' = w /\ ticks' = ticks /\ owed' = owed /\ faults' = faults /\ ops' = ops + 1
  BY DEF ClientCalls, ClientMay, Id
<1>2. SameBook /\ SameTicks
  <2>1. SameBook
    BY <1>1 DEF SameBook, SameBuffer, Booked
  <2> QED
    BY <1>1, <2>1, TicksStay DEF SameBook
<1>3. ops' \in Nat
  BY <1>1 DEF Booked
<1>4. SameOwed
  BY <1>1, <1>3 DEF Booked, Flawless, SameOwed, Writes
<1>5. calls \in Seq(Range(calls)) /\ \A i \in DOMAIN calls : Low(calls[i])
  <2>1. PICK T : calls \in Seq(T) /\ \A f \in T : Low(f)
    BY DEF Lows
  <2>2. \A i \in DOMAIN calls : calls[i] \in T
    BY <2>1
  <2> QED
    BY <2>1, <2>2, OfItsRange
<1>6. CASE stack = <<>>
  <2>1. stack' = calls
    BY <1>1, <1>5, <1>6, ConcatEmptySeq
  <2>2. \A i \in DOMAIN stack' : /\ stack'[i].fn \notin Walking \cup {"doWrite"} /\ Sane(stack'[i], w)
                                 /\ faults' = 0 => Unharmed(stack'[i], w)
    BY <1>1, <1>5, <2>1 DEF Low
  <2>3. Sound' => Bearing'
    BY <1>1, <1>6, StillSound DEF Booked, Bearing, Trusted, Writes
  <2>4. faults' = 0 => \A a \in owed' : a.fn = "onwrite" => a.err = None
    BY <1>4 DEF SameOwed
  <2> QED
    BY <1>1, <1>2, <1>3, <1>6, <2>2, <2>3, <2>4, FreshStep
<1>7. CASE stack # <<>>
  <2>1. Top.fn = "user"
    BY <1>1, <1>7 DEF Runs
  <2>2. stack' = (calls \o <<Top>>) \o Tail(stack)
    BY <1>1, <1>5, <1>7, PutOn, StackFacts DEF Top
  <2>3. Low(Top)
    BY <2>1, LowPieces DEF Walking, Processing, Erring, Asked, Told
  <2>4. Lows(calls \o <<Top>>)
    BY <2>3, LowSequences
  <2>5. Aside
    BY <1>2, <1>4, <1>7, <2>1, <2>2, <2>4 DEF Aside, Walking, Processing, Erring, Asked, Calm
  <2> QED
    BY <2>5, AsideStep
<1> QED
  BY <1>6, <1>7

LEMMA ClientBook == ASSUME Inv, Inv', Booked, ClientStep PROVE Booked'
<1>1. Id \in Numbers
  BY DEF Booked, Id, Numbers
<1>2. <<>> \in Seq(Numbers) /\ <<Id>> \in Seq(Numbers)
  BY <1>1
<1>3. ASSUME NEW cb \in Seq(Numbers) PROVE Low(WriteOf(cb))
  <2>1. PICK x : x = WriteOf(cb)
    OBVIOUS
  <2>2. x.fn = "write" /\ x.cb = cb /\ x.ids[1] = Id
    BY <2>1 DEF WriteOf, Do
  <2>3. Sane(x, w')
    BY <1>1, <2>2 DEF Sane, Processing
  <2>4. Unharmed(x, w') /\ x.fn \in Told /\ x.fn \notin Walking \cup Asked \cup {"doWrite"}
    BY <2>2 DEF Unharmed, Walking, Processing, Erring, Asked, Told
  <2> QED
    BY <2>1, <2>3, <2>4 DEF Low
<1>4. ASSUME NEW cb, NEW er PROVE Low(EndOf(cb)) /\ Low([EndOf(cb) EXCEPT !.err = er])
  <2>1. PICK x, y : x = EndOf(cb) /\ y = [EndOf(cb) EXCEPT !.err = er]
    OBVIOUS
  <2>2. x.fn = "end" /\ y.fn = "end"
    BY <2>1 DEF EndOf, Do
  <2>3. Low(x) /\ Low(y)
    BY <2>2, LowPieces DEF Walking, Processing, Erring, Asked, Told
  <2> QED
    BY <2>1, <2>3
<1>5. Low(Do("cork")) /\ Low(Do("uncork")) /\ \A er : Low(Err("destroy", er))
  BY LowMade DEF Walking, Processing, Erring, Asked, Told
<1>6. PICK calls : ClientCalls(calls) /\ Lows(calls)
  <2>1. CASE ClientWrites
    <3>1. PICK cb \in {<<>>, <<Id>>} : ClientCalls(<<WriteOf(cb)>>)
      BY <2>1 DEF ClientWrites
    <3>2. Low(WriteOf(cb))
      BY <1>2, <1>3, <3>1
    <3> QED
      BY <3>1, <3>2, LowSequences
  <2>2. CASE ClientCorks \/ ClientUncorks
    BY <1>5, <2>2, LowSequences DEF ClientCorks, ClientUncorks
  <2>3. CASE ClientEnds
    BY <1>4, <2>3, LowSequences DEF ClientEnds
  <2>4. CASE ClientEndsWith
    <3>1. PICK er : ClientCalls(<<WriteOf(<<>>), [EndOf(<<Id>>) EXCEPT !.err = er]>>)
      BY <2>4 DEF ClientEndsWith
    <3>2. Low(WriteOf(<<>>)) /\ Low([EndOf(<<Id>>) EXCEPT !.err = er])
      BY <1>2, <1>3, <1>4
    <3> QED
      BY <3>1, <3>2, LowSequences
  <2>5. CASE ClientDestroys
    <3>1. PICK er : ClientCalls(<<Err("destroy", er)>>)
      BY <2>5 DEF ClientDestroys
    <3> QED
      BY <1>5, <3>1, LowSequences
  <2> QED
    BY <2>1, <2>2, <2>3, <2>4, <2>5 DEF ClientStep
<1> QED
  BY <1>6, CallsBook

\* The exceptions.
LEMMA UnwoundSteps ==
    ASSUME Inv, Booked,
           \/ OnFinish /\ w.onFinishCalled /\ Top.err = None
           \/ ErrorBufferLoop /\ Top.n < Len(w.buffered) /\ w.buffered[Top.n + 1] = Null
    PROVE  Booked'
<1> USE DEF Runs, Then, Continue, Quiet, Set, client, log
<1>1. /\ stack # <<>> /\ stack' = <<>> /\ w' = w /\ ticks' = ticks /\ owed' = owed /\ faults' = faults /\ ops' = ops
      /\ Top.fn \in {"onFinish", "errorBufferLoop"}
  BY DEF OnFinish, ErrorBufferLoop
<1>2. SameTicks /\ SameOwed
  BY <1>1, TicksStay, OwedStays DEF SameBuffer
<1>3. Top.fn \notin Calm \cup Asked \cup Processing
  BY <1>1 DEF Calm, Asked, Processing
<1>4. ASSUME faults = 0 PROVE Top.fn \notin Told \cup Erring
  <2>1. CASE OnFinish
    BY <2>1 DEF OnFinish, Told, Erring
  <2>2. CASE ErrorBufferLoop /\ Top.n < Len(w.buffered) /\ w.buffered[Top.n + 1] = Null
    <3>1. Sound /\ SoundStack(stack, w) /\ FlawlessStack(stack, w)
      BY <1>4 DEF Booked, Flawless, Sound
    <3>2. ~w.bufferProcessing
      BY <1>1, <1>3, <3>1, AboveLoops
    <3>3. From(w, w.bufferedIndex)
      BY <3>1, <3>2 DEF SoundStack
    <3>4. Top = stack[1] /\ 1 \in DOMAIN stack /\ IsPiece(Top)
      BY <1>1, StackFacts
    <3>5. Top.n \in w.bufferedIndex .. Len(w.buffered)
      BY <2>2, <3>1, <3>4 DEF ErrorBufferLoop, FlawlessStack, Unharmed
    <3>6. Len(w.buffered) \in Nat /\ w.bufferedIndex \in Int
      BY LenProperties DEF Booked, Details, Inv, Fields
    <3>7. Top.n + 1 \in w.bufferedIndex + 1 .. Len(w.buffered)
      BY <2>2, <3>5, <3>6
    <3>8. Listed(w.buffered[Top.n + 1])
      BY <3>3, <3>7 DEF From
    <3> QED
      BY <2>2, <3>8 DEF Listed, Null, Numbers
  <2> QED
    BY <2>1, <2>2
<1> QED
  BY <1>1, <1>2, <1>3, <1>4, UnwoundStep

LEMMA ThrownStep == ASSUME Inv, Booked, SinkThrows, Top.fn = "sinkWrite" PROVE Booked'
<1>1. /\ w' = w /\ ticks' = ticks /\ ops' = ops /\ faults' = faults + 1 /\ "throw" \in w.stream.faults
  BY DEF SinkThrows, Fault, client
<1>2. faults' # 0 /\ ~Sound'
  BY <1>1 DEF Inv, Sound, Trusted
<1> QED
  BY <1>1, <1>2 DEF Booked

-----------------------------------------------------------------------------
(* The steps of one write.                                                  *)

\* What one or two calls put on the stack.
LEMMA Shorts ==
    /\ <<>> \in Seq(Range(<<>>)) /\ \A i \in DOMAIN <<>> : FALSE
    /\ \A a : /\ <<a>> \in Seq(Range(<<a>>)) /\ <<a>> # <<>> /\ <<a>>[1] = a
              /\ 1 \in DOMAIN <<a>> /\ \A i \in DOMAIN <<a>> : i = 1 /\ <<a>>[i] = a
    /\ \A a, b : /\ <<a, b>> \in Seq(Range(<<a, b>>)) /\ <<a, b>> # <<>> /\ <<a, b>>[1] = a /\ <<a, b>>[2] = b
                 /\ {1, 2} = DOMAIN <<a, b>>
                 /\ \A i \in DOMAIN <<a, b>> : <<a, b>>[i] = a \/ <<a, b>>[i] = b
<1>1. ASSUME NEW a PROVE <<a>> \in Seq(Range(<<a>>))
  <2>1. <<a>> \in Seq({a})
    OBVIOUS
  <2> QED
    BY <2>1, OfItsRange
<1>2. ASSUME NEW a, NEW b PROVE <<a, b>> \in Seq(Range(<<a, b>>))
  <2>1. <<a, b>> \in Seq({a, b})
    OBVIOUS
  <2> QED
    BY <2>1, OfItsRange
<1>3. <<>> \in Seq(Range(<<>>)) /\ \A i \in DOMAIN <<>> : FALSE
  OBVIOUS
<1>4. ASSUME NEW a PROVE <<a>> # <<>> /\ <<a>>[1] = a /\ 1 \in DOMAIN <<a>> /\ \A i \in DOMAIN <<a>> : i = 1 /\ <<a>>[i] = a
  OBVIOUS
<1>5. ASSUME NEW a, NEW b
      PROVE  /\ <<a, b>> # <<>> /\ <<a, b>>[1] = a /\ <<a, b>>[2] = b /\ {1, 2} = DOMAIN <<a, b>>
             /\ \A i \in DOMAIN <<a, b>> : <<a, b>>[i] = a \/ <<a, b>>[i] = b
  OBVIOUS
<1> QED
  BY <1>1, <1>2, <1>3, <1>4, <1>5

LEMMA RealCallback == NoCallback \notin Seq(Numbers)
<1>1. ASSUME NoCallback \in Seq(Numbers) PROVE FALSE
  <2>1. PICK c : c = NoCallback
    OBVIOUS
  <2>2. c \in Seq(Numbers) /\ 1 \in DOMAIN c /\ c[1] = 0
    BY <1>1, <2>1 DEF NoCallback
  <2>3. c[1] \in Numbers
    BY <2>2
  <2> QED
    BY <2>2, <2>3 DEF Numbers
<1> QED
  BY <1>1

\* Ticks and answers in a step that changes neither.
LEMMA NothingQueued ==
    ASSUME Booked, SameBuffer, ticks' = ticks, owed' = owed, faults' = faults
    PROVE  /\ \A i \in DOMAIN ticks' : Harmless(ticks'[i])
           /\ faults' = 0 => /\ \A i \in DOMAIN ticks' : Unharmed(ticks'[i], w')
                             /\ \A a \in owed' : a.fn = "onwrite" => a.err = None
<1>1. SameTicks
  BY TicksStay
<1> QED
  BY <1>1 DEF SameTicks, Booked, Flawless

\* The sink is called: writelen is what doWrite had in hand, or the chunk
\* that length has just counted.
LEMMA HandsOver ==
    ASSUME Inv, Inv', Booked, stack # <<>>, Top.fn \in {"write", "doWrite"}, SameBuffer, Details(w'),
           ticks' = ticks, owed' = owed, faults' = faults, ops' \in Nat,
           w'.writing, w'.sync, w'.writecb = Top.cb, w'.destroyed = w.destroyed,
           Top.fn = "write" => ~w.destroyed,
           NEW x, NEW y, y.fn = "syncFalse", stack' = <<x, y>> \o Tail(stack),
           x.fn = "sinkWrite" \/ (x.fn = "onwrite" /\ w.destroyed),
           Sound => w'.length - w'.writelen = w.length - w.writelen - Handing(stack)
    PROVE  Booked'
<1>1. PICK c : c = <<x, y>>
  OBVIOUS
<1>2. /\ c \in Seq(Range(c)) /\ c # <<>> /\ c[1] = x /\ 1 \in DOMAIN c
      /\ \A i \in DOMAIN c : c[i] = x \/ c[i] = y
  BY <1>1, Shorts
<1>3. /\ stack \in Seq(Range(stack)) /\ Top = stack[1] /\ 1 \in DOMAIN stack
  BY StackFacts
<1>4. Head(stack') = x /\ stack' # <<>>
  <2>1. stack' = c \o Tail(stack)
    BY <1>1
  <2> QED
    BY <1>2, <1>3, <2>1, HeadPut
<1>5. \A i \in DOMAIN c : c[i].fn \in Calm \ {"doWrite"} /\ c[i].fn \notin Walking /\ Sane(c[i], w')
  BY <1>2 DEF Calm, Walking, Processing, Erring, Sane
<1>6. Top.fn \notin Walking
  BY DEF Walking, Processing, Erring
<1>7. Sound' => Sound
  BY StillSound DEF SameBuffer
<1>8. ASSUME Sound PROVE ~w.destroyed /\ Top.cb \in Seq(Numbers)
  <2>1. SoundStack(stack, w)
    BY <1>8 DEF Booked
  <2>2. Top.fn = "doWrite" => ~w.destroyed
    BY <2>1 DEF SoundStack, Top
  <2>3. Sane(Top, w)
    BY <1>3, <2>1 DEF SoundStack
  <2> QED
    BY <2>2, <2>3 DEF Sane
<1>9. ASSUME Sound' PROVE KeepsSound(c)
  <2>1. ~w.destroyed /\ Top.cb \in Seq(Numbers)
    BY <1>7, <1>8, <1>9
  <2>2. w'.writecb # NoCallback
    BY <2>1, RealCallback
  <2>3. Top'.fn \in Asked
    BY <1>4 DEF Top, Asked
  <2>4. Bearing'
    BY <1>4, <2>2, <2>3 DEF Bearing
  <2> QED
    BY <1>2, <1>5, <2>1, <2>4 DEF KeepsSound
<1>10. ASSUME faults' = 0 PROVE KeepsFlawless(c)
  <2>1. Sound
    BY <1>10 DEF Sound
  <2>2. ~w.destroyed /\ x.fn = "sinkWrite"
    BY <1>8, <2>1
  <2>3. \A i \in DOMAIN c : Unharmed(c[i], w')
    BY <1>2, <2>2 DEF Unharmed, Erring
  <2>4. First(c) = 0
    BY <1>2, <2>2 DEF First
  <2>5. w'.length - w'.writelen - First(c) = w.length - w.writelen - Handing(stack)
    <3>1. w'.length \in Int /\ w'.writelen \in Int
      BY DEF Inv, Fields
    <3> QED
      BY <2>1, <2>4, <3>1
  <2> QED
    BY <1>10, <2>2, <2>3, <2>5, NothingQueued DEF KeepsFlawless
<1>11. Keeps(c)
  BY <1>1, <1>2, <1>5, <1>6, <1>9, <1>10, NothingQueued DEF Keeps
<1> QED
  BY <1>11, KeepsStep

LEMMA DoWriteBook == ASSUME Inv, Inv', Booked, DoWrite PROVE Booked'
<1> USE DEF Runs, Then, Continue, Quiet, Set, client, log
<1> DEFINE x == IF w.destroyed THEN Err("onwrite", "destroyed")
                ELSE [Do("sinkWrite") EXCEPT !.ids = Top.ids]
<1>1. Details(w) /\ Fields(w) /\ ops \in Nat
  BY DEF Booked, Inv
<1>2. /\ stack # <<>> /\ Top.fn = "doWrite" /\ stack' = <<x, Do("syncFalse")>> \o Tail(stack)
      /\ ticks' = ticks /\ owed' = owed /\ faults' = faults /\ ops' = ops
      /\ w' = [w EXCEPT !.writelen = Top.n, !.writecb = Top.cb, !.writing = TRUE, !.sync = TRUE]
  BY DEF DoWrite
<1>3. /\ SameBuffer /\ Details(w') /\ w'.writing /\ w'.sync /\ w'.writecb = Top.cb
      /\ w'.destroyed = w.destroyed /\ w'.length = w.length /\ w'.writelen = Top.n
  BY <1>1, <1>2 DEF SameBuffer, Details, Fields
<1>4. x.fn = "sinkWrite" \/ (x.fn = "onwrite" /\ w.destroyed)
  BY DEF Do, Err
<1>5. Do("syncFalse").fn = "syncFalse"
  BY PieceFields
<1>6. Sound => w'.length - w'.writelen = w.length - w.writelen - Handing(stack)
  <2>1. Sound => ~w.writing
    BY <1>2, TopFits, SoundIsFaithful DEF HeadFits, Ready
  <2>2. ~w.writing => w.writelen = 0
    BY DEF Booked
  <2>3. Handing(stack) = Top.n /\ Top.n \in Int
    BY <1>2, TopFits DEF Handing, Top, IsPiece
  <2>4. w.length \in Int
    BY <1>1 DEF Fields
  <2> QED
    BY <1>3, <2>1, <2>2, <2>3, <2>4
<1> HIDE DEF x
<1>7. PICK y : y = Do("syncFalse")
  OBVIOUS
<1>8. Top.fn \in {"write", "doWrite"} /\ (Top.fn = "write" => ~w.destroyed)
  BY <1>2
<1>9. stack' = <<x, y>> \o Tail(stack) /\ y.fn = "syncFalse" /\ ops' \in Nat
  BY <1>1, <1>2, <1>5, <1>7
<1> QED
  BY <1>2, <1>3, <1>4, <1>6, <1>8, <1>9, HandsOver

\* A write that need not wait.
LEMMA WriteBook ==
    ASSUME Inv, Inv', Booked, Write, ~(w.ending \/ w.destroyed), ~MustBuffer
    PROVE  Booked'
<1> USE DEF Runs, Then, Set, log
<1> DEFINE x == [Do("sinkWrite") EXCEPT !.ids = Top.ids]
<1>1. Details(w) /\ Fields(w) /\ ops \in Nat /\ ~w.writing
  BY DEF Booked, Inv, MustBuffer
<1>2. /\ stack # <<>> /\ Top.fn = "write" /\ stack' = <<x, Do("syncFalse")>> \o Tail(stack)
      /\ ticks' = ticks /\ owed' = owed /\ faults' = faults /\ ops' = ops /\ ~w.destroyed
      /\ w' = [[w EXCEPT !.pendingcb = @ + 1, !.length = @ + 1,
                         !.needDrain = @ \/ ~(w.length + 1 < HighWaterMark)]
               EXCEPT !.writelen = 1, !.writecb = Top.cb, !.writing = TRUE, !.sync = TRUE]
  BY DEF Write
<1>3. /\ SameBuffer /\ Details(w') /\ w'.writing /\ w'.sync /\ w'.writecb = Top.cb
      /\ w'.destroyed = w.destroyed /\ w'.length = w.length + 1 /\ w'.writelen = 1
  BY <1>1, <1>2 DEF SameBuffer, Details, Fields
<1>4. x.fn = "sinkWrite"
  BY DEF Do
<1>5. Do("syncFalse").fn = "syncFalse"
  BY PieceFields
<1>6. w'.length - w'.writelen = w.length - w.writelen - Handing(stack)
  <2>1. w.writelen = 0
    BY <1>1 DEF Booked
  <2>2. Handing(stack) = 0
    BY <1>2 DEF Handing, Top
  <2>3. w.length \in Int
    BY <1>1 DEF Fields
  <2> QED
    BY <1>3, <2>1, <2>2, <2>3
<1> HIDE DEF x
<1>7. PICK y : y = Do("syncFalse")
  OBVIOUS
<1>8. Top.fn \in {"write", "doWrite"} /\ (Top.fn = "write" => ~w.destroyed)
  BY <1>2
<1>9. stack' = <<x, y>> \o Tail(stack) /\ y.fn = "syncFalse" /\ ops' \in Nat
  BY <1>1, <1>2, <1>5, <1>7
<1> QED
  BY <1>2, <1>3, <1>4, <1>6, <1>8, <1>9, HandsOver

\* The sink calls back, or keeps the callback.
LEMMA SinkAnswersBook ==
    ASSUME Inv, Inv', Booked, stack # <<>>, Top.fn = "sinkWrite", w' = w, ticks' = ticks, ops' = ops,
           faults' = 0 => faults = 0, NEW c, c \in Seq(Range(c)), stack' = c \o Tail(stack),
           \A i \in DOMAIN c : c[i].fn = "onwrite" /\ (faults' = 0 => c[i].err = None),
           Sound' => c # <<>> \/ Writes',
           faults' = 0 => \A a \in owed' : a.fn = "onwrite" => a.err = None
    PROVE  Booked'
<1>1. Details(w) /\ ops \in Nat /\ SameBuffer /\ SameTicks
  <2>1. SameBuffer
    BY DEF SameBuffer
  <2> QED
    BY <2>1, TicksStay DEF Booked
<1>2. stack \in Seq(Range(stack)) /\ Top = stack[1]
  BY StackFacts
<1>3. c # <<>> => c[1].fn = "onwrite" /\ stack' # <<>> /\ Head(stack') = c[1]
  <2>1. c # <<>> => 1 \in DOMAIN c /\ stack' # <<>> /\ Head(stack') = c[1]
    BY <1>2, HeadPut
  <2> QED
    BY <2>1
<1>4. \A i \in DOMAIN c : c[i].fn \in Calm /\ c[i].fn \notin Walking /\ Sane(c[i], w')
  BY DEF Calm, Walking, Processing, Erring, Sane
<1>5. ASSUME Sound' PROVE KeepsSound(c)
  <2>1. SoundStack(stack, w) /\ Bearing
    BY <1>1, <1>5, StillSound DEF Booked, SameBuffer
  <2>2. w.bufferProcessing => ~w.destroyed /\ w.sync
    BY <2>1 DEF SoundStack, Asked, Top
  <2>3. c # <<>> => Top'.fn \in Asked
    BY <1>3 DEF Top, Asked
  <2>4. Bearing'
    BY <1>3, <1>5, <2>1, <2>3 DEF Bearing
  <2> QED
    BY <1>3, <1>4, <2>2, <2>4 DEF KeepsSound
<1>6. ASSUME faults' = 0 PROVE KeepsFlawless(c)
  <2>1. \A i \in DOMAIN c : Unharmed(c[i], w')
    BY <1>6 DEF Unharmed, Erring
  <2>2. First(c) = 0 /\ Handing(stack) = 0
    BY <1>3 DEF First, Handing, Top
  <2>3. Top.fn \notin Told
    BY DEF Told
  <2> QED
    BY <1>1, <1>6, <2>1, <2>2, <2>3 DEF KeepsFlawless, SameTicks
<1>7. Top.fn \notin Walking
  BY DEF Walking, Processing, Erring
<1>8. Keeps(c)
  BY <1>1, <1>4, <1>5, <1>6, <1>7 DEF Keeps, SameTicks, Booked
<1> QED
  BY <1>8, KeepsStep

LEMMA SinkWriteBook ==
    ASSUME Inv, Inv', Booked, SinkAnswersAtOnce \/ SinkKeeps, Top.fn = "sinkWrite"
    PROVE  Booked'
<1> USE DEF Runs, Then, client
<1>0. Answer["sinkWrite"] = "onwrite" /\ faults \in Nat /\ Passes(Top) = None
  BY DEF Answer, Inv, Passes
<1>1. /\ stack # <<>> /\ w' = w /\ ticks' = ticks /\ ops' = ops
  BY DEF SinkAnswersAtOnce, SinkKeeps
<1>2. faults = 0 => \A a \in owed : a.fn = "onwrite" => a.err = None
  BY DEF Booked, Flawless
<1>3. CASE SinkAnswersAtOnce
  <2>1. /\ owed' = owed
        /\ \/ stack' = <<Err("onwrite", None)>> \o Tail(stack) /\ faults' = faults
           \/ stack' = <<Err("onwrite", "sink")>> \o Tail(stack) /\ faults' = faults + 1
           \/ stack' = <<Do("onwrite"), Again("sinkWrite")>> \o Tail(stack) /\ faults' = faults + 1
    BY <1>0, <1>3 DEF SinkAnswersAtOnce, Fault
  <2>2. PICK c : /\ c # <<>> /\ c \in Seq(Range(c)) /\ stack' = c \o Tail(stack)
                 /\ \A i \in DOMAIN c : c[i].fn = "onwrite" /\ (faults' = faults => c[i].err = None)
                 /\ faults' \in {faults, faults + 1}
    <3>1. CASE stack' = <<Err("onwrite", None)>> \o Tail(stack) /\ faults' = faults
      <4>1. PICK a, c : a = Err("onwrite", None) /\ c = <<a>>
        OBVIOUS
      <4>2. a.fn = "onwrite" /\ a.err = None
        BY <4>1, PieceFields
      <4>3. c # <<>> /\ c \in Seq(Range(c)) /\ \A i \in DOMAIN c : c[i] = a
        BY <4>1, Shorts
      <4> QED
        BY <3>1, <4>1, <4>2, <4>3
    <3>2. CASE stack' = <<Err("onwrite", "sink")>> \o Tail(stack) /\ faults' = faults + 1
      <4>1. PICK a, c : a = Err("onwrite", "sink") /\ c = <<a>>
        OBVIOUS
      <4>2. a.fn = "onwrite" /\ faults' # faults
        BY <1>0, <3>2, <4>1, PieceFields
      <4>3. c # <<>> /\ c \in Seq(Range(c)) /\ \A i \in DOMAIN c : c[i] = a
        BY <4>1, Shorts
      <4> QED
        BY <3>2, <4>1, <4>2, <4>3
    <3>3. CASE stack' = <<Do("onwrite"), Again("sinkWrite")>> \o Tail(stack) /\ faults' = faults + 1
      <4>1. PICK a, b, c : a = Do("onwrite") /\ b = Again("sinkWrite") /\ c = <<a, b>>
        OBVIOUS
      <4>2. a.fn = "onwrite" /\ b.fn = "onwrite" /\ faults' # faults
        BY <1>0, <3>3, <4>1, PieceFields DEF Again
      <4>3. c # <<>> /\ c \in Seq(Range(c)) /\ \A i \in DOMAIN c : c[i] = a \/ c[i] = b
        BY <4>1, Shorts
      <4> QED
        BY <3>3, <4>1, <4>2, <4>3
    <3> QED
      BY <2>1, <3>1, <3>2, <3>3
  <2>3. faults' = 0 => faults = 0 /\ faults' = faults
    BY <1>0, <2>2
  <2> QED
    BY <1>1, <1>2, <2>1, <2>2, <2>3, SinkAnswersBook
<1>4. CASE SinkKeeps
  <2>1. PICK b : b = [Top EXCEPT !.fn = "onwrite", !.err = None]
    OBVIOUS
  <2>2. owed' = owed \cup {b} /\ faults' = faults /\ stack' = <<>> \o Tail(stack)
    BY <1>0, <1>4, <2>1 DEF SinkKeeps
  <2>3. b.fn = "onwrite" /\ b.err = None
    BY <1>1, <2>1, TopFits DEF IsPiece
  <2>4. Writes'
    BY <2>2, <2>3 DEF Writes
  <2>5. faults' = 0 => \A a \in owed' : a.fn = "onwrite" => a.err = None
    BY <1>2, <2>2, <2>3
  <2>6. PICK c : c = <<>> /\ stack' = c \o Tail(stack)
    BY <2>2
  <2>7. c \in Seq(Range(c)) /\ \A i \in DOMAIN c : FALSE
    BY <2>6, Shorts
  <2> QED
    BY <1>1, <2>2, <2>4, <2>5, <2>6, <2>7, SinkAnswersBook
<1> QED
  BY <1>3, <1>4

\* The sink has called back: what it had is off length.
LEMMA TakesBack ==
    ASSUME Inv, Inv', Booked, stack # <<>>, Top.fn = "onwrite", SameBuffer, Details(w'),
           owed' = owed, faults' = faults, ops' = ops, SameTicks,
           ~w'.writing, w'.writelen = 0, w'.length = w.length - w.writelen, w'.destroyed = w.destroyed,
           NEW c, c \in Seq(Range(c)), stack' = c \o Tail(stack),
           \A i \in DOMAIN c : /\ c[i].fn \in {"onwriteError", "clearBuffer", "onwriteSync", "afterWrite"}
                               /\ faults = 0 => c[i].fn # "onwriteError"
                               /\ w.sync => c[i].fn \in Calm
    PROVE  Booked'
<1>1. \A i \in DOMAIN c : c[i].fn \notin Walking \cup Asked \cup {"doWrite"} /\ Sane(c[i], w')
  BY DEF Walking, Processing, Erring, Asked, Sane
<1>2. c # <<>> => 1 \in DOMAIN c
  BY EmptySeq, LenProperties
<1>3. ASSUME Sound' PROVE KeepsSound(c)
  <2>1. SoundStack(stack, w)
    BY <1>3, StillSound DEF Booked, SameBuffer
  <2>2. w.bufferProcessing => ~w.destroyed /\ w.sync
    BY <2>1 DEF SoundStack, Asked, Top
  <2>3. Bearing'
    BY DEF Bearing
  <2> QED
    BY <1>1, <1>2, <2>2, <2>3 DEF KeepsSound
<1>4. ASSUME faults' = 0 PROVE KeepsFlawless(c)
  <2>1. \A i \in DOMAIN c : Unharmed(c[i], w')
    BY <1>1, <1>4 DEF Unharmed, Erring
  <2>2. First(c) = 0 /\ Handing(stack) = 0
    BY <1>1, <1>2 DEF First, Handing, Top
  <2>3. Top.fn \notin Told
    BY DEF Told
  <2>4. w'.length - w'.writelen - First(c) = w.length - w.writelen - Handing(stack)
    <3>1. w.length \in Int /\ w.writelen \in Int
      BY DEF Inv, Fields
    <3> QED
      BY <2>2, <3>1
  <2>5. \A a \in owed' : a.fn = "onwrite" => a.err = None
    BY <1>4 DEF Booked, Flawless
  <2> QED
    BY <1>4, <2>1, <2>3, <2>4, <2>5 DEF KeepsFlawless, SameTicks
<1>5. Top.fn \notin Walking
  BY DEF Walking, Processing, Erring
<1>6. Keeps(c)
  BY <1>1, <1>3, <1>4, <1>5 DEF Keeps, SameTicks, Booked
<1> QED
  BY <1>6, KeepsStep

LEMMA OnwriteBook == ASSUME Inv, Inv', Booked, Onwrite PROVE Booked'
<1> USE DEF Runs, Then, Set, Continue, Quiet, client, log
<1> DEFINE er == Top.err
           back == [w EXCEPT !.writing = FALSE, !.writecb = NoCallback,
                             !.length = @ - w.writelen, !.writelen = 0]
           failed == [Err("onwriteError", er) EXCEPT !.cb = w.writecb]
           after == [Do(IF w.sync THEN "onwriteSync" ELSE "afterWrite") EXCEPT !.cb = w.writecb, !.n = 1]
<1>1. Details(w) /\ Fields(w) /\ ops \in Nat
  BY DEF Booked, Inv
<1>2. stack # <<>> /\ Top.fn = "onwrite" /\ owed' = owed /\ faults' = faults /\ ops' = ops
  BY DEF Onwrite
<1>3. Top = stack[1] /\ 1 \in DOMAIN stack
  BY <1>2, StackFacts
<1>4. CASE w.writecb = NoCallback
  <2>1. w' = w /\ ticks' = ticks
    BY <1>4 DEF Onwrite
  <2>2. ~Sound
    <3>1. Sound => w.writing
      BY <1>2, TopFits, SoundIsFaithful DEF HeadFits, Asked
    <3> QED
      BY <1>4, <3>1 DEF Booked, Bearing
  <2>3. ~Sound' /\ faults' # 0
    BY <1>2, <2>1, <2>2 DEF Sound, Trusted
  <2> QED
    BY <1>2, <2>1, <2>3 DEF Booked
<1>5. CASE w.writecb # NoCallback /\ er # None
  <2>1. w' = [back EXCEPT !.errored = IF @ = None THEN er ELSE @]
    BY <1>5 DEF Onwrite
  <2>2. /\ SameBuffer /\ Details(w') /\ ~w'.writing /\ w'.writelen = 0
        /\ w'.length = w.length - w.writelen /\ w'.destroyed = w.destroyed
    BY <1>1, <1>2, <2>1 DEF SameBuffer, Details, Fields
  <2>3. faults # 0
    BY <1>3, <1>2, <1>5 DEF Booked, Flawless, FlawlessStack, Unharmed
  <2>4. failed.fn = "onwriteError"
    BY DEF Err, Do
  <2>5. \/ ticks' = ticks /\ stack' = <<failed>> \o Tail(stack) /\ ~w.sync
        \/ ticks' = Append(ticks, failed) /\ stack' = <<>> \o Tail(stack)
    BY <1>5 DEF Onwrite, Later
  <2> HIDE DEF failed, back, er
  <2>6. SameTicks
    <3>1. Harmless(failed)
      BY <2>4 DEF Harmless, Walking, Processing, Erring
    <3> QED
      BY <1>2, <2>2, <2>3, <2>5, <3>1, TicksStay, TicksLater
  <2>7. PICK c : /\ c \in Seq(Range(c)) /\ stack' = c \o Tail(stack)
                 /\ \A i \in DOMAIN c : c[i].fn = "onwriteError" /\ ~w.sync
    <3>1. CASE stack' = <<failed>> \o Tail(stack) /\ ~w.sync
      <4>1. PICK c : c = <<failed>>
        OBVIOUS
      <4>2. c \in Seq(Range(c)) /\ \A i \in DOMAIN c : c[i] = failed
        BY <4>1, Shorts
      <4> QED
        BY <2>4, <3>1, <4>1, <4>2
    <3>2. CASE stack' = <<>> \o Tail(stack)
      <4>1. PICK c : c = <<>>
        OBVIOUS
      <4> QED
        BY <3>2, <4>1, Shorts
    <3> QED
      BY <2>5, <3>1, <3>2
  <2>8. \A i \in DOMAIN c : /\ c[i].fn \in {"onwriteError", "clearBuffer", "onwriteSync", "afterWrite"}
                            /\ faults = 0 => c[i].fn # "onwriteError"
                            /\ w.sync => c[i].fn \in Calm
    BY <2>3, <2>7
  <2>9. c \in Seq(Range(c)) /\ stack' = c \o Tail(stack)
    BY <2>7
  <2> QED
    BY <1>2, <2>2, <2>6, <2>8, <2>9, TakesBack
<1>6. CASE w.writecb # NoCallback /\ er = None
  <2>1. w' = back /\ ticks' = ticks
    BY <1>6 DEF Onwrite
  <2>2. /\ SameBuffer /\ Details(w') /\ ~w'.writing /\ w'.writelen = 0
        /\ w'.length = w.length - w.writelen /\ w'.destroyed = w.destroyed
    BY <1>1, <1>2, <2>1 DEF SameBuffer, Details, Fields
  <2>3. after.fn = IF w.sync THEN "onwriteSync" ELSE "afterWrite"
    BY DEF Do
  <2>4. stack' = ((IF Len(w.buffered) > w.bufferedIndex THEN <<Do("clearBuffer")>> ELSE <<>>)
                    \o <<after>>) \o Tail(stack)
    BY <1>6 DEF Onwrite
  <2> HIDE DEF after, back, er
  <2>5. SameTicks
    BY <2>1, <2>2, TicksStay
  <2>6. PICK b : b = Do("clearBuffer") /\ b.fn = "clearBuffer"
    BY PieceFields
  <2>7. <<b>> \o <<after>> = <<b, after>> /\ <<>> \o <<after>> = <<after>>
    <3>1. \A a : <<>> \o <<a>> = <<a>>
      OBVIOUS
    <3> QED
      BY <3>1, Pairs, Zenon
  <2>8. PICK c : /\ c \in Seq(Range(c)) /\ stack' = c \o Tail(stack)
                 /\ \A i \in DOMAIN c : c[i] = b \/ c[i] = after
    <3>1. CASE Len(w.buffered) > w.bufferedIndex
      <4>1. PICK c : c = <<b, after>>
        OBVIOUS
      <4>2. stack' = c \o Tail(stack)
        BY <2>4, <2>6, <2>7, <3>1, <4>1
      <4>3. c \in Seq(Range(c)) /\ \A i \in DOMAIN c : c[i] = b \/ c[i] = after
        BY <4>1, Shorts
      <4> QED
        BY <4>2, <4>3
    <3>2. CASE ~(Len(w.buffered) > w.bufferedIndex)
      <4>1. PICK c : c = <<after>>
        OBVIOUS
      <4>2. stack' = c \o Tail(stack)
        BY <2>4, <2>7, <3>2, <4>1
      <4>3. c \in Seq(Range(c)) /\ \A i \in DOMAIN c : c[i] = b \/ c[i] = after
        BY <4>1, Shorts
      <4> QED
        BY <4>2, <4>3
    <3> QED
      BY <3>1, <3>2
  <2>9. \A i \in DOMAIN c : /\ c[i].fn \in {"clearBuffer", "onwriteSync", "afterWrite"}
                            /\ w.sync => c[i].fn \in Calm
    BY <2>3, <2>6, <2>8 DEF Calm
  <2> QED
    BY <1>2, <2>2, <2>5, <2>8, <2>9, TakesBack
<1> QED
  BY <1>4, <1>5, <1>6

-----------------------------------------------------------------------------
(* The loops over the buffer.                                               *)

\* Wherever a loop starts, turns or ends, no other is under way.
Lonely == /\ Top.fn \notin Calm \/ ~w.bufferProcessing
          /\ Top.fn \notin Told \/ ~w.destroyed

LEMMA NoneElse ==
    ASSUME Inv, Booked, stack # <<>>, Lonely
    PROVE  /\ Sound => /\ \A q \in DOMAIN stack : q > 1 => stack[q].fn \notin Processing
                       /\ Top.fn \notin Processing => ~w.bufferProcessing
                       /\ Top.fn \in Processing => w.bufferProcessing /\ ~w.destroyed
           /\ faults = 0 => \A q \in DOMAIN stack : q > 1 => stack[q].fn \notin Erring
<1>1. Top = stack[1] /\ 1 \in DOMAIN stack
  BY StackFacts
<1>2. ASSUME Sound
      PROVE  /\ \A q \in DOMAIN stack : q > 1 => stack[q].fn \notin Processing
             /\ Top.fn \notin Processing => ~w.bufferProcessing
             /\ Top.fn \in Processing => w.bufferProcessing /\ ~w.destroyed
  <2>1. SoundStack(stack, w)
    BY <1>2 DEF Booked
  <2>2. Top.fn \in Processing => w.bufferProcessing /\ ~w.destroyed
    BY <1>1, <2>1 DEF SoundStack, Has
  <2>3. CASE Top.fn \notin Calm
    BY <1>2, <2>1, <2>2, <2>3, AboveLoops
  <2>4. CASE ~w.bufferProcessing
    BY <2>1, <2>2, <2>4 DEF SoundStack, Has
  <2> QED
    BY <2>3, <2>4 DEF Lonely
<1>3. ASSUME faults = 0 PROVE \A q \in DOMAIN stack : q > 1 => stack[q].fn \notin Erring
  <2>1. FlawlessStack(stack, w)
    BY <1>3 DEF Booked, Flawless
  <2> QED
    BY <2>1, AboveErrors DEF Lonely
<1> QED
  BY <1>2, <1>3

\* The account at that moment.
LEMMA AccountNow ==
    ASSUME Inv, Booked, stack # <<>>, Lonely, faults = 0, Top.fn # "doWrite"
    PROVE  Account(w, 0, IF Top.fn \in Walking THEN Reached(Top, w) ELSE w.bufferedIndex)
<1>1. Top = stack[1] /\ 1 \in DOMAIN stack /\ stack \in Seq(Range(stack))
  BY StackFacts
<1>2. FlawlessStack(stack, w) /\ Handing(stack) = 0
  BY DEF Booked, Flawless, Handing, Top
<1>3. CASE Top.fn \in Walking
  BY <1>1, <1>2, <1>3 DEF FlawlessStack
<1>4. CASE Top.fn \notin Walking
  <2>1. \A q \in DOMAIN stack : q > 1 => stack[q].fn \notin Walking
    BY NoneElse DEF Sound, Walking
  <2>2. \A q \in DOMAIN stack : q = 1 \/ q > 1
    <3>1. DOMAIN stack = 1 .. Len(stack) /\ Len(stack) \in Nat
      BY <1>1, LenProperties
    <3> QED
      BY <3>1
  <2>3. ~Has(stack, Walking)
    BY <1>1, <1>4, <2>1, <2>2 DEF Has
  <2> QED
    BY <1>2, <1>4, <2>3 DEF FlawlessStack
<1> QED
  BY <1>3, <1>4

\* What such a step must see to, of what it puts on the stack.
WalksSound(c) ==
    /\ Nested(c, Processing, Calm)
    /\ w'.bufferProcessing <=> Has(c, Processing)
    /\ Has(c, Processing) => ~w.destroyed
    /\ c # <<>> /\ c[1].fn = "doWrite" => ~w.destroyed
    /\ \A i \in DOMAIN c : Sane(c[i], w')
    /\ ~w'.bufferProcessing => From(w', w'.bufferedIndex)
WalksFlawless(c) ==
    /\ Nested(c, Erring, Told)
    /\ \A i \in DOMAIN c : Unharmed(c[i], w')
    /\ \A i \in DOMAIN c : c[i].fn \in Walking => Account(w', First(c), Reached(c[i], w'))
    /\ ~Has(c, Walking) => Account(w', First(c), w'.bufferedIndex)
SameElse ==
    /\ ops' = ops /\ ticks' = ticks /\ owed' = owed /\ faults' = faults
    /\ w'.stream = w.stream /\ w'.writing = w.writing /\ w'.writelen = w.writelen
    /\ w'.writecb = w.writecb /\ w'.destroyed = w.destroyed

LEMMA WalkStep ==
    ASSUME Inv, Inv', Booked, stack # <<>>, Lonely, SameElse, Details(w'), Top.fn \notin Asked,
           NEW c, c \in Seq(Range(c)), stack' = c \o Tail(stack), \A i \in DOMAIN c : c[i].fn \notin Asked,
           Sound => WalksSound(c), faults = 0 => WalksFlawless(c)
    PROVE  Booked'
<1>1. /\ stack \in Seq(Range(stack)) /\ Top = stack[1] /\ 1 \in DOMAIN stack
      /\ DOMAIN stack = 1 .. Len(stack) /\ Len(stack) \in Nat
  BY StackFacts, LenProperties
<1>2. Sound' => Sound
  BY StillSound DEF SameElse
<1>3. c # <<>> => 1 \in DOMAIN c
  BY EmptySeq, LenProperties
<1>4. ASSUME Sound PROVE SoundStack(stack', w')
  <2>1. SoundStack(stack, w)
    BY <1>4 DEF Booked
  <2>2. \A q \in DOMAIN stack : q > 1 => stack[q].fn \notin Hot
    BY <1>4, NothingHot
  <2>3. \A q \in DOMAIN stack : q > 1 => stack[q].fn \notin Processing
    BY <1>4, NoneElse
  <2>4. ~(Has(stack, Processing) /\ stack[1].fn \notin Processing)
    <3>1. \A q \in DOMAIN stack : q = 1 \/ q > 1
      BY <1>1
    <3> QED
      BY <2>3, <3>1 DEF Has
  <2>5. ~(stack[1].fn \in Calm /\ Has(stack, Processing))
    BY <1>1, <2>1 DEF Lonely, SoundStack
  <2>6. \A f : Sane(f, w) /\ f.fn \notin Processing => Sane(f, w')
    BY DEF Sane, Processing
  <2>7. \A q \in DOMAIN stack : q > 1 => Sane(stack[q], w')
    BY <2>1, <2>3, <2>6 DEF SoundStack
  <2>8. WalksSound(c)
    BY <1>4
  <2>9. /\ Nested(c, Processing, Calm) /\ (w'.bufferProcessing <=> Has(c, Processing))
        /\ (w'.bufferProcessing => ~w'.destroyed) /\ (c # <<>> /\ c[1].fn = "doWrite" => ~w'.destroyed)
        /\ (\A i \in DOMAIN c : Sane(c[i], w')) /\ (~w'.bufferProcessing => From(w', w'.bufferedIndex))
    BY <2>8 DEF WalksSound, SameElse
  <2>10. c # <<>> /\ w'.bufferProcessing /\ c[1].fn \in Asked => w'.sync
    BY <1>3
  <2> QED
    BY <1>1, <2>1, <2>2, <2>4, <2>5, <2>7, <2>9, <2>10, SoundPut
<1>5. ASSUME faults = 0 PROVE FlawlessStack(stack', w')
  <2>1. FlawlessStack(stack, w) /\ Sound
    BY <1>5 DEF Booked, Flawless, Sound
  <2>2. \A q \in DOMAIN stack : q > 1 => stack[q].fn \notin Hot
    BY <2>1, NothingHot
  <2>3. \A q \in DOMAIN stack : q > 1 => stack[q].fn \notin Walking /\ stack[q].fn \notin Erring
    BY <1>5, <2>1, NoneElse DEF Walking
  <2>4. ~(stack[1].fn \in Told /\ Has(stack, Erring))
    BY <1>1, <2>1, AboveErrors DEF Lonely, Has
  <2>5. \A f : Unharmed(f, w) /\ f.fn \notin Erring => Unharmed(f, w')
    BY DEF Unharmed, Erring, SameElse
  <2>6. \A q \in DOMAIN stack : q > 1 => Unharmed(stack[q], w')
    BY <2>1, <2>3, <2>5 DEF FlawlessStack
  <2>7. WalksFlawless(c)
    BY <1>5
  <2>8. /\ Nested(c, Erring, Told) /\ (\A i \in DOMAIN c : Unharmed(c[i], w'))
        /\ \A i \in DOMAIN c : c[i].fn \in Walking => Account(w', First(c), Reached(c[i], w'))
        /\ (\A i \in DOMAIN c : c[i].fn \notin Walking) => Account(w', First(c), w'.bufferedIndex)
    BY <2>7 DEF WalksFlawless, Has
  <2>9. First(c) = IF c # <<>> /\ c[1].fn = "doWrite" THEN c[1].n ELSE 0
    BY DEF First
  <2>10. \A q \in DOMAIN stack : q > 1 /\ stack[q].fn \in Walking => Account(w', First(c), Reached(stack[q], w'))
    BY <2>3
  <2>11. stack[1].fn \in Told /\ Has(stack, Erring) => \A i \in DOMAIN c : c[i].fn \in Told
    BY <2>4
  <2>12. (\A i \in DOMAIN c : c[i].fn \notin Walking)
            /\ (\A q \in DOMAIN stack : q > 1 => stack[q].fn \notin Walking)
               => Account(w', First(c), w'.bufferedIndex)
    BY <2>8
  <2>13. Nested(c, Erring, Told) /\ \A i \in DOMAIN c : Unharmed(c[i], w')
    BY <2>8
  <2>14. \A i \in DOMAIN c : c[i].fn \in Walking => Account(w', First(c), Reached(c[i], w'))
    BY <2>8
  <2> QED
    BY <1>1, <2>1, <2>2, <2>6, <2>9, <2>10, <2>11, <2>12, <2>13, <2>14, FlawlessPut
<1>6. ASSUME Sound' PROVE Bearing'
  <2>1. Bearing
    BY <1>2, <1>6 DEF Booked
  <2>2. ~(stack # <<>> /\ Top.fn \in Asked)
    OBVIOUS
  <2> QED
    BY <2>1, <2>2 DEF Bearing, SameElse, Trusted, Writes
<1>7. /\ \A i \in DOMAIN ticks' : Harmless(ticks'[i])
      /\ faults' = 0 => \A i \in DOMAIN ticks' : Unharmed(ticks'[i], w')
  <2>1. \A f : Harmless(f) /\ Unharmed(f, w) => Unharmed(f, w')
    BY DEF Harmless, Walking, Unharmed, Erring, SameElse
  <2> QED
    BY <2>1 DEF Booked, Flawless, SameElse
<1>8. faults' = 0 => Flawless'
  BY <1>5, <1>7 DEF Flawless, Booked, SameElse
<1>9. ops' \in Nat /\ (~w'.writing => w'.writelen = 0)
  BY DEF Booked, SameElse
<1> QED
  BY <1>2, <1>4, <1>6, <1>7, <1>8, <1>9 DEF Booked

\* One, two or no pieces.
LEMMA NestedShort ==
    ASSUME NEW P, NEW A
    PROVE  /\ Nested(<<>>, P, A) /\ ~Has(<<>>, P)
           /\ \A x : Nested(<<x>>, P, A) /\ (Has(<<x>>, P) <=> x.fn \in P)
           /\ \A x, y : /\ (y.fn \in P => x.fn \in A) => Nested(<<x, y>>, P, A)
                        /\ Has(<<x, y>>, P) <=> (x.fn \in P \/ y.fn \in P)
<1>1. Nested(<<>>, P, A) /\ ~Has(<<>>, P)
  BY DEF Nested, Has
<1>2. ASSUME NEW x PROVE Nested(<<x>>, P, A) /\ (Has(<<x>>, P) <=> x.fn \in P)
  <2>1. PICK c : c = <<x>>
    OBVIOUS
  <2>2. DOMAIN c = 1 .. 1 /\ c[1] = x
    BY <2>1
  <2>3. Nested(c, P, A) /\ (Has(c, P) <=> x.fn \in P)
    BY <2>2 DEF Nested, Has
  <2> QED
    BY <2>1, <2>3
<1>3. ASSUME NEW x, NEW y
      PROVE  /\ (y.fn \in P => x.fn \in A) => Nested(<<x, y>>, P, A)
             /\ Has(<<x, y>>, P) <=> (x.fn \in P \/ y.fn \in P)
  <2>1. PICK c : c = <<x, y>>
    OBVIOUS
  <2>2. DOMAIN c = 1 .. 2 /\ c[1] = x /\ c[2] = y
    BY <2>1
  <2>3. (y.fn \in P => x.fn \in A) => Nested(c, P, A)
    BY <2>2 DEF Nested
  <2>4. Has(c, P) <=> (x.fn \in P \/ y.fn \in P)
    BY <2>2 DEF Has
  <2> QED
    BY <2>1, <2>3, <2>4
<1> QED
  BY <1>1, <1>2, <1>3

LEMMA WalkNone ==
    ASSUME Inv, Inv', Booked, stack # <<>>, Lonely, SameElse, Details(w'), Top.fn \notin Asked,
           stack' = <<>> \o Tail(stack),
           Sound => ~w'.bufferProcessing /\ From(w', w'.bufferedIndex),
           faults = 0 => Account(w', 0, w'.bufferedIndex)
    PROVE  Booked'
<1>1. PICK c : c = <<>>
  OBVIOUS
<1>2. c \in Seq(Range(c)) /\ \A i \in DOMAIN c : FALSE
  BY <1>1, Shorts
<1>3. \A P, A : Nested(c, P, A) /\ ~Has(c, P)
  BY <1>2 DEF Nested, Has
<1>4. Sound => WalksSound(c)
  BY <1>1, <1>2, <1>3 DEF WalksSound
<1>5. First(c) = 0
  BY <1>1 DEF First
<1>6. faults = 0 => WalksFlawless(c)
  BY <1>2, <1>3, <1>5 DEF WalksFlawless
<1>7. stack' = c \o Tail(stack)
  BY <1>1
<1> QED
  BY <1>2, <1>4, <1>6, <1>7, WalkStep

LEMMA WalkOne ==
    ASSUME Inv, Inv', Booked, stack # <<>>, Lonely, SameElse, Details(w'), Top.fn \notin Asked,
           NEW x, stack' = <<x>> \o Tail(stack), x.fn \in Walking,
           Sound => /\ w'.bufferProcessing <=> x.fn \in Processing
                    /\ x.fn \in Processing => ~w.destroyed
                    /\ Sane(x, w') /\ (~w'.bufferProcessing => From(w', w'.bufferedIndex)),
           faults = 0 => Unharmed(x, w') /\ Account(w', 0, Reached(x, w'))
    PROVE  Booked'
<1>1. PICK c : c = <<x>>
  OBVIOUS
<1>2. c \in Seq(Range(c)) /\ c # <<>> /\ c[1] = x /\ \A i \in DOMAIN c : c[i] = x
  BY <1>1, Shorts
<1>3. \A P, A : Nested(c, P, A) /\ (Has(c, P) <=> x.fn \in P)
  BY <1>1, NestedShort, Zenon
<1>4. Sound => WalksSound(c)
  BY <1>2, <1>3 DEF WalksSound, Walking, Processing, Erring
<1>5. First(c) = 0
  BY <1>2 DEF First, Walking, Processing, Erring
<1>6. faults = 0 => WalksFlawless(c)
  BY <1>2, <1>3, <1>5 DEF WalksFlawless
<1>7. stack' = c \o Tail(stack) /\ \A i \in DOMAIN c : c[i].fn \notin Asked
  BY <1>1, <1>2 DEF Asked, Walking, Processing, Erring
<1> QED
  BY <1>2, <1>4, <1>6, <1>7, WalkStep

LEMMA WalkTwo ==
    ASSUME Inv, Inv', Booked, stack # <<>>, Lonely, SameElse, Details(w'), Top.fn \notin Asked,
           NEW x, NEW y, stack' = <<x, y>> \o Tail(stack), y.fn \in Walking,
           \/ x.fn = "doWrite" /\ y.fn \in Processing
           \/ x.fn = "callback" /\ y.fn \in Erring,
           Sound => /\ w'.bufferProcessing <=> y.fn \in Processing
                    /\ y.fn \in Processing => ~w.destroyed
                    /\ Sane(x, w') /\ Sane(y, w') /\ (~w'.bufferProcessing => From(w', w'.bufferedIndex)),
           faults = 0 => Unharmed(y, w') /\ Account(w', IF x.fn = "doWrite" THEN x.n ELSE 0, Reached(y, w'))
    PROVE  Booked'
<1>1. PICK c : c = <<x, y>>
  OBVIOUS
<1>2. c \in Seq(Range(c)) /\ c # <<>> /\ c[1] = x /\ \A i \in DOMAIN c : c[i] = x \/ c[i] = y
  BY <1>1, Shorts
<1>3. \A P, A : /\ (y.fn \in P => x.fn \in A) => Nested(c, P, A)
                /\ Has(c, P) <=> (x.fn \in P \/ y.fn \in P)
  BY <1>1, NestedShort, Zenon
<1>4. Nested(c, Processing, Calm) /\ Nested(c, Erring, Told)
  <2>1. (y.fn \in Processing => x.fn \in Calm) /\ (y.fn \in Erring => x.fn \in Told)
    BY DEF Processing, Erring, Calm, Told
  <2> QED
    BY <1>3, <2>1, Zenon
<1>5. x.fn \notin Walking \cup Asked
  BY DEF Walking, Processing, Erring, Asked
<1>6. (Has(c, Processing) <=> y.fn \in Processing) /\ Has(c, Walking)
  <2>1. Has(c, Processing) <=> (x.fn \in Processing \/ y.fn \in Processing)
    BY <1>3, Zenon
  <2>2. Has(c, Walking) <=> (x.fn \in Walking \/ y.fn \in Walking)
    BY <1>3, Zenon
  <2> QED
    BY <1>5, <2>1, <2>2 DEF Walking
<1>7. x.fn = "doWrite" => y.fn \in Processing
  OBVIOUS
<1>8. Sound => WalksSound(c)
  BY <1>2, <1>4, <1>6, <1>7 DEF WalksSound
<1>9. First(c) = IF x.fn = "doWrite" THEN x.n ELSE 0
  BY <1>2 DEF First
<1>10. Unharmed(x, w')
  BY DEF Unharmed, Erring
<1>11. faults = 0 => WalksFlawless(c)
  BY <1>2, <1>4, <1>5, <1>6, <1>9, <1>10 DEF WalksFlawless
<1>12. stack' = c \o Tail(stack) /\ \A i \in DOMAIN c : c[i].fn \notin Asked
  BY <1>1, <1>2, <1>5 DEF Asked, Walking, Processing, Erring
<1> QED
  BY <1>2, <1>8, <1>11, <1>12, WalkStep

\* A write that has to wait its turn.
LEMMA WriteWaits ==
    ASSUME Inv, Inv', Booked, Write, ~(w.ending \/ w.destroyed), MustBuffer
    PROVE  Booked'
<1> USE DEF Runs, Then, Set, log
<1> DEFINE entry == [id |-> Top.ids[1], cb |-> Top.cb]
<1>1. Details(w) /\ Fields(w) /\ Len(w.buffered) \in Nat /\ DOMAIN w.buffered = 1 .. Len(w.buffered)
  BY LenProperties DEF Booked, Inv, Details
<1>2. /\ stack # <<>> /\ Top.fn = "write" /\ stack' = <<>> \o Tail(stack)
      /\ ticks' = ticks /\ owed' = owed /\ faults' = faults /\ ops' = ops /\ ~w.destroyed
      /\ w' = [[w EXCEPT !.pendingcb = @ + 1, !.length = @ + 1,
                         !.needDrain = @ \/ ~(w.length + 1 < HighWaterMark)]
               EXCEPT !.buffered = Append(@, entry)]
  BY DEF Write
<1>3. entry.id = Top.ids[1] /\ entry.cb = Top.cb
  OBVIOUS
<1> HIDE DEF entry
<1>4. PICK e : e = entry
  OBVIOUS
<1>5. /\ SameElse /\ w'.buffered = Append(w.buffered, e) /\ w'.bufferedIndex = w.bufferedIndex
      /\ w'.bufferProcessing = w.bufferProcessing /\ w'.length = w.length + 1
      /\ DOMAIN w' = DOMAIN w
  BY <1>1, <1>2, <1>4 DEF SameElse, Details, Fields
<1>6. PICK b : b = w'.buffered
  OBVIOUS
<1>7. /\ b \in Seq(Range(b)) /\ Len(b) = Len(w.buffered) + 1
      /\ b[Len(w.buffered) + 1] = e /\ \A i \in 1 .. Len(w.buffered) : b[i] = w.buffered[i]
  BY <1>1, <1>5, <1>6, AppendOfRange, AppendProperties DEF Details
<1>8. Details(w')
  BY <1>1, <1>5, <1>6, <1>7 DEF Details
<1>9. Lonely /\ Top.fn \notin Asked /\ Top.fn \notin Processing /\ Top.fn \notin Walking
  BY <1>2 DEF Lonely, Calm, Told, Asked, Walking, Processing, Erring
<1>10. ASSUME Sound PROVE ~w'.bufferProcessing /\ From(w', w'.bufferedIndex)
  <2>1. ~w.bufferProcessing /\ SoundStack(stack, w)
    BY <1>2, <1>9, <1>10, NoneElse DEF Booked
  <2>2. From(w, w.bufferedIndex)
    BY <2>1 DEF SoundStack
  <2>3. Sane(Top, w)
    BY <1>2, <2>1, StackFacts DEF SoundStack
  <2>4. Listed(e)
    BY <1>2, <1>3, <1>4, <2>3 DEF Sane, Listed
  <2>5. w.bufferedIndex \in 0 .. Len(w.buffered)
    BY <2>2 DEF From
  <2>6. w.bufferedIndex \in 0 .. Len(w.buffered) + 1
    BY <1>1, <2>5
  <2>7. ASSUME NEW i \in w.bufferedIndex + 1 .. Len(w.buffered) + 1 PROVE Listed(b[i])
    <3>1. i = Len(w.buffered) + 1 \/ (i \in w.bufferedIndex + 1 .. Len(w.buffered) /\ i \in 1 .. Len(w.buffered))
      BY <1>1, <2>5
    <3>2. CASE i = Len(w.buffered) + 1
      BY <1>7, <2>4, <3>2
    <3>3. CASE i \in w.bufferedIndex + 1 .. Len(w.buffered) /\ i \in 1 .. Len(w.buffered)
      BY <1>7, <2>2, <3>3 DEF From
    <3> QED
      BY <3>1, <3>2, <3>3
  <2>8. From(w', w'.bufferedIndex)
    BY <1>5, <1>6, <1>7, <2>6, <2>7 DEF From
  <2> QED
    BY <1>5, <2>1, <2>8
<1>11. ASSUME faults = 0 PROVE Account(w', 0, w'.bufferedIndex)
  <2>1. Account(w, 0, w.bufferedIndex)
    BY <1>2, <1>9, <1>11, AccountNow
  <2>2. w.length \in Int /\ w.writelen \in Int /\ w.bufferedIndex \in Int
    BY <1>1 DEF Fields
  <2>3. w.length = w.writelen + 0 + Len(w.buffered) - w.bufferedIndex
    BY <2>1 DEF Account
  <2>4. w.length + 1 = w.writelen + 0 + (Len(w.buffered) + 1) - w.bufferedIndex
    BY <1>1, <2>2, <2>3
  <2> QED
    BY <1>5, <1>6, <1>7, <2>4 DEF Account, SameElse
<1> QED
  BY <1>2, <1>5, <1>8, <1>9, <1>10, <1>11, WalkNone

\* The callbacks clearBuffer hands over at once.
LEMMA CallbacksOf ==
    ASSUME NEW v, Details(v), NEW k, From(v, k), k = v.bufferedIndex
    PROVE  Cbs(Waiting(v)) \in Seq(Numbers)
<1>1. PICK q : q = Waiting(v)
  OBVIOUS
<1>2. k \in 0 .. Len(v.buffered) /\ v.buffered \in Seq(Range(v.buffered))
  BY DEF From, Details
<1>3. /\ Len(q) = Len(v.buffered) - k /\ DOMAIN q = 1 .. Len(v.buffered) - k
      /\ Len(v.buffered) \in Nat /\ k \in Nat /\ Len(q) \in Nat
      /\ \A i \in 1 .. Len(v.buffered) - k : q[i] = v.buffered[k + i]
  BY <1>1, <1>2, Left, LenProperties DEF Waiting
<1>4. ASSUME NEW i \in DOMAIN q PROVE q[i].cb \in Seq(Numbers)
  <2>1. i \in 1 .. Len(v.buffered) - k
    BY <1>3
  <2>2. k + i \in k + 1 .. Len(v.buffered)
    BY <1>3, <2>1
  <2>3. Listed(v.buffered[k + i])
    BY <2>2 DEF From
  <2> QED
    BY <1>3, <2>1, <2>3 DEF Listed
<1>5. PICK f : f = [i \in DOMAIN q |-> q[i].cb]
  OBVIOUS
<1>6. f \in Seq(Seq(Numbers))
  <2>1. DOMAIN q = 1 .. Len(q)
    BY <1>3
  <2>2. PICK S, n : S = Seq(Numbers) /\ n = Len(q)
    OBVIOUS
  <2>3. f \in [1 .. n -> S] /\ n \in Nat
    BY <1>3, <1>4, <1>5, <2>1, <2>2
  <2>4. f \in Seq(S)
    BY <2>3, SeqDef
  <2> QED
    BY <2>2, <2>4
<1>7. FlattenSeq(f) \in Seq(Numbers)
  BY <1>6, FlattenOf
<1> QED
  BY <1>1, <1>5, <1>7 DEF Cbs

LEMMA ClearBufferBook == ASSUME Inv, Inv', Booked, ClearBuffer, w' # w PROVE Booked'
<1> USE DEF Runs, Then, Set, Continue, Quiet, client, log
<1> DEFINE x == [Do("doWrite") EXCEPT !.n = w.length, !.ids = Ids(Waiting(w)), !.cb = Cbs(Waiting(w))]
           y == [Do("clearBufferLoop") EXCEPT !.n = w.bufferedIndex]
           z == Do("clearBufferEnd")
<1>1. Details(w) /\ Fields(w) /\ Len(w.buffered) \in Nat
  BY LenProperties DEF Booked, Inv, Details
<1>2. /\ stack # <<>> /\ Top.fn = "clearBuffer" /\ ticks' = ticks /\ owed' = owed /\ faults' = faults /\ ops' = ops
      /\ ~w.bufferProcessing /\ ~w.destroyed /\ Waiting(w) # <<>>
  BY DEF ClearBuffer
<1>3. Lonely /\ Top.fn \notin Asked /\ Top.fn \notin Processing /\ Top.fn \notin Walking /\ Top.fn # "doWrite"
  BY <1>2 DEF Lonely, Asked, Walking, Processing, Erring
<1>4. ASSUME Sound PROVE From(w, w.bufferedIndex)
  BY <1>2, <1>4 DEF Booked, SoundStack
<1>5. ASSUME faults = 0 PROVE Account(w, 0, w.bufferedIndex)
  BY <1>2, <1>3, <1>5, AccountNow
<1>6. CASE w.stream.writev /\ Len(Waiting(w)) > 1
  <2>1. w' = [w EXCEPT !.bufferProcessing = TRUE, !.pendingcb = @ - CallbacksSaved]
        /\ stack' = <<x, z>> \o Tail(stack)
    BY <1>2, <1>6 DEF ClearBuffer
  <2>2. /\ SameElse /\ Details(w') /\ w'.bufferProcessing /\ w'.buffered = w.buffered
        /\ w'.length = w.length
    BY <1>1, <1>2, <2>1 DEF SameElse, Details, Fields
  <2>3. x.fn = "doWrite" /\ x.n = w.length /\ x.cb = Cbs(Waiting(w)) /\ z.fn = "clearBufferEnd"
    BY DEF Do
  <2> HIDE DEF x, z
  <2>4. Sound => Cbs(Waiting(w)) \in Seq(Numbers)
    BY <1>1, <1>4, CallbacksOf
  <2>5. Sound => Sane(x, w')
    BY <2>3, <2>4 DEF Sane, Processing
  <2>6. From(w', Len(w'.buffered))
    BY <1>1, <2>2 DEF From
  <2>7. Sane(z, w')
    BY <2>3, <2>6 DEF Sane, Reached, Processing
  <2>8. z.fn \in Processing /\ z.fn \in Walking
    BY <2>3 DEF Processing, Walking
  <2>9. Unharmed(z, w')
    BY <2>3 DEF Unharmed, Erring
  <2>10. ASSUME faults = 0 PROVE Account(w', IF x.fn = "doWrite" THEN x.n ELSE 0, Reached(z, w'))
    <3>1. ~w.writing
      BY <1>2, <2>10, TopFits, SoundIsFaithful DEF HeadFits, Ready, Sound
    <3>2. w'.writelen = 0
      BY <2>2, <3>1 DEF Booked, SameElse
    <3>3. Reached(z, w') = Len(w.buffered)
      BY <2>2, <2>3 DEF Reached
    <3>4. w.length \in Int
      BY <1>1 DEF Fields
    <3>5. w.length = 0 + w.length + Len(w.buffered) - Len(w.buffered)
      BY <1>1, <3>4
    <3> QED
      BY <2>2, <2>3, <3>2, <3>3, <3>5 DEF Account
  <2>11. x.fn = "doWrite" /\ z.fn \in Processing
    BY <2>3, <2>8
  <2> QED
    BY <1>2, <1>3, <2>1, <2>2, <2>5, <2>7, <2>8, <2>9, <2>10, <2>11, WalkTwo
<1>7. CASE ~(w.stream.writev /\ Len(Waiting(w)) > 1)
  <2>1. w' = [w EXCEPT !.bufferProcessing = TRUE] /\ stack' = <<y>> \o Tail(stack)
    BY <1>2, <1>7 DEF ClearBuffer
  <2>2. /\ SameElse /\ Details(w') /\ w'.bufferProcessing /\ w'.buffered = w.buffered
        /\ w'.length = w.length /\ w'.bufferedIndex = w.bufferedIndex
    BY <1>1, <1>2, <2>1 DEF SameElse, Details, Fields
  <2>3. y.fn = "clearBufferLoop" /\ y.n = w.bufferedIndex
    BY DEF Do
  <2> HIDE DEF y
  <2>4. ASSUME Sound PROVE Sane(y, w')
    <3>1. From(w, w.bufferedIndex)
      BY <1>4, <2>4
    <3>2. w.bufferedIndex < Len(w.buffered)
      <4>1. w.bufferedIndex \in 0 .. Len(w.buffered)
        BY <3>1 DEF From
      <4>2. w.bufferedIndex # Len(w.buffered)
        BY <1>1, <1>2, SubSeqEmpty DEF Waiting
      <4>3. \A n \in Nat : \A j \in 0 .. n : j # n => j < n
        OBVIOUS
      <4> QED
        BY <1>1, <4>1, <4>2, <4>3
    <3> QED
      BY <2>2, <2>3, <3>1, <3>2 DEF Sane, Reached, From
  <2>5. y.fn \in Processing /\ y.fn \in Walking
    BY <2>3 DEF Processing, Walking
  <2>6. Unharmed(y, w')
    BY <2>3 DEF Unharmed, Erring
  <2>7. faults = 0 => Account(w', 0, Reached(y, w'))
    BY <1>5, <2>2, <2>3 DEF Account, Reached, SameElse
  <2> QED
    BY <1>2, <1>3, <2>1, <2>2, <2>4, <2>5, <2>6, <2>7, WalkOne
<1> QED
  BY <1>6, <1>7

LEMMA LoopBook == ASSUME Inv, Inv', Booked, ClearBufferLoop PROVE Booked'
<1> USE DEF Runs, Then, Set, Continue, Quiet, client, log
<1> DEFINE i == Top.n + 1
           first == w.buffered[i]
           x == [Do("doWrite") EXCEPT !.n = 1, !.ids = <<first.id>>, !.cb = first.cb]
           y == [Do("clearBufferTest") EXCEPT !.n = i]
<1>1. Details(w) /\ Fields(w) /\ Len(w.buffered) \in Nat
  BY LenProperties DEF Booked, Inv, Details
<1>2. /\ stack # <<>> /\ Top.fn = "clearBufferLoop" /\ stack' = <<x, y>> \o Tail(stack)
      /\ ticks' = ticks /\ owed' = owed /\ faults' = faults /\ ops' = ops
      /\ w' = [w EXCEPT !.buffered[i] = Null]
  BY DEF ClearBufferLoop
<1>3. Lonely /\ Top.fn \notin Asked /\ Top.fn \in Processing /\ Top.fn \in Walking
  BY <1>2 DEF Lonely, Calm, Told, Asked, Walking, Processing, Erring
<1>4. Top.n \in Int
  BY <1>2, TopFits DEF IsPiece
<1>5. PICK k \in Int, m \in Int : k = Top.n /\ m = i /\ m = k + 1
  BY <1>4
<1>6. /\ SameElse /\ w'.length = w.length /\ w'.bufferedIndex = w.bufferedIndex
      /\ w'.bufferProcessing = w.bufferProcessing /\ w'.buffered = [w.buffered EXCEPT ![m] = Null]
      /\ DOMAIN w' = DOMAIN w
  BY <1>1, <1>2, <1>5 DEF SameElse, Details, Fields
<1>7. PICK b : b = w'.buffered
  OBVIOUS
<1>8. b \in Seq(Range(b)) /\ Len(b) = Len(w.buffered) /\ \A j \in DOMAIN w.buffered : j # m => b[j] = w.buffered[j]
  <2>1. PICK a, e : a = w.buffered /\ e = Null
    OBVIOUS
  <2>2. a \in Seq(Range(a)) /\ b = [a EXCEPT ![m] = e]
    BY <1>1, <1>6, <1>7, <2>1 DEF Details
  <2>3. b \in Seq(Range(b)) /\ Len(b) = Len(a) /\ \A j \in DOMAIN a : j # m => b[j] = a[j]
    BY <2>2, EntryCleared
  <2> QED
    BY <2>1, <2>3
<1>9. Details(w')
  <2>1. DOMAIN w' = DOMAIN w
    BY <1>6
  <2>2. w'.buffered \in Seq(Range(w'.buffered))
    BY <1>7, <1>8
  <2> QED
    BY <1>1, <2>1, <2>2 DEF Details
<1>10. /\ x.fn = "doWrite" /\ x.n = 1 /\ x.cb = w.buffered[m].cb
       /\ y.fn = "clearBufferTest" /\ y.n = m
  BY <1>5 DEF Do
<1> HIDE DEF x, y, first, i
<1>11. ASSUME Sound
       PROVE  w'.bufferProcessing /\ ~w.destroyed /\ Sane(x, w') /\ Sane(y, w')
  <2>1. w.bufferProcessing /\ ~w.destroyed /\ SoundStack(stack, w)
    BY <1>2, <1>3, <1>11, NoneElse DEF Booked
  <2>2. Sane(Top, w)
    BY <1>2, <2>1, StackFacts DEF SoundStack
  <2>3. From(w, k) /\ k < Len(w.buffered)
    BY <1>2, <1>3, <1>5, <2>2 DEF Sane, Reached
  <2>4. k \in 0 .. Len(w.buffered)
    BY <2>3 DEF From
  <2>5. m \in k + 1 .. Len(w.buffered) /\ m \in 0 .. Len(w.buffered)
    BY <1>1, <1>5, <2>3, <2>4
  <2>6. Listed(w.buffered[m])
    BY <2>3, <2>5 DEF From
  <2>7. Sane(x, w')
    BY <1>10, <2>6 DEF Sane, Listed, Processing
  <2>8. ASSUME NEW j \in m + 1 .. Len(b) PROVE Listed(b[j])
    <3>1. j \in k + 1 .. Len(w.buffered) /\ j # m /\ j \in DOMAIN w.buffered
      <4>1. DOMAIN w.buffered = 1 .. Len(w.buffered)
        BY <1>1, LenProperties DEF Details
      <4> QED
        BY <1>1, <1>5, <1>8, <2>4, <4>1
    <3> QED
      BY <1>8, <2>3, <3>1 DEF From
  <2>9. From(w', m)
    BY <1>7, <1>8, <2>5, <2>8 DEF From
  <2>10. Sane(y, w')
    BY <1>10, <2>9 DEF Sane, Reached
  <2> QED
    BY <1>6, <2>1, <2>7, <2>10
<1>12. y.fn \in Processing /\ y.fn \in Walking /\ Unharmed(y, w')
  BY <1>10 DEF Processing, Walking, Unharmed, Erring
<1>13. ASSUME faults = 0 PROVE Account(w', IF x.fn = "doWrite" THEN x.n ELSE 0, Reached(y, w'))
  <2>1. Account(w, 0, k)
    BY <1>2, <1>3, <1>5, <1>13, AccountNow DEF Reached
  <2>2. w.length \in Int /\ w.writelen \in Int
    BY <1>1 DEF Fields
  <2>3. w.length = w.writelen + 0 + Len(w.buffered) - k
    BY <2>1 DEF Account
  <2>4. w.length = w.writelen + 1 + Len(w.buffered) - m
    <3>1. \A p, q \in Int, z \in Nat : p = q + 0 + z - k => p = q + 1 + z - (k + 1)
      OBVIOUS
    <3>2. w.length = w.writelen + 1 + Len(w.buffered) - (k + 1)
      BY <1>1, <2>2, <2>3, <3>1
    <3> QED
      BY <1>5, <3>2
  <2>5. Reached(y, w') = m
    BY <1>10 DEF Reached
  <2>6. w'.length = w.length /\ w'.writelen = w.writelen /\ Len(w'.buffered) = Len(w.buffered)
    BY <1>6, <1>7, <1>8 DEF SameElse
  <2>7. (IF x.fn = "doWrite" THEN x.n ELSE 0) = 1
    BY <1>10
  <2> QED
    BY <2>4, <2>5, <2>6, <2>7 DEF Account
<1>14. x.fn = "doWrite" /\ y.fn \in Processing
  BY <1>10, <1>12
<1>15. Sound => /\ w'.bufferProcessing <=> y.fn \in Processing
                /\ y.fn \in Processing => ~w.destroyed
                /\ Sane(x, w') /\ Sane(y, w') /\ (~w'.bufferProcessing => From(w', w'.bufferedIndex))
  BY <1>11, <1>12
<1>16. stack # <<>> /\ stack' = <<x, y>> \o Tail(stack)
  BY <1>2
<1> QED
  BY <1>3, <1>6, <1>9, <1>12, <1>13, <1>14, <1>15, <1>16, WalkTwo

\* A buffer that has been emptied.
LEMMA EmptyBook ==
    ASSUME Inv, Inv', Booked, stack # <<>>, Lonely, SameElse, Top.fn \notin Asked, stack' = <<>> \o Tail(stack),
           DOMAIN w' = DOMAIN w, w'.buffered = <<>>, w'.bufferedIndex = 0, w'.length = w.length,
           Sound => ~w'.bufferProcessing,
           faults = 0 => Account(w, 0, Len(w.buffered))
    PROVE  Booked'
<1>1. Details(w')
  BY DEF Details, Booked
<1>2. Len(w'.buffered) = 0 /\ Len(w.buffered) \in Nat
  BY LenProperties DEF Booked, Details
<1>3. From(w', w'.bufferedIndex)
  BY <1>2 DEF From
<1>4. ASSUME faults = 0 PROVE Account(w', 0, w'.bufferedIndex)
  <2>1. w.length = w.writelen + 0 + Len(w.buffered) - Len(w.buffered)
    BY <1>4 DEF Account
  <2>2. w.length \in Int /\ w.writelen \in Int
    BY DEF Inv, Fields
  <2>3. w.length = w.writelen + 0 + 0 - 0
    BY <1>2, <2>1, <2>2
  <2> QED
    BY <1>2, <2>3 DEF Account, SameElse
<1> QED
  BY <1>1, <1>3, <1>4, WalkNone

LEMMA ClearBufferEndBook == ASSUME Inv, Inv', Booked, ClearBufferEnd PROVE Booked'
<1> USE DEF Runs, Then, Set, Continue, Quiet, client, log
<1>1. Details(w) /\ Fields(w)
  BY DEF Booked, Inv
<1>2. /\ stack # <<>> /\ Top.fn = "clearBufferEnd" /\ stack' = <<>> \o Tail(stack)
      /\ ticks' = ticks /\ owed' = owed /\ faults' = faults /\ ops' = ops
      /\ w' = [Reset(w) EXCEPT !.bufferProcessing = FALSE]
  BY DEF ClearBufferEnd
<1>3. /\ SameElse /\ DOMAIN w' = DOMAIN w /\ w'.buffered = <<>> /\ w'.bufferedIndex = 0
      /\ w'.length = w.length /\ ~w'.bufferProcessing
  BY <1>1, <1>2 DEF Reset, SameElse, Details, Fields
<1>4. Lonely /\ Top.fn \notin Asked /\ Top.fn \in Walking /\ Top.fn # "doWrite"
  BY <1>2 DEF Lonely, Calm, Told, Asked, Walking, Processing, Erring
<1>5. faults = 0 => Account(w, 0, Len(w.buffered))
  BY <1>2, <1>4, AccountNow DEF Reached
<1> QED
  BY <1>2, <1>3, <1>4, <1>5, EmptyBook

LEMMA ResetBufferBook == ASSUME Inv, Inv', Booked, ResetBuffer PROVE Booked'
<1> USE DEF Runs, Then, Set, Continue, Quiet, client, log
<1>1. Details(w) /\ Fields(w)
  BY DEF Booked, Inv
<1>2. /\ stack # <<>> /\ Top.fn = "resetBuffer" /\ stack' = <<>> \o Tail(stack)
      /\ ticks' = ticks /\ owed' = owed /\ faults' = faults /\ ops' = ops
      /\ w' = Reset(w)
  BY DEF ResetBuffer
<1>3. /\ SameElse /\ DOMAIN w' = DOMAIN w /\ w'.buffered = <<>> /\ w'.bufferedIndex = 0
      /\ w'.length = w.length /\ w'.bufferProcessing = w.bufferProcessing
  BY <1>1, <1>2 DEF Reset, SameElse, Details, Fields
<1>4. Lonely /\ Top.fn \notin Asked /\ Top.fn \in Walking /\ Top.fn # "doWrite" /\ Top.fn \notin Processing
  BY <1>2 DEF Lonely, Calm, Told, Asked, Walking, Processing, Erring
<1>5. faults = 0 => Account(w, 0, Len(w.buffered))
  BY <1>2, <1>4, AccountNow DEF Reached
<1>6. Sound => ~w'.bufferProcessing
  BY <1>2, <1>3, <1>4, NoneElse
<1> QED
  BY <1>2, <1>3, <1>4, <1>5, <1>6, EmptyBook

\* The loop looks whether it is to go on.
LEMMA TestBook == ASSUME Inv, Inv', Booked, ClearBufferTest PROVE Booked'
<1> USE DEF Runs, Then, Set, Continue, Quiet, client, log
<1>1. Details(w) /\ Fields(w) /\ Len(w.buffered) \in Nat
  BY LenProperties DEF Booked, Inv, Details
<1>2. /\ stack # <<>> /\ Top.fn = "clearBufferTest"
      /\ ticks' = ticks /\ owed' = owed /\ faults' = faults /\ ops' = ops
  BY DEF ClearBufferTest
<1>3. Lonely /\ Top.fn \notin Asked /\ Top.fn \in Walking /\ Top.fn \in Processing /\ Top.fn # "doWrite"
  BY <1>2 DEF Lonely, Calm, Told, Asked, Walking, Processing, Erring
<1>4. Top.n \in Int
  BY <1>2, TopFits DEF IsPiece
<1>5. PICK k \in Int : k = Top.n
  BY <1>4
<1>6. ASSUME Sound PROVE From(w, k) /\ w.bufferProcessing /\ ~w.destroyed
  <2>1. Sane(Top, w)
    BY <1>2, <1>6, StackFacts DEF SoundStack, Booked
  <2> QED
    BY <1>2, <1>3, <1>5, <1>6, <2>1, NoneElse DEF Sane, Reached
<1>7. faults = 0 => Account(w, 0, k)
  BY <1>2, <1>3, <1>5, AccountNow DEF Reached
<1>8. CASE k < Len(w.buffered) /\ ~w.writing
  <2> DEFINE y == [Do("clearBufferLoop") EXCEPT !.n = Top.n]
  <2>1. w' = w /\ stack' = <<y>> \o Tail(stack)
    BY <1>5, <1>8 DEF ClearBufferTest
  <2>2. y.fn = "clearBufferLoop" /\ y.n = k
    BY <1>5 DEF Do
  <2> HIDE DEF y
  <2>3. SameElse /\ Details(w')
    BY <1>1, <1>2, <2>1 DEF SameElse
  <2>4. y.fn \in Processing /\ y.fn \in Walking /\ Unharmed(y, w')
    BY <2>2 DEF Processing, Walking, Unharmed, Erring
  <2>5. Sound => Sane(y, w')
    BY <1>6, <1>8, <2>1, <2>2 DEF Sane, Reached
  <2>6. faults = 0 => Account(w', 0, Reached(y, w'))
    BY <1>7, <2>1, <2>2 DEF Reached
  <2>7. Sound => w'.bufferProcessing /\ ~w.destroyed
    BY <1>6, <2>1
  <2> QED
    BY <1>2, <1>3, <2>1, <2>3, <2>4, <2>5, <2>6, <2>7, WalkOne
<1>9. CASE ~(k < Len(w.buffered) /\ ~w.writing)
  <2>1. /\ stack' = <<>> \o Tail(stack)
        /\ w' = [(IF k = Len(w.buffered) THEN Reset(w)
                  ELSE IF k > SpliceAfter
                  THEN [w EXCEPT !.buffered = SubSeq(@, k + 1, Len(@)), !.bufferedIndex = 0]
                  ELSE [w EXCEPT !.bufferedIndex = k])
                 EXCEPT !.bufferProcessing = FALSE]
    BY <1>5, <1>9 DEF ClearBufferTest
  <2>2. CASE k = Len(w.buffered)
    <3>1. w' = [Reset(w) EXCEPT !.bufferProcessing = FALSE]
      BY <2>1, <2>2
    <3>2. /\ SameElse /\ DOMAIN w' = DOMAIN w /\ w'.buffered = <<>> /\ w'.bufferedIndex = 0
          /\ w'.length = w.length /\ ~w'.bufferProcessing
      BY <1>1, <1>2, <3>1 DEF Reset, SameElse, Details, Fields
    <3>3. faults = 0 => Account(w, 0, Len(w.buffered))
      BY <1>7, <2>2
    <3> QED
      BY <1>2, <1>3, <2>1, <3>2, <3>3, EmptyBook
  <2>3. CASE k # Len(w.buffered) /\ k > SpliceAfter
    <3>1. w' = [[w EXCEPT !.buffered = SubSeq(@, k + 1, Len(@)), !.bufferedIndex = 0]
                EXCEPT !.bufferProcessing = FALSE]
      BY <2>1, <2>3
    <3>2. /\ SameElse /\ DOMAIN w' = DOMAIN w /\ w'.bufferedIndex = 0
          /\ w'.length = w.length /\ ~w'.bufferProcessing
          /\ w'.buffered = SubSeq(w.buffered, k + 1, Len(w.buffered))
      BY <1>1, <1>2, <3>1 DEF SameElse, Details, Fields
    <3>3. PICK a, b : a = w.buffered /\ b = w'.buffered
      OBVIOUS
    <3>4. ASSUME k \in 0 .. Len(a)
          PROVE  /\ b \in Seq(Range(b)) /\ Len(b) = Len(a) - k /\ Len(a) \in Nat
                 /\ \A i \in 1 .. Len(a) - k : b[i] = a[k + i]
      <4>1. a \in Seq(Range(a)) /\ b = SubSeq(a, k + 1, Len(a))
        BY <1>1, <3>2, <3>3 DEF Details
      <4> QED
        BY <3>4, <4>1, Left
    <3>5. ASSUME ~Sound PROVE Booked'
      <4>1. ~Sound' /\ faults # 0 /\ faults' # 0
        BY <1>2, <3>2, <3>5 DEF Sound, Trusted, SameElse
      <4>2. w'.buffered \in Seq(Range(w'.buffered))
        <5>1. w.buffered \in Seq(Range(w.buffered)) /\ k \in Int
          BY <1>1 DEF Details
        <5>2. k > 0
          BY <2>3, SizeAssumption
        <5>3. \A i \in k + 1 .. Len(w.buffered) : w.buffered[i] \in Range(w.buffered)
          <6>1. \A i \in k + 1 .. Len(w.buffered) : i \in 1 .. Len(w.buffered)
            BY <1>1, <5>2
          <6>2. DOMAIN w.buffered = 1 .. Len(w.buffered)
            BY <5>1, LenProperties
          <6> QED
            BY <6>1, <6>2 DEF Range
        <5>4. SubSeq(w.buffered, k + 1, Len(w.buffered)) \in Seq(Range(w.buffered))
          BY <1>1, <5>1, <5>3, SubSeqProperties
        <5> QED
          BY <3>2, <5>4, OfItsRange
      <4>3. Details(w') /\ ops' \in Nat /\ (~w'.writing => w'.writelen = 0)
        BY <1>1, <3>2, <4>2 DEF Details, Booked, SameElse
      <4>4. \A i \in DOMAIN ticks' : Harmless(ticks'[i])
        BY <1>2 DEF Booked
      <4> QED
        BY <4>1, <4>3, <4>4 DEF Booked
    <3>6. ASSUME Sound PROVE Booked'
      <4>1. From(w, k) /\ k \in 0 .. Len(a)
        BY <1>6, <3>3, <3>6 DEF From
      <4>2. /\ b \in Seq(Range(b)) /\ Len(b) = Len(a) - k /\ Len(a) \in Nat
            /\ \A i \in 1 .. Len(a) - k : b[i] = a[k + i]
        BY <3>4, <4>1
      <4>3. Details(w')
        BY <1>1, <3>2, <3>3, <4>2 DEF Details
      <4>4. ASSUME NEW i \in 0 + 1 .. Len(b) PROVE Listed(b[i])
        <5>1. i \in 1 .. Len(a) - k /\ k + i \in k + 1 .. Len(a)
          BY <4>1, <4>2
        <5> QED
          BY <3>3, <4>1, <4>2, <5>1 DEF From
      <4>5. 0 \in 0 .. Len(b)
        BY <4>1, <4>2
      <4>6. From(w', w'.bufferedIndex)
        BY <3>2, <3>3, <4>4, <4>5 DEF From
      <4>7. ASSUME faults = 0 PROVE Account(w', 0, w'.bufferedIndex)
        <5>1. w.length = w.writelen + 0 + Len(a) - k
          BY <1>7, <3>3, <4>7 DEF Account
        <5>2. w.length \in Int /\ w.writelen \in Int
          BY <1>1 DEF Fields
        <5>3. w.length = w.writelen + 0 + Len(b) - 0
          BY <4>2, <5>1, <5>2
        <5> QED
          BY <3>2, <3>3, <5>3 DEF Account, SameElse
      <4> QED
        BY <1>2, <1>3, <2>1, <3>2, <4>3, <4>6, <4>7, WalkNone
    <3> QED
      BY <3>5, <3>6
  <2>4. CASE k # Len(w.buffered) /\ ~(k > SpliceAfter)
    <3>1. w' = [[w EXCEPT !.bufferedIndex = k] EXCEPT !.bufferProcessing = FALSE]
      BY <2>1, <2>4
    <3>2. /\ SameElse /\ Details(w') /\ w'.bufferedIndex = k /\ w'.buffered = w.buffered
          /\ w'.length = w.length /\ ~w'.bufferProcessing
      BY <1>1, <1>2, <3>1 DEF SameElse, Details, Fields
    <3>3. Sound => From(w', w'.bufferedIndex)
      BY <1>6, <3>2 DEF From
    <3>4. faults = 0 => Account(w', 0, w'.bufferedIndex)
      BY <1>7, <3>2 DEF Account, SameElse
    <3> QED
      BY <1>2, <1>3, <2>1, <3>2, <3>3, <3>4, WalkNone
  <2> QED
    BY <2>2, <2>3, <2>4
<1> QED
  BY <1>8, <1>9

\* errorBuffer.
LEMMA ErrorBufferBook == ASSUME Inv, Inv', Booked, ErrorBuffer, ~w.writing PROVE Booked'
<1> USE DEF Runs, Then, Continue, Quiet, client, log
<1> DEFINE y == [Do("errorBufferLoop") EXCEPT !.n = w.bufferedIndex]
<1>1. Details(w) /\ Fields(w)
  BY DEF Booked, Inv
<1>2. /\ stack # <<>> /\ Top.fn = "errorBuffer" /\ w' = w /\ stack' = <<y>> \o Tail(stack)
      /\ ticks' = ticks /\ owed' = owed /\ faults' = faults /\ ops' = ops
  BY DEF ErrorBuffer
<1>3. y.fn = "errorBufferLoop" /\ y.n = w.bufferedIndex
  BY DEF Do
<1> HIDE DEF y
<1>4. /\ Lonely /\ Top.fn \notin Asked /\ Top.fn \notin Processing /\ Top.fn \notin Walking /\ Top.fn # "doWrite"
      /\ SameElse /\ Details(w')
  BY <1>1, <1>2 DEF Lonely, Calm, Told, Asked, Walking, Processing, Erring, SameElse
<1>5. y.fn \in Walking /\ y.fn \notin Processing
  BY <1>3 DEF Walking, Processing, Erring
<1>6. ASSUME Sound PROVE ~w.bufferProcessing /\ From(w, w.bufferedIndex)
  <2>1. ~w.bufferProcessing
    BY <1>2, <1>4, <1>6, NoneElse
  <2> QED
    BY <1>6, <2>1 DEF Booked, SoundStack
<1>7. Sane(y, w')
  BY <1>3, <1>5 DEF Sane
<1>8. ASSUME faults = 0 PROVE Unharmed(y, w') /\ Account(w', 0, Reached(y, w'))
  <2>1. From(w, w.bufferedIndex)
    BY <1>6, <1>8 DEF Sound
  <2>2. w.bufferedIndex \in w.bufferedIndex .. Len(w.buffered)
    <3>1. w.bufferedIndex \in 0 .. Len(w.buffered) /\ Len(w.buffered) \in Nat
      BY <1>1, <2>1, LenProperties DEF From, Details
    <3> QED
      BY <3>1
  <2>3. Unharmed(Top, w)
    BY <1>2, <1>8, StackFacts DEF Booked, Flawless, FlawlessStack
  <2>4. w.destroyed
    BY <1>2, <2>3 DEF Unharmed
  <2>5. Account(w, 0, w.bufferedIndex)
    BY <1>2, <1>4, <1>8, AccountNow
  <2> QED
    BY <1>2, <1>3, <2>2, <2>4, <2>5 DEF Unharmed, Reached
<1>9. stack' = <<y>> \o Tail(stack) /\ stack # <<>> /\ w' = w
  BY <1>2
<1> QED
  BY <1>4, <1>5, <1>6, <1>7, <1>8, <1>9, WalkOne

LEMMA ErrorLoopBook ==
    ASSUME Inv, Inv', Booked, ErrorBufferLoop, ~(Top.n < Len(w.buffered) /\ w.buffered[Top.n + 1] = Null)
    PROVE  Booked'
<1> USE DEF Runs, Then, Set, Continue, Quiet, client, log
<1>1. Details(w) /\ Fields(w) /\ Len(w.buffered) \in Nat
  BY LenProperties DEF Booked, Inv, Details
<1>2. /\ stack # <<>> /\ Top.fn = "errorBufferLoop"
      /\ ticks' = ticks /\ owed' = owed /\ faults' = faults /\ ops' = ops
  BY DEF ErrorBufferLoop
<1>3. /\ Lonely /\ Top.fn \notin Asked /\ Top.fn \notin Processing /\ Top.fn \in Walking /\ Top.fn # "doWrite"
  BY <1>2 DEF Lonely, Calm, Told, Asked, Walking, Processing, Erring
<1>4. IsPiece(Top) /\ Top.n \in Int
  BY <1>2, TopFits DEF IsPiece
<1>5. PICK k \in Int : k = Top.n
  BY <1>4
<1>6. ASSUME Sound PROVE ~w.bufferProcessing /\ From(w, w.bufferedIndex)
  <2>1. ~w.bufferProcessing
    BY <1>2, <1>3, <1>6, NoneElse
  <2> QED
    BY <1>6, <2>1 DEF Booked, SoundStack
<1>7. faults = 0 => Account(w, 0, k)
  BY <1>2, <1>3, <1>5, AccountNow DEF Reached
<1>8. ASSUME faults = 0 PROVE w.destroyed /\ k \in w.bufferedIndex .. Len(w.buffered)
  <2>1. Unharmed(Top, w)
    BY <1>2, <1>8, StackFacts DEF Booked, Flawless, FlawlessStack
  <2> QED
    BY <1>2, <1>5, <2>1 DEF Unharmed, Erring
<1>9. CASE k < Len(w.buffered)
  <2> DEFINE x == Callback(w.buffered[Top.n + 1].cb, "destroyed")
             y == [Top EXCEPT !.n = @ + 1]
  <2>1. w' = [w EXCEPT !.length = @ - 1] /\ stack' = <<x, y>> \o Tail(stack)
    BY <1>5, <1>9 DEF ErrorBufferLoop, ErroredLength
  <2>2. /\ SameElse /\ Details(w') /\ w'.length = w.length - 1 /\ w'.buffered = w.buffered
        /\ w'.bufferedIndex = w.bufferedIndex /\ w'.bufferProcessing = w.bufferProcessing
    BY <1>1, <1>2, <2>1 DEF SameElse, Details, Fields
  <2>3. x.fn = "callback" /\ y.fn = "errorBufferLoop" /\ y.n = k + 1
    BY <1>2, <1>4, <1>5, PieceFields DEF IsPiece
  <2> HIDE DEF x, y
  <2>4. y.fn \in Erring /\ y.fn \in Walking /\ y.fn \notin Processing
    BY <2>3 DEF Walking, Processing, Erring
  <2>5. Sane(x, w') /\ Sane(y, w')
    BY <2>3, <2>4 DEF Sane, Processing
  <2>6. ASSUME faults = 0 PROVE Unharmed(y, w') /\ Account(w', 0, Reached(y, w'))
    <3>1. k \in w.bufferedIndex .. Len(w.buffered) /\ w.destroyed
      BY <1>8, <2>6
    <3>2. w.bufferedIndex \in Int /\ w.length \in Int /\ w.writelen \in Int
      BY <1>1 DEF Fields
    <3>3. k + 1 \in w.bufferedIndex .. Len(w.buffered)
      BY <1>1, <1>9, <3>1, <3>2
    <3>4. Unharmed(y, w')
      BY <2>2, <2>3, <3>1, <3>3 DEF Unharmed, SameElse
    <3>5. w.length = w.writelen + 0 + Len(w.buffered) - k
      BY <1>7, <2>6 DEF Account
    <3>6. w.length - 1 = w.writelen + 0 + Len(w.buffered) - (k + 1)
      BY <1>1, <3>2, <3>5
    <3> QED
      BY <2>2, <2>3, <3>4, <3>6 DEF Account, Reached, SameElse
  <2>7. Sound => ~w'.bufferProcessing /\ From(w', w'.bufferedIndex)
    BY <1>6, <2>2 DEF From
  <2>8. x.fn = "callback" /\ x.fn # "doWrite"
    BY <2>3
  <2>9. faults = 0 => Unharmed(y, w') /\ Account(w', IF x.fn = "doWrite" THEN x.n ELSE 0, Reached(y, w'))
    BY <2>6, <2>8
  <2> QED
    BY <1>2, <1>3, <2>1, <2>2, <2>4, <2>5, <2>7, <2>8, <2>9, WalkTwo
<1>10. CASE ~(k < Len(w.buffered))
  <2> DEFINE x == Callback(w.onFinished, "destroyed")
             y == Do("resetBuffer")
  <2>1. w' = [w EXCEPT !.onFinished = <<>>] /\ stack' = <<x, y>> \o Tail(stack)
    BY <1>5, <1>10 DEF ErrorBufferLoop
  <2>2. /\ SameElse /\ Details(w') /\ w'.length = w.length /\ w'.buffered = w.buffered
        /\ w'.bufferedIndex = w.bufferedIndex /\ w'.bufferProcessing = w.bufferProcessing
    BY <1>1, <1>2, <2>1 DEF SameElse, Details, Fields
  <2>3. x.fn = "callback" /\ y.fn = "resetBuffer"
    BY PieceFields
  <2> HIDE DEF x, y
  <2>4. y.fn \in Erring /\ y.fn \in Walking /\ y.fn \notin Processing
    BY <2>3 DEF Walking, Processing, Erring
  <2>5. Sane(x, w') /\ Sane(y, w')
    BY <2>3, <2>4 DEF Sane, Processing
  <2>6. ASSUME faults = 0 PROVE Unharmed(y, w') /\ Account(w', 0, Reached(y, w'))
    <3>1. k \in w.bufferedIndex .. Len(w.buffered) /\ w.destroyed
      BY <1>8, <2>6
    <3>2. w.bufferedIndex \in Int
      BY <1>1 DEF Fields
    <3>3. k = Len(w.buffered)
      BY <1>1, <1>10, <3>1, <3>2
    <3>4. Unharmed(y, w')
      BY <2>2, <2>3, <3>1 DEF Unharmed, SameElse
    <3>5. Account(w, 0, Len(w.buffered))
      BY <1>7, <2>6, <3>3
    <3> QED
      BY <2>2, <2>3, <3>4, <3>5 DEF Account, Reached, SameElse
  <2>7. Sound => ~w'.bufferProcessing /\ From(w', w'.bufferedIndex)
    BY <1>6, <2>2 DEF From
  <2>8. x.fn = "callback" /\ x.fn # "doWrite"
    BY <2>3
  <2>9. faults = 0 => Unharmed(y, w') /\ Account(w', IF x.fn = "doWrite" THEN x.n ELSE 0, Reached(y, w'))
    BY <2>6, <2>8
  <2> QED
    BY <1>2, <1>3, <2>1, <2>2, <2>4, <2>5, <2>7, <2>8, <2>9, WalkTwo
<1> QED
  BY <1>9, <1>10

-----------------------------------------------------------------------------
LEMMA BookStarts == Init => Booked
<1> SUFFICES ASSUME NEW stream \in Streams, InitFor(stream) PROVE Booked
  BY DEF Init
<1>1. /\ stack = <<>> /\ owed = {} /\ ops = 0
      /\ ticks = IF stream.construct THEN <<Do("constructNT")>> ELSE <<>>
  BY DEF InitFor
<1>2. /\ w.buffered = <<>> /\ w.bufferedIndex = 0 /\ ~w.bufferProcessing /\ ~w.writing /\ w.writelen = 0
      /\ w.length = 0 /\ {"writecb", "sync", "buffered", "bufferProcessing", "destroyed"} \subseteq DOMAIN w
  BY DEF InitFor
<1>3. Details(w)
  BY <1>2 DEF Details, Range
<1>4. Len(w.buffered) = 0
  BY <1>2
<1>5. From(w, w.bufferedIndex)
  BY <1>2, <1>4 DEF From
<1>6. \A P, A : Nested(stack, P, A) /\ ~Has(stack, P)
  BY <1>1 DEF Nested, Has
<1>7. SoundStack(stack, w)
  BY <1>1, <1>2, <1>5, <1>6 DEF SoundStack
<1>8. Handing(stack) = 0 /\ Account(w, 0, w.bufferedIndex)
  BY <1>1, <1>2, <1>4 DEF Handing, Account
<1>9. FlawlessStack(stack, w)
  BY <1>1, <1>6, <1>8 DEF FlawlessStack
<1>10. \A i \in DOMAIN ticks : Harmless(ticks[i]) /\ Unharmed(ticks[i], w)
  <2>1. PICK a : a = Do("constructNT") /\ a.fn = "constructNT"
    BY PieceFields
  <2>2. Harmless(a) /\ Unharmed(a, w)
    BY <2>1 DEF Harmless, Unharmed, Walking, Processing, Erring
  <2>3. \A i \in DOMAIN ticks : ticks[i] = a
    <3>1. ticks = <<a>> \/ ticks = <<>>
      BY <1>1, <2>1
    <3> QED
      BY <3>1
  <2> QED
    BY <2>2, <2>3
<1>11. Bearing /\ Flawless
  BY <1>1, <1>2, <1>9, <1>10 DEF Bearing, Flawless
<1> QED
  BY <1>1, <1>2, <1>3, <1>7, <1>10, <1>11 DEF Booked

LEMMA BookSteps == ASSUME Inv, Inv', Booked, [Next]_vars PROVE Booked'
<1>1. ASSUME StreamStep PROVE Booked'
  <2>1. CASE \/ EmitEvent \/ RunCallback \/ SyncFalse \/ Cork \/ Uncork \/ OnwriteSync
             \/ AfterWriteTick \/ AfterWrite \/ SettleWrite \/ AfterWriteEnd \/ OnwriteError
    BY <2>1, AsideWriteSteps, AsideStep
  <2>2. CASE \/ End \/ EndOnce \/ Ended \/ EndCallback \/ FinishMaybe \/ FinishIfSettled
             \/ Prefinish \/ ErrorOrDestroyIfSync \/ FinishLater \/ Finish
    BY <2>2, AsideEndSteps, AsideStep
  <2>3. CASE OnFinish
    BY <2>3, AsideEndSteps, AsideStep, UnwoundSteps
  <2>4. CASE \/ OnConstruct \/ EmitConstruct \/ ErrorOrDestroy \/ Destroy \/ OnDestroy
             \/ EmitErrorClose \/ EmitError \/ EmitClose
    BY <2>4, AsideDestroySteps, AsideStep
  <2>5. CASE Write
    BY <2>5, AsideRefused, AsideStep, WriteBook, WriteWaits
  <2>6. CASE DoWrite \/ Onwrite \/ RunTick
    BY <2>6, DoWriteBook, OnwriteBook, RunTickBook
  <2>7. CASE ClearBuffer
    BY <2>7, AsideRefused, AsideStep, ClearBufferBook
  <2>8. CASE ClearBufferLoop \/ ClearBufferTest \/ ClearBufferEnd \/ ResetBuffer
    BY <2>8, LoopBook, TestBook, ClearBufferEndBook, ResetBufferBook
  <2>9. CASE ErrorBuffer
    BY <2>9, AsideEndSteps, AsideStep, ErrorBufferBook
  <2>10. CASE ErrorBufferLoop
    BY <2>10, UnwoundSteps, ErrorLoopBook
  <2> QED
    BY <1>1, <2>1, <2>2, <2>3, <2>4, <2>5, <2>6, <2>7, <2>8, <2>9, <2>10 DEF StreamStep
<1>2. ASSUME UserReturns PROVE Booked'
  BY <1>2, AsideWriteSteps, AsideStep
<1>3. ASSUME SinkStep PROVE Booked'
  BY <1>3, AsideSinkSteps, AsideStep, SinkWriteBook, ThrownStep, SinkLaterBook DEF SinkStep
<1>4. ASSUME ClientStep PROVE Booked'
  BY <1>4, ClientBook
<1>5. ASSUME UNCHANGED vars PROVE Booked'
  <2>1. w' = w /\ stack' = stack /\ ticks' = ticks /\ owed' = owed /\ faults' = faults /\ ops' = ops
    BY <1>5 DEF vars, client
  <2>2. Trusted' = Trusted /\ (Sound' <=> Sound)
    BY <2>1 DEF Sound, Trusted
  <2>3. (Bearing' <=> Bearing) /\ (Flawless' <=> Flawless)
    BY <2>1, <2>2 DEF Bearing, Flawless, Writes, Top
  <2> QED
    BY <2>1, <2>2, <2>3 DEF Booked
<1> QED
  BY <1>1, <1>2, <1>3, <1>4, <1>5 DEF Next, Rest

\* Between two handlers length counts the chunk being written and those still
\* in the buffer, no others, as long as the sink does nothing wrong; and a
\* chunk is being written as long as the sink has its callback, unless it calls
\* back twice or throws.  So it is whatever the client calls meanwhile.
THEOREM LengthCounts == Spec => []LengthIsOutstanding
<1>1. Init => Inv /\ Booked
  BY Starts, BookStarts
<1>2. Inv /\ Booked /\ [Next]_vars => Inv' /\ Booked'
  BY Steps, BookSteps
<1>3. Inv /\ Booked => LengthIsOutstanding
  <2> SUFFICES ASSUME Inv, Booked, stack = <<>>
               PROVE  /\ faults = 0 => w.length = w.writelen + Len(Waiting(w))
                      /\ w.writing /\ Trusted => Writes
    BY DEF LengthIsOutstanding, Trusted, Writes
  <2>1. ASSUME faults = 0 PROVE w.length = w.writelen + Len(Waiting(w))
    <3>1. Sound /\ SoundStack(stack, w) /\ FlawlessStack(stack, w)
      BY <2>1 DEF Booked, Sound, Flawless
    <3>2. \A P : ~Has(stack, P)
      BY DEF Has
    <3>3. From(w, w.bufferedIndex)
      BY <3>1, <3>2 DEF SoundStack
    <3>4. Account(w, 0, w.bufferedIndex)
      BY <3>1, <3>2 DEF FlawlessStack, Handing
    <3>5. w.buffered \in Seq(Range(w.buffered)) /\ w.bufferedIndex \in 0 .. Len(w.buffered)
      BY <3>3 DEF Booked, Details, From
    <3>6. Len(Waiting(w)) = Len(w.buffered) - w.bufferedIndex /\ Len(w.buffered) \in Nat /\ w.bufferedIndex \in Nat
      BY <3>5, Left DEF Waiting
    <3>7. w.length = w.writelen + 0 + Len(w.buffered) - w.bufferedIndex
      BY <3>4 DEF Account
    <3>8. w.length \in Int /\ w.writelen \in Int
      BY DEF Inv, Fields
    <3> QED
      BY <3>6, <3>7, <3>8
  <2>2. ASSUME w.writing, Trusted PROVE Writes
    BY <2>2 DEF Booked, Sound, Bearing
  <2> QED
    BY <2>1, <2>2
<1> QED
  BY <1>1, <1>2, <1>3, PTL DEF Spec
=============================================================================
