---------------------------- MODULE EventsProofs ----------------------------
(***************************************************************************)
(* Proofs about Events: however adding, removing and emitting are nested,   *)
(* the emitter's structures are the list of listeners of each event, a once *)
(* listener runs once, and removeAllListeners meets no array that somebody  *)
(* still fills; for any listeners and any number of calls.                  *)
(***************************************************************************)
EXTENDS Events, Integers, FiniteSetTheorems, SequenceTheorems, WellFoundedInduction, TLAPS

\* The hole that removeListener leaves in an array is no function.
HoleIsNoListener == "undefined" \notin Listeners

Entries == [listener : Listeners \cup {"undefined"}, wrapper : Nat]
Real    == Entries \ {Undefined}
Kept    == [kind : {"none", "function", "array"}, fn : Entries, arr : Nat]
Doing   == {"emit", "call", "called", "client", "over", "add", "remove", "clear"}
Frames  == [do : Doing, type : Types, rest : Seq(Real), entry : Entries,
            prepend : BOOLEAN, arr : Nat]

\* What is still to be added is a listener, and an array being cleared is that
\* of its event, or dropped, or left with a hole.
FrameFits(f) ==
    /\ f.do = "add" => f.entry \in Real
    /\ f.do = "clear" => /\ f.arr \in DOMAIN heap
                         /\ \/ f.arr \in {events[f.type].arr} \union dropped
                            \/ heap[f.arr] = <<Undefined>>
Fitting == {f \in Frames : FrameFits(f)}

Busy(l) == {t \in Types : l[t] # <<>>}

\* The list s is what an event's entry e says with the arrays h.
Holds(e, h, s) ==
    /\ e.kind = "array" => e.arr \in DOMAIN h /\ h[e.arr] = s /\ s # <<>>
    /\ e.kind # "array" => e.arr = 0
    /\ e.kind = "function" => s = <<e.fn>>
    /\ e.kind = "none" => s = <<>>

\* Each event with an array has one of its own.
Structure ==
    /\ events \in [Types -> Kept] /\ heap \in Seq(Seq(Entries)) /\ list \in [Types -> Seq(Real)]
    /\ \A t \in Types : Holds(events[t], heap, list[t])
    /\ \A t, u \in Types : events[t].kind = "array" /\ events[u].arr = events[t].arr => t = u
    /\ count = Cardinality(Busy(list))

Once == /\ DOMAIN ran = Wrappers
        /\ \A x \in Wrappers : ran[x] = IF x \in fired THEN 1 ELSE 0

Inv == Structure /\ Once /\ stack \in Seq(Fitting) /\ calls \in Nat

-----------------------------------------------------------------------------
(* Sequences, and the events with a listener.                               *)

LEMMA Least == ASSUME NEW T, T \subseteq Nat, T # {} PROVE \E x \in T : \A y \in T : x <= y
<1> DEFINE R == OpToRel(<, Nat)
<1>1. IsWellFoundedOn(R, Nat)
  BY NatLessThanWellFounded
<1>2. \A x, y \in Nat : y < x => <<y, x>> \in R
  BY DEF OpToRel
<1> HIDE DEF R
<1>3. PICK x \in T : \A y \in T : ~(<<y, x>> \in R)
  BY <1>1, WFMin
<1>4. \A y \in T : x \in Nat /\ y \in Nat /\ ~(y < x)
  BY <1>2, <1>3
<1> QED
  BY <1>4

LEMMA Greatest ==
    ASSUME NEW n \in Nat, NEW T, T \subseteq 1 .. n, T # {}
    PROVE  \E x \in T : \A y \in T : y <= x
<1> DEFINE D == {n - i : i \in T}
<1>0. \A i \in T : i \in 1 .. n /\ n - i \in Nat
  OBVIOUS
<1>1. D \subseteq Nat /\ D # {}
  BY <1>0
<1>2. PICK d \in D : \A y \in D : d <= y
  BY <1>1, Least
<1>3. PICK x \in T : d = n - x
  OBVIOUS
<1>4. \A y \in T : n - x <= n - y
  BY <1>2, <1>3
<1> QED
  BY <1>0, <1>4

LEMMA LastMatchIn ==
    ASSUME NEW S, NEW s \in Seq(S), NEW y
    PROVE  LastMatch(s, y) \in 0 .. Len(s)
<1> DEFINE at == {i \in 1 .. Len(s) : s[i] # Undefined /\ Matches(s[i], y)}
<1>1. Len(s) \in Nat /\ at \subseteq 1 .. Len(s)
  BY LenProperties
<1>2. LastMatch(s, y) = IF at = {} THEN 0 ELSE CHOOSE i \in at : \A j \in at : j <= i
  BY DEF LastMatch
<1> HIDE DEF at
<1>3. CASE at = {}
  BY <1>1, <1>2, <1>3
<1>4. CASE at # {}
  <2>1. \E i \in at : \A j \in at : j <= i
    BY <1>1, <1>4, Greatest
  <2> DEFINE m == CHOOSE i \in at : \A j \in at : j <= i
  <2>2. m \in at
    BY <2>1
  <2>3. LastMatch(s, y) = m
    BY <1>2, <1>4
  <2> HIDE DEF m
  <2> QED
    BY <1>1, <2>2, <2>3
<1> QED
  BY <1>3, <1>4

LEMMA Removed ==
    ASSUME NEW S, NEW s \in Seq(S), NEW i \in 1 .. Len(s)
    PROVE  RemoveAt(s, i) \in Seq(S) /\ Len(RemoveAt(s, i)) = Len(s) - 1
<1>1. Len(s) \in Nat /\ \A j \in 1 .. Len(s) : s[j] \in S
  BY LenProperties, ElementOfSeq
<1> DEFINE a == SubSeq(s, 1, i - 1)
           b == SubSeq(s, i + 1, Len(s))
<1>2. a \in Seq(S) /\ Len(a) = i - 1
  BY <1>1, SubSeqProperties
<1>3. b \in Seq(S) /\ Len(b) = Len(s) - i
  BY <1>1, SubSeqProperties
<1>4. RemoveAt(s, i) = a \o b
  BY DEF RemoveAt
<1> HIDE DEF a, b
<1>5. a \o b \in Seq(S) /\ Len(a \o b) = Len(a) + Len(b)
  BY <1>2, <1>3, ConcatProperties
<1> QED
  BY <1>1, <1>2, <1>3, <1>4, <1>5

LEMMA Counts ==
    ASSUME NEW l \in [Types -> Seq(Real)], NEW t \in Types, NEW s
    PROVE  /\ IsFiniteSet(Busy(l)) /\ Cardinality(Busy(l)) \in Nat
           /\ l[t] = <<>> /\ s # <<>> =>
                 Cardinality(Busy([l EXCEPT ![t] = s])) = Cardinality(Busy(l)) + 1
           /\ l[t] # <<>> /\ s = <<>> =>
                 Cardinality(Busy([l EXCEPT ![t] = s])) = Cardinality(Busy(l)) - 1
           /\ (l[t] = <<>>) = (s = <<>>) => Busy([l EXCEPT ![t] = s]) = Busy(l)
           /\ l[t] # <<>> /\ Cardinality(Busy(l)) = 1 => \A u \in Types \ {t} : l[u] = <<>>
<1>1. IsFiniteSet(Types)
  <2>1. Types = (({} \cup {"data"}) \cup {"newListener"}) \cup {"removeListener"}
    BY DEF Types, Meta
  <2>2. IsFiniteSet(({} \cup {"data"}) \cup {"newListener"})
    BY FS_EmptySet, FS_AddElement
  <2> QED
    BY <2>1, <2>2, FS_AddElement
<1>2. IsFiniteSet(Busy(l)) /\ Cardinality(Busy(l)) \in Nat
  BY <1>1, FS_Subset, FS_CardinalityType DEF Busy
<1>3. ASSUME l[t] = <<>>, s # <<>>
      PROVE  Cardinality(Busy([l EXCEPT ![t] = s])) = Cardinality(Busy(l)) + 1
  <2>1. Busy([l EXCEPT ![t] = s]) = Busy(l) \cup {t} /\ t \notin Busy(l)
    BY <1>3 DEF Busy
  <2> QED
    BY <1>2, <2>1, FS_AddElement
<1>4. ASSUME l[t] # <<>>, s = <<>>
      PROVE  Cardinality(Busy([l EXCEPT ![t] = s])) = Cardinality(Busy(l)) - 1
  <2>1. Busy([l EXCEPT ![t] = s]) = Busy(l) \ {t} /\ t \in Busy(l)
    BY <1>4 DEF Busy
  <2> QED
    BY <1>2, <2>1, FS_RemoveElement
<1>5. ASSUME (l[t] = <<>>) = (s = <<>>) PROVE Busy([l EXCEPT ![t] = s]) = Busy(l)
  BY <1>5 DEF Busy
<1>6. ASSUME l[t] # <<>>, Cardinality(Busy(l)) = 1, NEW u \in Types \ {t} PROVE l[u] = <<>>
  <2>1. PICK x : Busy(l) = {x}
    BY <1>2, <1>6, FS_Singleton
  <2> QED
    BY <1>6, <2>1 DEF Busy
<1> QED
  BY <1>2, <1>3, <1>4, <1>5, <1>6

-----------------------------------------------------------------------------
(* Frames.                                                                  *)

LEMMA Joined ==
    ASSUME NEW S
    PROVE  /\ \A a, b \in Seq(S) : a \o b \in Seq(S)
           /\ \A a \in S : <<a>> \in Seq(S)
           /\ <<>> \in Seq(S)
  BY ConcatProperties

LEMMA TopFits ==
    ASSUME Inv, stack # <<>>
    PROVE  Top \in Frames /\ Top \in Fitting /\ Below \in Seq(Fitting)
<1>1. stack \in Seq(Fitting)
  BY DEF Inv
<1>2. Head(stack) \in Fitting /\ Tail(stack) \in Seq(Fitting) /\ Head(stack) = stack[1]
  BY <1>1, HeadTailProperties
<1> QED
  BY <1>2 DEF Top, Below, Fitting

LEMMA OfIsList == ASSUME Structure, NEW t \in Types PROVE Of(t) = list[t]
  BY DEF Structure, Holds, Of, Kept

LEMMA Pushable ==
    ASSUME Inv, NEW t \in Types
    PROVE  /\ Emitting(t) \in Fitting
           /\ \A x \in Entries : Calling(t, x) \in Fitting /\ Removing(t, x) \in Fitting
           /\ \A x \in Real : \A p \in BOOLEAN : Adding(t, x, p) \in Fitting
           /\ events[t].kind = "array" => Clearing(t, events[t].arr) \in Fitting
           /\ \A e : Emits(e, t) \in Seq(Fitting)
<1>1. Of(t) \in Seq(Real) /\ Undefined \in Entries /\ <<>> \in Seq(Real)
  BY Joined, OfIsList DEF Inv, Structure, Undefined, Entry, Entries
<1> HIDE DEF Entries, Real
<1>2. Emitting(t) \in Frames
  BY <1>1 DEF Emitting, Frames, Doing
<1>3. Emitting(t) \in Fitting
  BY <1>2 DEF Emitting, Fitting, FrameFits
<1>4. ASSUME NEW x \in Entries PROVE Calling(t, x) \in Fitting /\ Removing(t, x) \in Fitting
  <2>1. Calling(t, x) \in Frames /\ Removing(t, x) \in Frames
    BY <1>1, <1>2 DEF Emitting, Calling, Removing, Frames, Doing
  <2>2. Calling(t, x).do = "call" /\ Removing(t, x).do = "remove"
    BY DEF Calling, Removing, Emitting
  <2> QED
    BY <2>1, <2>2 DEF Fitting, FrameFits
<1>5. ASSUME NEW x \in Real, NEW p \in BOOLEAN PROVE Adding(t, x, p) \in Fitting
  <2>1. Adding(t, x, p) \in Frames
    BY <1>1, <1>2 DEF Emitting, Adding, Frames, Real, Doing
  <2>2. Adding(t, x, p).do = "add" /\ Adding(t, x, p).entry = x
    BY DEF Adding, Emitting
  <2> QED
    BY <2>1, <2>2 DEF Fitting, FrameFits
<1>6. ASSUME events[t].kind = "array" PROVE Clearing(t, events[t].arr) \in Fitting
  <2>1. events[t].arr \in Nat /\ events[t].arr \in DOMAIN heap
    BY <1>6 DEF Inv, Structure, Holds, Kept
  <2>2. Clearing(t, events[t].arr) \in Frames
    BY <1>1, <1>2, <2>1 DEF Emitting, Clearing, Frames, Doing
  <2>3. /\ Clearing(t, events[t].arr).do = "clear" /\ Clearing(t, events[t].arr).type = t
        /\ Clearing(t, events[t].arr).arr = events[t].arr
    BY DEF Clearing, Emitting
  <2> QED
    BY <2>1, <2>2, <2>3 DEF Fitting, FrameFits
<1>7. ASSUME NEW e PROVE Emits(e, t) \in Seq(Fitting)
  BY <1>3, Joined DEF Emits
<1> QED
  BY <1>3, <1>4, <1>5, <1>6, <1>7

\* The top frame goes on as another of the same call.
LEMMA Goes ==
    ASSUME Inv, stack # <<>>, NEW d \in {"called", "client", "over"}
    PROVE  [Top EXCEPT !.do = d] \in Fitting
<1>1. [Top EXCEPT !.do = d] \in Frames /\ [Top EXCEPT !.do = d].do = d
  BY TopFits DEF Frames, Doing
<1> QED
  BY <1>1 DEF Fitting, FrameFits

\* A step that leaves the structures alone.
LEMMA StackStep ==
    ASSUME Inv, UNCHANGED <<events, count, heap, list, dropped>>, Once', calls' \in Nat,
           stack' \in Seq(Fitting)
    PROVE  Inv'
<1>1. Structure'
  BY DEF Inv, Structure, Busy, Holds
<1>2. Fitting' = Fitting
  BY DEF Fitting, FrameFits
<1> QED
  BY <1>1, <1>2 DEF Inv

LEMMA EmitStep == ASSUME Inv, Emit PROVE Inv'
<1>1. stack # <<>> /\ Top \in Fitting /\ Top \in Frames /\ Below \in Seq(Fitting) /\ Top.do = "emit"
  BY TopFits DEF Emit, Runs
<1>2. CASE Top.rest = <<>>
  BY <1>1, <1>2, StackStep DEF Emit, Inv, Once
<1>3. CASE Top.rest # <<>>
  <2>1. Head(Top.rest) \in Entries /\ Tail(Top.rest) \in Seq(Real)
    BY <1>1, <1>3, HeadTailProperties DEF Frames, Real
  <2>2. [Top EXCEPT !.rest = Tail(@)] \in Fitting
    <3>1. /\ [Top EXCEPT !.rest = Tail(@)] \in Frames
          /\ [Top EXCEPT !.rest = Tail(@)].do = "emit"
      BY <1>1, <2>1 DEF Frames
    <3> QED
      BY <3>1 DEF Fitting, FrameFits
  <2>3. Calling(Top.type, Head(Top.rest)) \in Fitting
    BY <1>1, <2>1, Pushable DEF Frames
  <2>4. stack' \in Seq(Fitting)
    BY <1>1, <1>3, <2>2, <2>3, Joined DEF Emit
  <2> QED
    BY <2>4, StackStep DEF Emit, Inv, Once
<1> QED
  BY <1>2, <1>3

LEMMA CallStep == ASSUME Inv, CallListener PROVE Inv'
<1>1. stack # <<>> /\ Top \in Frames /\ Below \in Seq(Fitting)
  BY TopFits DEF CallListener, Runs
<1>2. Removing(Top.type, Top.entry) \in Fitting /\ [Top EXCEPT !.do = "called"] \in Fitting
  BY <1>1, Pushable, Goes DEF Frames
<1>3. stack' \in Seq(Fitting)
  BY <1>1, <1>2, Joined DEF CallListener
<1> QED
  BY <1>3, StackStep DEF CallListener, Inv, Once

\* A wrapper that has called its listener is among the fired ones.
LEMMA CalledStep == ASSUME Inv, Called PROVE Inv'
<1>1. stack # <<>> /\ Below \in Seq(Fitting)
  BY TopFits DEF Called, Runs
<1>2. [Top EXCEPT !.do = "client"] \in Fitting /\ [Top EXCEPT !.do = "over"] \in Fitting
  BY <1>1, Goes
<1>3. stack' \in Seq(Fitting)
  <2>1. \E d \in {"client", "over"} : stack' = <<[Top EXCEPT !.do = d]>> \o Below
    BY DEF Called
  <2> QED
    BY <1>1, <1>2, <2>1, Joined
<1>4. Once'
  BY DEF Called, Inv, Once
<1> QED
  BY <1>3, <1>4, StackStep DEF Called, Inv

LEMMA ReturnStep == ASSUME Inv, Return PROVE Inv'
<1>1. Below \in Seq(Fitting)
  BY TopFits DEF Return, Runs
<1> QED
  BY <1>1, StackStep DEF Return, Inv, Once

LEMMA ClearStep == ASSUME Inv, Clear PROVE Inv'
<1> DEFINE s == heap[Top.arr]
<1>1. /\ stack # <<>> /\ Top \in Frames /\ Top \in Fitting /\ Top.do = "clear"
      /\ Below \in Seq(Fitting) /\ stack \in Seq(Fitting)
  BY TopFits DEF Clear, Runs, Inv
<1>2. s \in Seq(Entries)
  <2>1. Top.arr \in DOMAIN heap /\ heap \in Seq(Seq(Entries))
    BY <1>1 DEF Fitting, FrameFits, Inv, Structure
  <2> QED
    BY <2>1, LenProperties, ElementOfSeq
<1>3. s # <<>> => s[Len(s)] \in Entries
  BY <1>2, EmptySeq, LenProperties, ElementOfSeq
<1>4. s # <<>> => Removing(Top.type, s[Len(s)]) \in Fitting
  BY <1>1, <1>3, Pushable DEF Frames
<1>5. stack' \in Seq(Fitting)
  BY <1>1, <1>4, Joined DEF Clear
<1> QED
  BY <1>5, StackStep DEF Clear, Inv, Once

-----------------------------------------------------------------------------
(* Steps that change the structures.                                        *)

\* One event gets another list.
LEMMA OneEvent ==
    ASSUME Inv, NEW t \in Types, NEW e \in Kept, NEW s \in Seq(Real),
           events' = [events EXCEPT ![t] = e], list' = [list EXCEPT ![t] = s],
           heap' \in Seq(Seq(Entries)), Holds(e, heap', s),
           \A u \in Types \ {t} :
              events[u].kind = "array" =>
                 /\ events[u].arr \in DOMAIN heap' /\ heap'[events[u].arr] = heap[events[u].arr]
                 /\ e.arr # events[u].arr,
           \A u \in Types \ {t} : e.kind = "array" => e.arr # events[u].arr,
           count' = count + (IF s = <<>> THEN 0 ELSE 1) - (IF list[t] = <<>> THEN 0 ELSE 1)
    PROVE  Structure'
<1>1. events' \in [Types -> Kept] /\ list' \in [Types -> Seq(Real)]
  BY DEF Inv, Structure
<1>2. ASSUME NEW u \in Types PROVE Holds(events'[u], heap', list'[u])
  BY DEF Inv, Structure, Holds
<1>3. ASSUME NEW u \in Types, NEW v \in Types, events'[u].kind = "array", events'[v].arr = events'[u].arr
      PROVE  u = v
  BY <1>3 DEF Inv, Structure
<1>4. count' = Cardinality(Busy([list EXCEPT ![t] = s]))
  <2>1. list \in [Types -> Seq(Real)] /\ count = Cardinality(Busy(list))
    BY DEF Inv, Structure
  <2>2. Cardinality(Busy(list)) \in Nat
    BY <2>1, Counts
  <2>3. CASE (list[t] = <<>>) = (s = <<>>)
    <3>1. Busy([list EXCEPT ![t] = s]) = Busy(list)
      BY <2>1, <2>3, Counts
    <3> QED
      BY <2>1, <2>2, <2>3, <3>1
  <2>4. CASE list[t] = <<>> /\ s # <<>>
    <3>1. Cardinality(Busy([list EXCEPT ![t] = s])) = Cardinality(Busy(list)) + 1
      BY <2>1, <2>4, Counts
    <3> QED
      BY <2>1, <2>2, <2>4, <3>1
  <2>5. CASE list[t] # <<>> /\ s = <<>>
    <3>1. Cardinality(Busy([list EXCEPT ![t] = s])) = Cardinality(Busy(list)) - 1
      BY <2>1, <2>5, Counts
    <3> QED
      BY <2>1, <2>2, <2>5, <3>1
  <2> QED
    BY <2>3, <2>4, <2>5
<1>5. Busy(list)' = Busy([list EXCEPT ![t] = s])
  BY DEF Busy
<1> QED
  BY <1>1, <1>2, <1>3, <1>4, <1>5 DEF Structure

\* An array that is being cleared stays its event's, or is dropped, or has a
\* hole.
LEMMA FramesKept ==
    ASSUME Inv, DOMAIN heap \subseteq DOMAIN heap', dropped \subseteq dropped',
           \A a \in DOMAIN heap : heap[a] = <<Undefined>> => heap'[a] = <<Undefined>>,
           \A u \in Types : events[u].kind = "array" =>
              \/ events[u].arr \in {events'[u].arr} \cup dropped'
              \/ heap'[events[u].arr] = <<Undefined>>
    PROVE  Fitting \subseteq Fitting'
<1> SUFFICES ASSUME NEW f \in Frames, FrameFits(f) PROVE FrameFits(f)'
  BY DEF Fitting
<1>1. CASE f.do # "clear"
  BY <1>1 DEF FrameFits
<1>2. CASE f.do = "clear"
  <2>1. f.type \in Types /\ f.arr \in DOMAIN heap /\ f.do # "add"
    BY <1>2 DEF FrameFits, Frames
  <2>2. CASE f.arr = events[f.type].arr
    <3>1. events[f.type].kind = "array"
      <4>1. 0 \notin DOMAIN heap
        BY LenProperties DEF Inv, Structure
      <4> QED
        BY <2>1, <2>2, <4>1 DEF Inv, Structure, Holds
    <3> QED
      BY <2>1, <2>2, <3>1 DEF FrameFits
  <2>3. CASE f.arr \in dropped \/ heap[f.arr] = <<Undefined>>
    BY <2>1, <2>3 DEF FrameFits
  <2> QED
    BY <1>2, <2>2, <2>3 DEF FrameFits
<1> QED
  BY <1>1, <1>2

LEMMA HeapStep ==
    ASSUME Inv, Structure', Fitting \subseteq Fitting', stack' \in Seq(Fitting),
           UNCHANGED <<fired, ran>>, calls' \in Nat
    PROVE  Inv'
<1>1. stack' \in Seq(Fitting')
  BY SeqMonotonic
<1> QED
  BY <1>1 DEF Inv, Once

LEMMA Pair == \A a, b : <<a>> \o <<b>> = <<a, b>>
<1> TAKE a, b
<1> DEFINE c == <<a>> \o <<b>>
           d == <<a, b>>
<1>1. /\ <<a>> \in Seq({a, b}) /\ <<b>> \in Seq({a, b}) /\ Len(<<a>>) = 1 /\ Len(<<b>>) = 1
      /\ d \in Seq({a, b}) /\ Len(d) = 2 /\ d[1] = a /\ d[2] = b
  OBVIOUS
<1>2. c \in Seq({a, b}) /\ Len(c) = 2 /\ c[1] = a /\ c[2] = b
  BY <1>1, ConcatProperties
<1> HIDE DEF c, d
<1>3. c = d
  BY <1>1, <1>2, SeqEqual
<1> QED
  BY <1>3 DEF c, d

LEMMA Longer ==
    ASSUME NEW S, NEW x \in S, NEW s \in Seq(S)
    PROVE  /\ <<x>> \o s \in Seq(S) /\ <<x>> \o s # <<>>
           /\ Append(s, x) \in Seq(S) /\ Append(s, x) # <<>>
           /\ s = <<>> => <<x>> \o s = <<x>> /\ Append(s, x) = <<x>>
           /\ \A y \in S : s = <<y>> => <<x>> \o s = <<x, y>> /\ Append(s, x) = <<y, x>>
<1>1. <<x>> \in Seq(S) /\ Len(<<x>>) = 1
  OBVIOUS
<1>2. <<x>> \o s \in Seq(S) /\ <<x>> \o s # <<>>
  BY <1>1, ConcatProperties, LenProperties, EmptySeq
<1>3. Append(s, x) \in Seq(S) /\ Append(s, x) # <<>>
  BY AppendProperties
<1>4. s = <<>> => <<x>> \o s = <<x>> /\ Append(s, x) = <<x>>
  BY <1>1, ConcatEmptySeq
<1>5. ASSUME NEW y \in S, s = <<y>> PROVE <<x>> \o s = <<x, y>> /\ Append(s, x) = <<y, x>>
  <2>1. Append(s, x) = s \o <<x>>
    BY AppendIsConcat
  <2> QED
    BY <1>5, <2>1, Pair
<1> QED
  BY <1>2, <1>3, <1>4, <1>5

LEMMA AddStep == ASSUME Inv, AddListener PROVE Inv'
<1> DEFINE t == Top.type
           x == Top.entry
           e == events[t]
           two == IF Top.prepend THEN <<x, e.fn>> ELSE <<e.fn, x>>
           new == IF Top.prepend THEN <<x>> \o list[t] ELSE Append(list[t], x)
<1>1. /\ stack' \in Seq(Fitting) /\ t \in Types /\ x \in Real /\ x \in Entries
      /\ e \in Kept /\ Holds(e, heap, list[t]) /\ list[t] \in Seq(Real)
  <2>1. Top \in Fitting /\ Top \in Frames /\ Top.do = "add" /\ stack' = Below /\ Below \in Seq(Fitting)
    BY TopFits DEF AddListener, Runs
  <2> QED
    BY <2>1 DEF Fitting, FrameFits, Frames, Inv, Structure
<1>2. new \in Seq(Real) /\ new # <<>>
  BY <1>1, Longer
<1>3. list' = [list EXCEPT ![t] = new] /\ UNCHANGED <<fired, calls, dropped, ran>>
  BY DEF AddListener
<1> HIDE DEF new
<1>4. /\ \A u \in Types : Holds(events[u], heap, list[u]) /\ list[u] \in Seq(Real) /\ events[u] \in Kept
      /\ \A u, v \in Types : events[u].kind = "array" /\ events[v].arr = events[u].arr => u = v
      /\ heap \in Seq(Seq(Entries)) /\ Len(heap) \in Nat /\ DOMAIN heap = 1 .. Len(heap)
      /\ count \in Nat
  <2>1. Cardinality(Busy(list)) \in Nat
    BY <1>1, Counts DEF Inv, Structure
  <2> QED
    BY <2>1, LenProperties DEF Inv, Structure
<1>5. CASE e.kind = "none"
  <2>1. events' = [events EXCEPT ![t] = Only(x)] /\ count' = count + 1 /\ heap' = heap
    BY <1>5 DEF AddListener
  <2>2. list[t] = <<>> /\ new = <<x>> /\ Only(x) \in Kept
    <3>1. list[t] = <<>>
      BY <1>1, <1>5 DEF Holds
    <3>2. new = <<x>>
      BY <1>1, <3>1, Longer DEF new
    <3> QED
      BY <1>1, <3>1, <3>2 DEF Only, Kept
  <2>3. Holds(Only(x), heap', new) /\ Only(x).arr = 0 /\ Only(x).kind = "function"
    BY <2>2 DEF Holds, Only
  <2>4. Structure'
    <3>1. \A u \in Types \ {t} : events[u].kind = "array" =>
             /\ events[u].arr \in DOMAIN heap' /\ heap'[events[u].arr] = heap[events[u].arr]
             /\ Only(x).arr # events[u].arr
      BY <1>4, <2>1, <2>3 DEF Holds
    <3>2. \A u \in Types \ {t} : Only(x).kind = "array" => Only(x).arr # events[u].arr
      BY <2>3 DEF Holds, Kept
    <3>3. count' = count + (IF new = <<>> THEN 0 ELSE 1) - (IF list[t] = <<>> THEN 0 ELSE 1)
      BY <1>2, <1>4, <2>1, <2>2
    <3> QED
      BY <1>1, <1>2, <1>3, <1>4, <2>1, <2>2, <2>3, <3>1, <3>2, <3>3, OneEvent
  <2>5. Fitting \subseteq Fitting'
    BY <1>1, <1>3, <1>5, <2>1, FramesKept
  <2> QED
    BY <1>1, <1>3, <2>4, <2>5, HeapStep DEF Inv
<1>6. CASE e.kind = "function"
  <2> DEFINE a == Array(Len(heap) + 1)
  <2>1. events' = [events EXCEPT ![t] = a] /\ count' = count /\ heap' = Append(heap, two)
    BY <1>6 DEF AddListener
  <2>2. list[t] = <<e.fn>> /\ new = two
    <3>1. list[t] = <<e.fn>>
      BY <1>1, <1>6 DEF Holds
    <3>2. e.fn \in Real
      BY <1>1, <3>1, ElementOfSeq
    <3>3. /\ <<x>> \o list[t] = <<x, e.fn>>
          /\ Append(list[t], x) = <<e.fn, x>>
      BY <1>1, <3>1, <3>2, Longer, ZenonT(40)
    <3> QED
      BY <3>1, <3>3 DEF new
  <2>3. two \in Seq(Entries)
    BY <1>2, <2>2, SeqMonotonic DEF Real
  <2>4. a \in Kept /\ a.kind = "array" /\ a.arr = Len(heap) + 1
    BY <1>4 DEF Array, Kept, Undefined, Entry, Entries
  <2> HIDE DEF two, a
  <2>5. /\ heap' \in Seq(Seq(Entries)) /\ DOMAIN heap' = 1 .. Len(heap) + 1
        /\ \A i \in DOMAIN heap : heap'[i] = heap[i]
        /\ heap'[Len(heap) + 1] = two
    BY <1>4, <2>1, <2>3, AppendProperties, LenProperties
  <2>6. Holds(a, heap', new)
    BY <1>2, <1>4, <2>2, <2>4, <2>5 DEF Holds
  <2>7. Structure'
    <3>1. \A u \in Types \ {t} : events[u].kind = "array" =>
             /\ events[u].arr \in DOMAIN heap' /\ heap'[events[u].arr] = heap[events[u].arr]
             /\ a.arr # events[u].arr
      BY <1>4, <2>4, <2>5 DEF Holds
    <3>2. \A u \in Types \ {t} : a.kind = "array" => a.arr # events[u].arr
      BY <1>4, <2>4 DEF Holds, Kept
    <3>3. count' = count + (IF new = <<>> THEN 0 ELSE 1) - (IF list[t] = <<>> THEN 0 ELSE 1)
      BY <1>2, <1>4, <2>1, <2>2
    <3> QED
      BY <1>1, <1>2, <1>3, <2>1, <2>4, <2>5, <2>6, <3>1, <3>2, <3>3, OneEvent
  <2>8. Fitting \subseteq Fitting'
    BY <1>1, <1>3, <1>4, <1>6, <2>1, <2>5, FramesKept
  <2> QED
    BY <1>1, <1>3, <2>7, <2>8, HeapStep DEF Inv
<1>7. CASE e.kind = "array"
  <2>1. events' = events /\ count' = count 
        /\ heap' = [heap EXCEPT ![e.arr] = IF Top.prepend THEN <<x>> \o @ ELSE Append(@, x)]
    BY <1>7 DEF AddListener
  <2>2. list[t] = heap[e.arr] /\ list[t] # <<>> /\ e.arr \in DOMAIN heap
    BY <1>1, <1>7 DEF Holds
  <2>3. new \in Seq(Entries)
    BY <1>2, <2>2, SeqMonotonic DEF Real
  <2>4. /\ heap' \in Seq(Seq(Entries)) /\ DOMAIN heap' = DOMAIN heap
        /\ heap'[e.arr] = new
        /\ \A i \in DOMAIN heap \ {e.arr} : heap'[i] = heap[i]
    <3>1. heap' = [heap EXCEPT ![e.arr] = new]
      BY <2>1, <2>2 DEF new
    <3> QED
      BY <1>4, <2>2, <2>3, <3>1, ExceptSeq, LenProperties
  <2>5. events' = [events EXCEPT ![t] = e]
    BY <1>1, <2>1 DEF Inv, Structure
  <2>6. Holds(e, heap', new)
    BY <1>1, <1>2, <1>7, <2>2, <2>4 DEF Holds
  <2>7. Structure'
    <3>1. \A u \in Types \ {t} : events[u].kind = "array" =>
             /\ events[u].arr \in DOMAIN heap' /\ heap'[events[u].arr] = heap[events[u].arr]
             /\ e.arr # events[u].arr
      BY <1>1, <1>4, <1>7, <2>2, <2>4 DEF Holds
    <3>2. \A u \in Types \ {t} : e.kind = "array" => e.arr # events[u].arr
      BY <1>1, <1>4 DEF Holds, Kept
    <3>3. count' = count + (IF new = <<>> THEN 0 ELSE 1) - (IF list[t] = <<>> THEN 0 ELSE 1)
      BY <1>2, <1>4, <2>1, <2>2
    <3> QED
      BY <1>1, <1>2, <1>3, <2>4, <2>5, <2>6, <3>1, <3>2, <3>3, OneEvent
  <2>8. heap[e.arr] # <<Undefined>>
    <3>1. list[t] = <<Undefined>> => list[t][1] \in Real
      BY <1>1, ElementOfSeq
    <3> QED
      BY <2>2, <3>1 DEF Real
  <2>9. Fitting \subseteq Fitting'
    BY <1>3, <2>1, <2>4, <2>8, FramesKept
  <2> QED
    BY <1>1, <1>3, <2>7, <2>9, HeapStep DEF Inv
<1> QED
  BY <1>1, <1>5, <1>6, <1>7 DEF Kept

\* Nobody is left to listen to anything.
LEMMA NoneLeft ==
    ASSUME Inv, NEW t \in Types, list[t] # <<>>, count = 1, events' = NoEvents, count' = count - 1,
           list' = [list EXCEPT ![t] = <<>>], heap' \in Seq(Seq(Entries))
    PROVE  /\ Structure'
           /\ \A u \in Types \ {t} : events[u].kind = "none"
<1>1. list \in [Types -> Seq(Real)] /\ count = Cardinality(Busy(list)) /\ events \in [Types -> Kept]
  BY DEF Inv, Structure
<1>2. \A u \in Types \ {t} : list[u] = <<>>
  BY <1>1, Counts
<1>3. Cardinality(Busy([list EXCEPT ![t] = <<>>])) = count'
  BY <1>1, Counts
<1>4. Busy(list)' = Busy([list EXCEPT ![t] = <<>>])
  BY DEF Busy
<1>5. /\ Nobody \in Kept /\ Nobody.kind = "none" /\ Nobody.arr = 0
      /\ \A u \in Types : events'[u] = Nobody /\ list'[u] = <<>>
  BY <1>1, <1>2 DEF NoEvents, Nobody, Kept, Undefined, Entry, Entries
<1>6. events' \in [Types -> Kept] /\ list' \in [Types -> Seq(Real)]
  BY <1>1, <1>5, EmptySeq DEF NoEvents
<1>7. \A u \in Types : Holds(events'[u], heap', list'[u])
  BY <1>5 DEF Holds
<1>8. ASSUME NEW u \in Types \ {t} PROVE events[u].kind = "none"
  <2>1. events[u] \in Kept /\ Holds(events[u], heap, <<>>)
    BY <1>1, <1>2 DEF Inv, Structure
  <2>2. \A y : <<y>> # <<>>
    OBVIOUS
  <2> QED
    BY <2>1, <2>2 DEF Holds, Kept
<1> QED
  BY <1>3, <1>4, <1>5, <1>6, <1>7, <1>8 DEF Structure

\* An event loses its last listener while others keep theirs.
LEMMA OneLess ==
    ASSUME Inv, NEW t \in Types, events' = [events EXCEPT ![t] = Nobody],
           list' = [list EXCEPT ![t] = <<>>], heap' \in Seq(Seq(Entries)),
           \A u \in Types \ {t} :
              events[u].kind = "array" =>
                 events[u].arr \in DOMAIN heap' /\ heap'[events[u].arr] = heap[events[u].arr],
           count' = IF list[t] = <<>> THEN count ELSE count - 1
    PROVE  Structure'
<1>1. Nobody \in Kept /\ Nobody.kind = "none" /\ Nobody.arr = 0 /\ <<>> \in Seq(Real)
  BY EmptySeq DEF Nobody, Kept, Undefined, Entry, Entries
<1>2. Holds(Nobody, heap', <<>>)
  BY <1>1 DEF Holds
<1>3. \A u \in Types \ {t} : events[u].kind = "array" =>
         /\ events[u].arr \in DOMAIN heap' /\ heap'[events[u].arr] = heap[events[u].arr]
         /\ Nobody.arr # events[u].arr
  <2>1. 0 \notin DOMAIN heap
    BY LenProperties DEF Inv, Structure
  <2> QED
    BY <1>1, <2>1 DEF Inv, Structure, Holds
<1>4. \A u \in Types \ {t} : Nobody.kind = "array" => Nobody.arr # events[u].arr
  BY <1>1
<1>5. count' = count + (IF <<>> = <<>> THEN 0 ELSE 1) - (IF list[t] = <<>> THEN 0 ELSE 1)
  <2>1. count \in Nat
    BY Counts DEF Inv, Structure
  <2> QED
    BY <2>1
<1> QED
  BY <1>1, <1>2, <1>3, <1>4, <1>5, OneEvent

LEMMA RemoveStep == ASSUME Inv, RemoveListener PROVE Inv'
<1> DEFINE t == Top.type
           e == events[t]
           i == LastMatch(Of(t), Top.entry)
           last == e.kind = "function" \/ Len(Of(t)) = 1
           gone == IF count = 1 THEN NoEvents ELSE [events EXCEPT ![t] = Nobody]
           new == RemoveAt(list[t], i)
<1>1. /\ t \in Types /\ Below \in Seq(Fitting) /\ stack # <<>>
      /\ Of(t) = list[t] /\ list[t] \in Seq(Real)
      /\ e \in Kept /\ Holds(e, heap, list[t])
  <2>1. Top \in Frames /\ Below \in Seq(Fitting) /\ stack # <<>>
    BY TopFits DEF RemoveListener, Runs
  <2> QED
    BY <2>1, OfIsList DEF Frames, Inv, Structure
<1>2. i \in 0 .. Len(list[t]) /\ Len(list[t]) \in Nat
  BY <1>1, LastMatchIn, LenProperties
<1>3. stack' \in Seq(Fitting)
  <2>1. \A ev : Emits(ev, "removeListener") \in Seq(Fitting)
    BY Pushable DEF Types, Meta
  <2>2. \E s \in Seq(Fitting) : stack' = s \o Below \/ stack' = Below
    BY <2>1, Joined DEF RemoveListener
  <2> QED
    BY <1>1, <2>2, Joined
<1>4. UNCHANGED <<fired, calls, dropped, ran>>
  BY DEF RemoveListener
<1>5. CASE i = 0
  <2>1. UNCHANGED <<events, count, heap, list>>
    BY <1>5 DEF RemoveListener
  <2> QED
    BY <1>3, <1>4, <2>1, StackStep DEF Inv, Once
<1>6. CASE i # 0
  <2>1. new \in Seq(Real) /\ Len(new) = Len(list[t]) - 1 /\ list[t] # <<>>
    BY <1>1, <1>2, <1>6, Removed
  <2>2. list' = [list EXCEPT ![t] = new]
    BY <1>1, <1>6 DEF RemoveListener
  <2>3. /\ heap \in Seq(Seq(Entries)) /\ DOMAIN heap = 1 .. Len(heap) /\ Len(heap) \in Nat
        /\ \A u \in Types : Holds(events[u], heap, list[u]) /\ events[u] \in Kept
        /\ \A u, v \in Types : events[u].kind = "array" /\ events[v].arr = events[u].arr => u = v
        /\ count \in Nat
    <3>1. Cardinality(Busy(list)) \in Nat
      BY <1>1, Counts DEF Inv, Structure
    <3> QED
      BY <3>1, LenProperties DEF Inv, Structure
  <2>4. e.kind = "function" => Len(list[t]) = 1
    <3>1. e.kind = "function" => list[t] = <<e.fn>>
      BY <1>1 DEF Holds
    <3>2. \A y : Len(<<y>>) = 1
      OBVIOUS
    <3> QED
      BY <3>1, <3>2
  <2>5. e.kind = "array" => e.arr \in 1 .. Len(heap) /\ heap[e.arr] = list[t]
    BY <1>1, <2>3 DEF Holds
  <2>6. e.kind = "function" \/ e.kind = "array"
    BY <1>1, <2>1 DEF Holds, Kept
  <2>7. heap[e.arr] = list[t] => heap[e.arr] # <<Undefined>>
    <3>1. list[t] = <<Undefined>> => list[t][1] \in Real
      BY <1>1, ElementOfSeq
    <3> QED
      BY <3>1 DEF Real
  <2>8. CASE ~last
    <3>1. /\ events' = events /\ count' = count /\ e.kind = "array"
          /\ heap' = [heap EXCEPT ![e.arr] = RemoveAt(@, i)]
      BY <1>6, <2>6, <2>8 DEF RemoveListener
    <3>2. heap' = [heap EXCEPT ![e.arr] = new]
      BY <2>5, <3>1
    <3> HIDE DEF new, i
    <3>3. new # <<>>
      <4>1. Len(list[t]) # 1 /\ Len(list[t]) # 0
        BY <1>1, <2>1, <2>8, EmptySeq
      <4>2. Len(new) # 0
        BY <1>2, <2>1, <4>1
      <4> QED
        BY <4>2, EmptySeq
    <3>4. new \in Seq(Entries)
      BY <2>1, SeqMonotonic DEF Real
    <3>5. /\ heap' \in Seq(Seq(Entries)) /\ DOMAIN heap' = DOMAIN heap /\ heap'[e.arr] = new
          /\ \A j \in DOMAIN heap \ {e.arr} : heap'[j] = heap[j]
      BY <2>3, <2>5, <3>1, <3>2, <3>4, ExceptSeq, LenProperties
    <3>6. events' = [events EXCEPT ![t] = e]
      BY <1>1, <3>1 DEF Inv, Structure
    <3>7. Holds(e, heap', new)
      BY <2>3, <2>5, <3>1, <3>3, <3>5 DEF Holds
    <3>8. Structure'
      <4>1. \A u \in Types \ {t} : events[u].kind = "array" =>
               /\ events[u].arr \in DOMAIN heap' /\ heap'[events[u].arr] = heap[events[u].arr]
               /\ e.arr # events[u].arr
        BY <1>1, <2>3, <3>1, <3>5 DEF Holds
      <4>2. \A u \in Types \ {t} : e.kind = "array" => e.arr # events[u].arr
        BY <1>1, <2>3
      <4>3. count' = count + (IF new = <<>> THEN 0 ELSE 1) - (IF list[t] = <<>> THEN 0 ELSE 1)
        BY <2>1, <2>3, <3>1, <3>3
      <4> QED
        BY <1>1, <2>1, <2>2, <3>5, <3>6, <3>7, <4>1, <4>2, <4>3, OneEvent
    <3>9. Fitting \subseteq Fitting'
      BY <1>4, <2>5, <2>7, <3>1, <3>5, FramesKept
    <3> QED
      BY <1>3, <1>4, <3>8, <3>9, HeapStep DEF Inv
  <2>9. CASE last
    <3>1. /\ events' = gone /\ count' = count - 1
          /\ heap' = IF e.kind = "function" THEN heap ELSE [heap EXCEPT ![e.arr] = <<Undefined>>]
      BY <1>6, <2>9 DEF RemoveListener
    <3>2. new = <<>>
      BY <1>1, <1>2, <2>1, <2>4, <2>9, EmptySeq
    <3>3. /\ heap' \in Seq(Seq(Entries)) /\ DOMAIN heap' = DOMAIN heap
          /\ e.kind = "array" => heap'[e.arr] = <<Undefined>>
          /\ \A j \in DOMAIN heap : (e.kind = "array" => j # e.arr) => heap'[j] = heap[j]
      <4>1. CASE e.kind = "function"
        BY <2>3, <3>1, <4>1
      <4>2. CASE e.kind = "array"
        <5>1. <<Undefined>> \in Seq(Entries)
          BY Joined DEF Undefined, Entry, Entries
        <5>2. heap' = [heap EXCEPT ![e.arr] = <<Undefined>>]
          BY <3>1, <4>2
        <5> QED
          BY <2>3, <2>5, <4>2, <5>1, <5>2, ExceptSeq, LenProperties
      <4> QED
        BY <2>6, <4>1, <4>2
    <3> HIDE DEF new, i
    <3>4. CASE count = 1
      <4>1. Structure' /\ \A u \in Types \ {t} : events[u].kind = "none"
        BY <1>1, <2>1, <2>2, <3>1, <3>2, <3>3, <3>4, NoneLeft
      <4>2. Fitting \subseteq Fitting'
        BY <1>4, <2>5, <2>7, <3>3, <4>1, FramesKept
      <4> QED
        BY <1>3, <1>4, <4>1, <4>2, HeapStep DEF Inv
    <3>5. CASE count # 1
      <4>1. events' = [events EXCEPT ![t] = Nobody]
        BY <3>1, <3>5
      <4>2. \A u \in Types \ {t} : events[u].kind = "array" =>
               events[u].arr \in DOMAIN heap' /\ heap'[events[u].arr] = heap[events[u].arr]
        BY <1>1, <2>3, <3>3 DEF Holds
      <4>3. Structure'
        BY <1>1, <2>1, <2>2, <3>1, <3>2, <3>3, <4>1, <4>2, OneLess
      <4>4. \A u \in Types \ {t} : events'[u] = events[u]
        BY <4>1 DEF Inv, Structure
      <4>5. Fitting \subseteq Fitting'
        BY <1>4, <2>5, <2>7, <3>3, <4>4, FramesKept
      <4> QED
        BY <1>3, <1>4, <4>3, <4>5, HeapStep DEF Inv
    <3> QED
      BY <3>4, <3>5
  <2> QED
    BY <2>8, <2>9
<1> QED
  BY <1>5, <1>6

\* removeAllListeners when nobody listens to removals: the event goes.
LEMMA QuietStep ==
    ASSUME Inv, NEW t \in Types, RemoveAll(t), events["removeListener"].kind = "none",
           UNCHANGED <<heap, fired, ran>>, calls' \in Nat
    PROVE  Inv'
<1> DEFINE e == events[t]
<1>1. /\ events' = IF e.kind # "none" /\ count = 1 THEN NoEvents ELSE [events EXCEPT ![t] = Nobody]
      /\ count' = IF e.kind = "none" THEN count ELSE count - 1
      /\ list' = [list EXCEPT ![t] = <<>>]
      /\ dropped' = dropped \cup {e.arr}
      /\ stack' = stack
  BY DEF RemoveAll
<1>2. /\ heap \in Seq(Seq(Entries)) /\ events \in [Types -> Kept]
      /\ \A u \in Types : Holds(events[u], heap, list[u])
  BY DEF Inv, Structure
<1>3. (e.kind = "none") = (list[t] = <<>>)
  <2>1. e \in Kept /\ Holds(e, heap, list[t])
    BY <1>2
  <2>2. \A y : <<y>> # <<>>
    OBVIOUS
  <2> QED
    BY <2>1, <2>2 DEF Holds, Kept
<1>4. CASE e.kind # "none" /\ count = 1
  <2>1. Structure' /\ \A u \in Types \ {t} : events[u].kind = "none"
    BY <1>1, <1>2, <1>3, <1>4, NoneLeft
  <2>2. Fitting \subseteq Fitting'
    BY <1>1, <2>1, FramesKept
  <2> QED
    BY <1>1, <2>1, <2>2, HeapStep DEF Inv
<1>5. CASE ~(e.kind # "none" /\ count = 1)
  <2>1. events' = [events EXCEPT ![t] = Nobody]
    BY <1>1, <1>5
  <2>2. Structure'
    <3>1. count' = IF list[t] = <<>> THEN count ELSE count - 1
      BY <1>1, <1>3
    <3>2. \A u \in Types \ {t} : events[u].kind = "array" =>
             events[u].arr \in DOMAIN heap' /\ heap'[events[u].arr] = heap[events[u].arr]
      BY <1>2 DEF Holds
    <3> QED
      BY <1>1, <1>2, <2>1, <3>1, <3>2, OneLess
  <2>3. Fitting \subseteq Fitting'
    BY <1>1, <1>2, <2>1, FramesKept
  <2> QED
    BY <1>1, <2>2, <2>3, HeapStep DEF Inv
<1> QED
  BY <1>4, <1>5

LEMMA ClientStep == ASSUME HoleIsNoListener, Inv, Client PROVE Inv'
<1>1. calls \in Nat /\ calls' \in Nat /\ UNCHANGED <<heap, fired, ran>> /\ stack \in Seq(Fitting)
  BY DEF Client, Inv
<1>2. Once'
  BY <1>1 DEF Inv, Once
<1>3. \A t \in Types, l \in Listeners, w \in Nat : Entry(l, w) \in Real
  BY DEF HoleIsNoListener, Entry, Real, Undefined, Entries
<1>4. \A t \in Types, l \in Listeners : Entry(l, 0) \in Entries
  BY DEF Entry, Entries
<1>5. PICK t \in Types :
         \/ \E l \in Listeners, once, prepend \in BOOLEAN :
               /\ stack' = Emits(events, "newListener")
                           \o << Adding(t, Entry(l, IF once THEN calls + 1 ELSE 0), prepend) >>
                           \o stack
               /\ UNCHANGED <<events, count, list, dropped>>
         \/ /\ \E l \in Listeners : stack' = << Removing(t, Entry(l, 0)) >> \o stack
            /\ UNCHANGED <<events, count, list, dropped>>
         \/ /\ stack' = << Emitting(t) >> \o stack
            /\ UNCHANGED <<events, count, list, dropped>>
         \/ RemoveAll(t)
  BY DEF Client
<1>6. CASE \E l \in Listeners, once, prepend \in BOOLEAN :
              /\ stack' = Emits(events, "newListener")
                          \o << Adding(t, Entry(l, IF once THEN calls + 1 ELSE 0), prepend) >>
                          \o stack
              /\ UNCHANGED <<events, count, list, dropped>>
  <2>1. PICK l \in Listeners, once, prepend \in BOOLEAN :
              /\ stack' = Emits(events, "newListener")
                          \o << Adding(t, Entry(l, IF once THEN calls + 1 ELSE 0), prepend) >>
                          \o stack
              /\ UNCHANGED <<events, count, list, dropped>>
    BY <1>6
  <2> DEFINE w == IF once THEN calls + 1 ELSE 0
             add == Adding(t, Entry(l, w), prepend)
             meta == Emits(events, "newListener")
  <2>2. Entry(l, w) \in Real
    BY <1>1, <1>3
  <2>3. add \in Fitting
    BY <2>2, Pushable
  <2>4. meta \in Seq(Fitting)
    BY Pushable DEF Types, Meta
  <2>5. stack' = meta \o <<add>> \o stack
    BY <2>1
  <2> HIDE DEF add, meta
  <2>6. stack' \in Seq(Fitting)
    BY <1>1, <2>3, <2>4, <2>5, Joined
  <2> QED
    BY <1>1, <1>2, <2>1, <2>6, StackStep
<1>7. CASE /\ \E l \in Listeners : stack' = << Removing(t, Entry(l, 0)) >> \o stack
           /\ UNCHANGED <<events, count, list, dropped>>
  <2>1. stack' \in Seq(Fitting)
    BY <1>1, <1>4, <1>7, Pushable, Joined
  <2> QED
    BY <1>1, <1>2, <1>7, <2>1, StackStep
<1>8. CASE stack' = << Emitting(t) >> \o stack /\ UNCHANGED <<events, count, list, dropped>>
  <2>1. stack' \in Seq(Fitting)
    BY <1>1, <1>8, Pushable, Joined
  <2> QED
    BY <1>1, <1>2, <1>8, <2>1, StackStep
<1>9. CASE RemoveAll(t)
  <2>1. CASE events["removeListener"].kind = "none"
    BY <1>1, <1>9, <2>1, QuietStep
  <2>2. CASE events["removeListener"].kind # "none"
    <3>1. UNCHANGED <<events, count, list, dropped>>
      BY <1>9, <2>2 DEF RemoveAll
    <3>2. events[t] \in Kept
      BY DEF Inv, Structure
    <3>3. stack' \in Seq(Fitting)
      <4>1. \/ stack' = stack
            \/ stack' = << Removing(t, events[t].fn) >> \o stack
            \/ events[t].kind = "array" /\ stack' = << Clearing(t, events[t].arr) >> \o stack
        BY <1>9, <2>2, <3>2 DEF RemoveAll, Kept
      <4>2. Removing(t, events[t].fn) \in Fitting
        BY <3>2, Pushable DEF Kept
      <4>3. events[t].kind = "array" => Clearing(t, events[t].arr) \in Fitting
        BY Pushable
      <4> QED
        BY <1>1, <4>1, <4>2, <4>3, Joined
    <3> QED
      BY <1>1, <1>2, <3>1, <3>3, StackStep
  <2> QED
    BY <2>1, <2>2
<1> QED
  BY <1>5, <1>6, <1>7, <1>8, <1>9

-----------------------------------------------------------------------------
(* The theorems.                                                            *)

LEMMA Starts == ASSUME EventsInit PROVE Inv
<1>1. /\ Nobody \in Kept /\ Nobody.kind = "none" /\ Nobody.arr = 0
      /\ events = [u \in Types |-> Nobody] /\ list = [u \in Types |-> <<>>] /\ heap = <<>>
      /\ count = 0 /\ stack = <<>> /\ calls = 0 /\ fired = {} /\ ran = [w \in Wrappers |-> 0]
  BY DEF EventsInit, NoEvents, Nobody, Kept, Undefined, Entry, Entries
<1>2. Busy(list) = {}
  BY <1>1 DEF Busy
<1>3. count = Cardinality(Busy(list))
  BY <1>1, <1>2, FS_EmptySet
<1>4. events \in [Types -> Kept] /\ heap \in Seq(Seq(Entries)) /\ list \in [Types -> Seq(Real)]
  BY <1>1, Joined
<1>5. \A u \in Types : Holds(events[u], heap, list[u])
  BY <1>1 DEF Holds
<1>6. Structure
  BY <1>1, <1>3, <1>4, <1>5 DEF Structure
<1>7. stack \in Seq(Fitting)
  BY <1>1, Joined
<1> QED
  BY <1>1, <1>6, <1>7 DEF Inv, Once

LEMMA Steps == ASSUME HoleIsNoListener, Inv, [EventsNext]_evars PROVE Inv'
<1>1. CASE UNCHANGED evars
  BY <1>1, StackStep DEF evars, Inv, Once
<1> QED
  BY <1>1, EmitStep, CallStep, CalledStep, ReturnStep, AddStep, RemoveStep, ClearStep, ClientStep
     DEF EventsNext

LEMMA InvGives == ASSUME Inv PROVE EmitterKept
<1>1. IsTheList
  BY OfIsList DEF Inv, Structure, Busy, IsTheList
<1>2. \A k \in 1 .. Len(stack) : stack[k] \in Frames /\ FrameFits(stack[k])
  BY LenProperties, ElementOfSeq DEF Inv, Fitting
<1>3. OnceRunsOnce
  <2>1. \A w \in Wrappers : ran[w] <= 1
    BY DEF Inv, Once
  <2>2. ASSUME NEW k \in 1 .. Len(stack), NEW j \in 1 .. Len(stack[k].rest)
        PROVE  stack[k].rest[j] # Undefined
    <3>1. stack[k].rest \in Seq(Real)
      BY <1>2 DEF Frames
    <3>2. stack[k].rest[j] \in Real
      BY <3>1, ElementOfSeq
    <3> QED
      BY <3>2 DEF Real
  <2> QED
    BY <2>1, <2>2 DEF OnceRunsOnce
<1>4. ClearingEnds
  BY <1>2 DEF FrameFits, ClearingEnds
<1> QED
  BY <1>1, <1>3, <1>4 DEF EmitterKept

(* However adding, removing, clearing and emitting are nested, the          *)
(* structures of events.js are the list of listeners of each event, a once  *)
(* listener runs once and no hole is called, and removeAllListeners takes   *)
(* listeners out of its event's own array, a dropped one or an emptied one. *)
THEOREM EmitterHolds == ASSUME HoleIsNoListener PROVE EventsSpec => []EmitterKept
<1>1. EventsInit => Inv
  BY Starts
<1>2. Inv /\ [EventsNext]_evars => Inv'
  BY Steps
<1>3. Inv => EmitterKept
  BY InvGives
<1> QED
  BY <1>1, <1>2, <1>3, PTL DEF EventsSpec
=============================================================================
