----------------------------- MODULE FilesProofs -----------------------------
(***************************************************************************)
(* Proofs about Files: types, that nobody meets another's descriptor unless *)
(* an object was used while it was being closed, that nothing stays open    *)
(* but what is known to, and that a call is answered once, for every client *)
(* and every set of numbers the host gives out.                             *)
(*                                                                          *)
(* The argument is about who owns a number.  An object that has not been    *)
(* shut has the number it was given, or it has been used while it was being *)
(* closed, or it has been robbed: such an object closed the number under    *)
(* it.  A number the module keeps to itself is closed by the one call that  *)
(* opened it.                                                               *)
(***************************************************************************)
EXTENDS Files, Integers, FiniteSetTheorems, FunctionTheorems, SequenceTheorems, TLAPS

\* The calls that open a file for themselves.
Whole == {"readFile", "writeFile"}
Leaks == {"no", "readdirSync", "stat failed", "read failed", "bad data", "close failed", "threw"}
Whys  == {"", "read failed", "end of directory", "close failed", "thrown at the caller",
          "bad data", "closes after an error"}

Objects == [kind : Kinds \union {"inner"}, fd : Fd, shut : BOOLEAN, closing : Int,
            overlapped : BOOLEAN, reading : BOOLEAN, left : Int, fin : BOOLEAN,
            leak : Leaks]
UnderWay == [op : Ops, obj : Kinds \union Nat, at : Places \ {"done"}, throws : Throws,
             answers : {<<>>, <<"ok">>}, why : Whys]
Stray(n) == [by : 1..n, of : 1..n, how : Ops \union {"truncate"}]

Typed ==
    /\ objs \in Seq(Objects) /\ calls \in Seq(UnderWay)
    /\ table \in [Fd -> 0..Len(objs)]
    /\ program \in Programs /\ made \in 0..program.calls /\ Len(calls) <= made
    /\ faults \in 0..MaxFaults
    /\ strays \subseteq Stray(Len(objs))

\* What a call under way says about its object, of those in os, and has answered.
Fits(c, os) ==
    /\ c.op = "open" => c.obj \in Kinds
    /\ c.op \notin {"open", "readdir"} => c.obj \in 1..Len(os)
    /\ c.op \in {"close", "dir.read"} \union HandleOps => os[c.obj].kind \in Kinds
    /\ c.op \in Whole => os[c.obj].kind = "inner"
    /\ c.op = "readFile" /\ c.at = "catch" => os[c.obj].leak # "no"
    /\ c.answers # <<>> => /\ c.op = "writeFile" /\ c.at = "catch"
                           /\ Angry(c, "ok") \/ c.why = "close failed"
CallsFit == \A i \in 1..Len(calls) : Fits(calls[i], objs)
\* A file opened for a call is that call's alone.
OneEach  == \A i, j \in 1..Len(calls) :
    calls[i].op \in Whole /\ calls[j].op \in Whole /\ calls[i].obj = calls[j].obj => i = j

\* The closes of an object that are under way are the ones it counts, and more
\* than one, or one of an object shut already, is an overlap.
Closes(cs, o) == {i \in 1..Len(cs) : cs[i].op = "close" /\ cs[i].obj = o}
Counted == \A o \in 1..Len(objs) :
    /\ objs[o].closing = Cardinality(Closes(calls, o))
    /\ objs[o].closing > 1 \/ (objs[o].shut /\ objs[o].closing > 0) => objs[o].overlapped

\* An object that may still use its number, and one whose number may have gone.
Live(o) == IF objs[o].kind \in Kinds THEN ~objs[o].shut
           ELSE \E i \in 1..Len(calls) : calls[i].op \in Whole /\ calls[i].obj = o
Robbed(o) == objs[o].overlapped \/ \E r \in strays : r.how = "close" /\ r.of = o

\* A number's open has that number; a live object has its number unless it was
\* robbed; and what has a number is live or known to be left behind.
Owns   == \A n \in Fd : table[n] # 0 => objs[table[n]].fd = n
Keeps  == \A o \in 1..Len(objs) : Live(o) => Robbed(o) \/ table[objs[o].fd] = o
Leaves == \A n \in Fd : table[n] # 0 => objs[table[n]].leak # "no" \/ Live(table[n])

\* AnsweredOnce of one call.
Told(e) ==
    \/ Len(e.answers) = 1
    \/ Len(e.answers) = 2 /\ Angry(e, "ok") /\ e.answers[1] = "ok"
    \/ e.why \in {"read failed", "end of directory", "close failed", "thrown at the caller"}

Inv == /\ Typed /\ CallsFit /\ OneEach /\ Counted
       /\ Owns /\ Keeps /\ Leaves
       /\ StrayNeedsOverlap /\ AnsweredOnce

-----------------------------------------------------------------------------
(* Sequences.                                                               *)

LEMMA Mapped == ASSUME NEW S, NEW n \in Nat, NEW s \in [1 .. n -> S] PROVE s \in Seq(S) /\ Len(s) = n
<1>1. s \in Seq(S)
  BY SeqDef
<1> QED
  BY <1>1, LenProperties

LEMMA Removed ==
    ASSUME NEW S, NEW s \in Seq(S), NEW i \in 1 .. Len(s)
    PROVE  /\ RemoveAt(s, i) \in Seq(S) /\ Len(RemoveAt(s, i)) = Len(s) - 1
           /\ \A j \in 1 .. Len(s) - 1 : RemoveAt(s, i)[j] = s[IF j < i THEN j ELSE j + 1]
<1>1. Len(s) \in Nat /\ \A j \in 1 .. Len(s) : s[j] \in S
  BY LenProperties, ElementOfSeq
<1> DEFINE a == SubSeq(s, 1, i - 1)
           b == SubSeq(s, i + 1, Len(s))
<1>2. a \in Seq(S) /\ Len(a) = i - 1 /\ \A j \in 1 .. i - 1 : a[j] = s[j]
  BY <1>1, SubSeqProperties
<1>3. b \in Seq(S) /\ Len(b) = Len(s) - i /\ \A j \in 1 .. Len(s) - i : b[j] = s[i + j]
  BY <1>1, SubSeqProperties
<1>4. RemoveAt(s, i) = a \o b
  BY DEF RemoveAt
<1> HIDE DEF a, b
<1>5. /\ a \o b \in Seq(S) /\ Len(a \o b) = Len(a) + Len(b)
      /\ \A j \in 1 .. Len(a) + Len(b) : (a \o b)[j] = IF j <= Len(a) THEN a[j] ELSE b[j - Len(a)]
  BY <1>2, <1>3, ConcatProperties
<1>6. ASSUME NEW j \in 1 .. Len(s) - 1 PROVE (a \o b)[j] = s[IF j < i THEN j ELSE j + 1]
  <2>1. CASE j < i
    BY <1>1, <1>2, <1>3, <1>5, <2>1
  <2>2. CASE ~(j < i)
    <3>1. (a \o b)[j] = b[j - (i - 1)] /\ j - (i - 1) \in 1 .. Len(s) - i
      BY <1>1, <1>2, <1>3, <1>5, <2>2
    <3>2. b[j - (i - 1)] = s[i + (j - (i - 1))] /\ i + (j - (i - 1)) = j + 1
      BY <1>1, <1>3, <3>1
    <3> QED
      BY <3>1, <3>2, <2>2
  <2> QED
    BY <2>1, <2>2
<1> QED
  BY <1>1, <1>2, <1>3, <1>4, <1>5, <1>6

-----------------------------------------------------------------------------
(* The calls under way.  A step replaces call i by c, or ends it when c is   *)
(* over; i is 0 for a call that has just been made.  `from` says where a     *)
(* call was before.                                                         *)

Moved(i, c, from) ==
    /\ from \in [1 .. Len(calls') -> 0 .. Len(calls)]
    /\ \A j, k \in 1 .. Len(calls') : from[j] = from[k] => j = k
    /\ \A j \in 1 .. Len(calls') :
          /\ from[j] = i => c.at # "done" /\ calls'[j] = c
          /\ from[j] # i => from[j] \in 1 .. Len(calls) /\ calls'[j] = calls[from[j]]
    /\ \A k \in 1 .. Len(calls) : k # i => \E j \in 1 .. Len(calls') : from[j] = k
    /\ c.at # "done" => \E j \in 1 .. Len(calls') : from[j] = i

Becomes(i, c) ==
    /\ calls' \in Seq(UnderWay) /\ Len(calls') <= made' /\ made' \in 0 .. program'.calls
    /\ program' = program
    /\ \E from : Moved(i, c, from)

LEMMA MadeBecomes ==
    ASSUME Typed, FilesBounds, NEW c, Made(c), made < program.calls,
           c.at # "done" => c \in UnderWay
    PROVE  Becomes(0, c)
<1>1. /\ calls \in Seq(UnderWay) /\ Len(calls) \in Nat /\ Len(calls) <= made
      /\ made \in Nat /\ program.calls \in Nat /\ made' = made + 1 /\ program' = program
  BY LenProperties DEF Typed, FilesBounds, Program, Made
<1>2. CASE c.at = "done"
  <2>1. calls' = calls
    BY <1>2 DEF Made
  <2>2. Moved(0, c, [j \in 1 .. Len(calls) |-> j])
    BY <1>1, <1>2, <2>1 DEF Moved
  <2> QED
    BY <1>1, <2>1, <2>2 DEF Becomes
<1>3. CASE c.at # "done"
  <2>1. calls' = Append(calls, c) /\ c \in UnderWay
    BY <1>3 DEF Made
  <2>2. /\ calls' \in Seq(UnderWay) /\ Len(calls') = Len(calls) + 1
        /\ \A j \in 1 .. Len(calls) : calls'[j] = calls[j]
        /\ calls'[Len(calls) + 1] = c
    BY <1>1, <2>1, AppendProperties
  <2> DEFINE from == [j \in 1 .. Len(calls') |-> IF j = Len(calls) + 1 THEN 0 ELSE j]
  <2>3. /\ from \in [1 .. Len(calls') -> 0 .. Len(calls)]
        /\ \A j \in 1 .. Len(calls') : from[j] = IF j = Len(calls) + 1 THEN 0 ELSE j
    BY <1>1, <2>2
  <2> HIDE DEF from
  <2>4. Moved(0, c, from)
    BY <1>1, <1>3, <2>2, <2>3, SMTT(30) DEF Moved
  <2> QED
    BY <1>1, <2>2, <2>4 DEF Becomes
<1> QED
  BY <1>2, <1>3

LEMMA SetBecomes ==
    ASSUME Typed, FilesBounds, NEW i \in 1 .. Len(calls), NEW c, Set(i, c),
           c.at # "done" => c \in UnderWay
    PROVE  Becomes(i, c)
<1>1. /\ calls \in Seq(UnderWay) /\ Len(calls) \in Nat /\ Len(calls) <= made
      /\ made \in Nat /\ made \in 0 .. program.calls /\ made' = made /\ program' = program
      /\ program.calls \in Nat
  BY LenProperties DEF Typed, FilesBounds, Program, Set
<1>2. CASE c.at = "done"
  <2>1. calls' = RemoveAt(calls, i)
    BY <1>2 DEF Set
  <2>2. /\ calls' \in Seq(UnderWay) /\ Len(calls') = Len(calls) - 1
        /\ \A j \in 1 .. Len(calls) - 1 : calls'[j] = calls[IF j < i THEN j ELSE j + 1]
    BY <1>1, <2>1, Removed
  <2> DEFINE from == [j \in 1 .. Len(calls') |-> IF j < i THEN j ELSE j + 1]
  <2>3. /\ from \in [1 .. Len(calls') -> 0 .. Len(calls)]
        /\ \A j \in 1 .. Len(calls') : from[j] = IF j < i THEN j ELSE j + 1
    BY <1>1, <2>2
  <2> HIDE DEF from
  <2>4. ASSUME NEW k \in 1 .. Len(calls), k # i
        PROVE  \E j \in 1 .. Len(calls') : from[j] = k
    <3>1. CASE k < i
      BY <1>1, <2>2, <2>3, <3>1, SMTT(30)
    <3>2. CASE k > i
      <4>1. k - 1 \in 1 .. Len(calls') /\ from[k - 1] = k
        BY <1>1, <2>2, <2>3, <3>2
      <4> QED
        BY <4>1
    <3> QED
      BY <1>1, <2>4, <3>1, <3>2
  <2>5. \A j, k \in 1 .. Len(calls') : from[j] = from[k] => j = k
    BY <1>1, <2>2, <2>3
  <2>6. ASSUME NEW j \in 1 .. Len(calls')
        PROVE  from[j] # i /\ from[j] \in 1 .. Len(calls) /\ calls'[j] = calls[from[j]]
    <3>1. from[j] = (IF j < i THEN j ELSE j + 1) /\ j \in 1 .. Len(calls) - 1
      BY <2>2, <2>3
    <3>2. calls'[j] = calls[IF j < i THEN j ELSE j + 1]
      BY <2>2, <3>1
    <3>3. from[j] # i /\ from[j] \in 1 .. Len(calls)
      BY <1>1, <3>1
    <3> QED
      BY <3>1, <3>2, <3>3
  <2>7. Moved(i, c, from)
    BY <1>2, <2>3, <2>4, <2>5, <2>6 DEF Moved
  <2> QED
    BY <1>1, <2>2, <2>7 DEF Becomes
<1>3. CASE c.at # "done"
  <2>1. calls' = [calls EXCEPT ![i] = c] /\ c \in UnderWay
    BY <1>3 DEF Set
  <2>2. calls \in [1 .. Len(calls) -> UnderWay]
    BY <1>1, LenProperties
  <2>3. calls' \in [1 .. Len(calls) -> UnderWay]
    BY <2>1, <2>2
  <2>4. calls' \in Seq(UnderWay) /\ Len(calls') = Len(calls)
    BY <1>1, <2>3, Mapped
  <2>5. Moved(i, c, [j \in 1 .. Len(calls) |-> j])
    BY <1>1, <1>3, <2>1, <2>2, <2>4 DEF Moved
  <2> QED
    BY <1>1, <2>4, <2>5 DEF Becomes
<1> QED
  BY <1>2, <1>3

\* How many closes of o there are then.
LEMMA Counts ==
    ASSUME Typed, NEW i \in 0 .. Len(calls), NEW c, Becomes(i, c), NEW o
    PROVE  /\ Cardinality(Closes(calls, o)) \in Nat
           /\ Cardinality(Closes(calls, o)) <= Len(calls)
           /\ i \in Closes(calls, o) => Cardinality(Closes(calls, o)) > 0
           /\ Cardinality(Closes(calls', o)) =
                 Cardinality(Closes(calls, o))
                 - (IF i \in Closes(calls, o) THEN 1 ELSE 0)
                 + (IF c.at # "done" /\ c.op = "close" /\ c.obj = o THEN 1 ELSE 0)
<1>1. Len(calls) \in Nat /\ Len(calls') \in Nat
  BY LenProperties DEF Typed, Becomes
<1>2. PICK from : Moved(i, c, from)
  BY DEF Becomes
<1> DEFINE old == Closes(calls, o)
           new == Closes(calls', o)
           kept == IF c.at # "done" /\ c.op = "close" /\ c.obj = o THEN (old \ {i}) \cup {i}
                   ELSE old \ {i}
<1>3. old \in SUBSET (1 .. Len(calls)) /\ new \in SUBSET (1 .. Len(calls'))
  BY DEF Closes
<1>4. /\ IsFiniteSet(old) /\ IsFiniteSet(new) /\ Cardinality(old) \in Nat
      /\ Cardinality(old) <= Len(calls)
  <2>1. IsFiniteSet(1 .. Len(calls)) /\ IsFiniteSet(1 .. Len(calls'))
    BY <1>1, FS_Interval
  <2>2. Cardinality(1 .. Len(calls)) = Len(calls)
    <3>1. Cardinality(1 .. Len(calls)) = IF 1 > Len(calls) THEN 0 ELSE Len(calls) - 1 + 1
      BY <1>1, FS_Interval, 1 \in Int, Len(calls) \in Int
    <3> QED
      BY <1>1, <3>1
  <2> HIDE DEF old, new
  <2>3. IsFiniteSet(old) /\ Cardinality(old) <= Cardinality(1 .. Len(calls))
    BY <1>3, <2>1, FS_Subset
  <2>4. IsFiniteSet(new)
    BY <1>3, <2>1, FS_Subset
  <2> QED
    BY <2>2, <2>3, <2>4, FS_CardinalityType
<1>5. [j \in new |-> from[j]] \in Bijection(new, kept)
  <2> DEFINE f == [j \in new |-> from[j]]
  <2>1. ASSUME NEW j \in new PROVE from[j] \in kept
    <3>1. j \in 1 .. Len(calls') /\ calls'[j].op = "close" /\ calls'[j].obj = o
      BY DEF Closes
    <3>2. CASE from[j] = i
      BY <1>2, <3>1, <3>2 DEF Moved
    <3>3. CASE from[j] # i
      BY <1>2, <3>1, <3>3 DEF Moved, Closes
    <3> QED
      BY <3>2, <3>3
  <2>2. ASSUME NEW j \in new, NEW k \in new, from[j] = from[k] PROVE j = k
    BY <1>2, <1>3, <2>2 DEF Moved
  <2>3. ASSUME NEW k \in kept PROVE \E j \in new : from[j] = k
    <3>1. CASE k = i
      <4>1. c.at # "done" /\ c.op = "close" /\ c.obj = o
        BY <3>1
      <4> QED
        BY <1>2, <3>1, <4>1 DEF Moved, Closes
    <3>2. CASE k # i
      <4>1. k \in 1 .. Len(calls) /\ calls[k].op = "close" /\ calls[k].obj = o
        BY <3>2 DEF Closes
      <4> QED
        BY <1>2, <3>2, <4>1 DEF Moved, Closes
    <3> QED
      BY <3>1, <3>2
  <2> HIDE DEF new, kept
  <2> QED
    BY <2>1, <2>2, <2>3 DEF Bijection, Injection, Surjection, IsInjective
<1> HIDE DEF new, old
<1>6. Cardinality(kept) = Cardinality(new)
  <2>1. ExistsBijection(new, kept)
    BY <1>5 DEF ExistsBijection
  <2> HIDE DEF kept
  <2> QED
    BY <1>4, <2>1, FS_Bijection
<1>7. /\ IsFiniteSet(old \ {i})
      /\ Cardinality(old \ {i}) = IF i \in old THEN Cardinality(old) - 1 ELSE Cardinality(old)
  BY <1>4, FS_RemoveElement
<1>8. Cardinality((old \ {i}) \cup {i}) = Cardinality(old \ {i}) + 1
  BY <1>7, FS_AddElement
<1>9. i \in old => Cardinality(old) > 0
  BY <1>4, FS_EmptySet
<1>10. Cardinality(new) = Cardinality(old) - (IF i \in old THEN 1 ELSE 0)
                          + (IF c.at # "done" /\ c.op = "close" /\ c.obj = o THEN 1 ELSE 0)
  <2>1. CASE c.at # "done" /\ c.op = "close" /\ c.obj = o
    BY <1>4, <1>6, <1>7, <1>8, <2>1
  <2>2. CASE ~(c.at # "done" /\ c.op = "close" /\ c.obj = o)
    BY <1>4, <1>6, <1>7, <2>2
  <2> QED
    BY <2>1, <2>2
<1> QED
  BY <1>4, <1>9, <1>10 DEF old, new

-----------------------------------------------------------------------------
(* A step as a whole.                                                       *)

\* Opens come in order, and what is true of one of them stays so.
Grows ==
    /\ objs' \in Seq(Objects) /\ Len(objs) <= Len(objs')
    /\ \A o \in 1 .. Len(objs) :
          /\ objs'[o].kind = objs[o].kind /\ objs'[o].fd = objs[o].fd
          /\ objs[o].shut => objs'[o].shut
          /\ objs[o].overlapped => objs'[o].overlapped
          /\ objs[o].leak # "no" => objs'[o].leak # "no"

\* A call stays with the file that was opened for it.
Own(i, c) ==
    c.at # "done" /\ c.op \in Whole =>
        IF i = 0 THEN c.obj \notin 1 .. Len(objs)
        ELSE calls[i].op \in Whole /\ calls[i].obj = c.obj

\* How the closes under way change.
Delta(i, c, o) == (IF c.at # "done" /\ c.op = "close" /\ c.obj = o THEN 1 ELSE 0)
                  - (IF i \in Closes(calls, o) THEN 1 ELSE 0)
Counting(i, c) == \A o \in 1 .. Len(objs') :
    /\ objs'[o].closing = (IF o \in 1 .. Len(objs) THEN objs[o].closing ELSE 0) + Delta(i, c, o)
    /\ objs'[o].closing > 1 \/ (objs'[o].shut /\ objs'[o].closing > 0) => objs'[o].overlapped

LEMMA DeltaNone ==
    ASSUME NEW i, NEW c, NEW o, i \notin Closes(calls, o),
           ~(c.at # "done" /\ c.op = "close" /\ c.obj = o)
    PROVE  Delta(i, c, o) = 0
  BY DEF Delta

LEMMA Lengths == ASSUME Typed PROVE /\ Len(objs) \in Nat /\ Len(calls) \in Nat
                                    /\ \A o \in 1 .. Len(objs) : objs[o] \in Objects
                                    /\ \A i \in 1 .. Len(calls) : calls[i] \in UnderWay
  BY LenProperties, ElementOfSeq DEF Typed

LEMMA StillFits ==
    ASSUME Typed, Grows, NEW c, Fits(c, objs)
    PROVE  Fits(c, objs')
<1>1. Len(objs) \in Nat /\ Len(objs') \in Nat /\ Len(objs) <= Len(objs')
  BY LenProperties DEF Typed, Grows
<1>2. c.obj \in 1 .. Len(objs) => c.obj \in 1 .. Len(objs')
  BY <1>1
<1>3. c.op \in {"close", "dir.read"} \union HandleOps \union Whole => c.obj \in 1 .. Len(objs)
  BY DEF Fits, HandleOps, Whole
<1>4. c.op = "open" => c.obj \in Kinds
  BY DEF Fits
<1>5. c.op \notin {"open", "readdir"} => c.obj \in 1..Len(objs')
  BY <1>2 DEF Fits
<1>6. c.op \in {"close", "dir.read"} \union HandleOps => objs'[c.obj].kind \in Kinds
  BY <1>3 DEF Fits, Grows
<1>7. c.op \in Whole => objs'[c.obj].kind = "inner"
  BY <1>3 DEF Fits, Grows
<1>8. c.op = "readFile" /\ c.at = "catch" => objs'[c.obj].leak # "no"
  BY <1>3 DEF Fits, Grows, Whole
<1> QED
  BY <1>4, <1>5, <1>6, <1>7, <1>8 DEF Fits

LEMMA CallsFitted ==
    ASSUME Inv, Grows, NEW i \in 0 .. Len(calls), NEW c, Becomes(i, c),
           c.at # "done" => Fits(c, objs')
    PROVE  CallsFit'
<1>1. PICK from : Moved(i, c, from)
  BY DEF Becomes
<1>2. ASSUME NEW j \in 1 .. Len(calls') PROVE Fits(calls'[j], objs')
  <2>1. CASE from[j] = i
    BY <1>1, <2>1 DEF Moved
  <2>2. CASE from[j] # i
    <3>1. from[j] \in 1 .. Len(calls) /\ calls'[j] = calls[from[j]]
      BY <1>1, <2>2 DEF Moved
    <3>2. Fits(calls[from[j]], objs)
      BY <3>1 DEF Inv, CallsFit
    <3> QED
      BY <3>1, <3>2, StillFits DEF Inv
  <2> QED
    BY <2>1, <2>2
<1> QED
  BY <1>2 DEF CallsFit

LEMMA OneEachKept ==
    ASSUME Inv, NEW i \in 0 .. Len(calls), NEW c, Becomes(i, c), Own(i, c)
    PROVE  OneEach'
<1>1. PICK from : Moved(i, c, from)
  BY DEF Becomes
<1>2. ASSUME NEW j \in 1 .. Len(calls'), NEW k \in 1 .. Len(calls'),
             calls'[j].op \in Whole, calls'[k].op \in Whole, calls'[j].obj = calls'[k].obj,
             from[j] = i, from[k] # i
      PROVE  FALSE
  <2>1. calls'[j] = c /\ c.at # "done" /\ from[k] \in 1 .. Len(calls) /\ calls'[k] = calls[from[k]]
    BY <1>1, <1>2 DEF Moved
  <2>2. calls[from[k]].obj \in 1 .. Len(objs)
    BY <1>2, <2>1 DEF Inv, CallsFit, Fits, Whole
  <2>3. i # 0 /\ calls[i].op \in Whole /\ calls[i].obj = c.obj
    BY <1>2, <2>1, <2>2 DEF Own
  <2>4. i \in 1 .. Len(calls)
    BY <2>3, Lengths DEF Inv
  <2> QED
    BY <1>2, <2>1, <2>3, <2>4 DEF Inv, OneEach
<1>3. ASSUME NEW j \in 1 .. Len(calls'), NEW k \in 1 .. Len(calls'),
             calls'[j].op \in Whole, calls'[k].op \in Whole, calls'[j].obj = calls'[k].obj
      PROVE  j = k
  <2>1. CASE from[j] # i /\ from[k] # i
    <3>1. /\ from[j] \in 1 .. Len(calls) /\ calls'[j] = calls[from[j]]
          /\ from[k] \in 1 .. Len(calls) /\ calls'[k] = calls[from[k]]
      BY <1>1, <2>1 DEF Moved
    <3>2. from[j] = from[k]
      BY <1>3, <3>1 DEF Inv, OneEach
    <3> QED
      BY <1>1, <3>2 DEF Moved
  <2>2. CASE from[j] = from[k]
    BY <1>1, <2>2 DEF Moved
  <2> QED
    BY <1>2, <1>3, <2>1, <2>2
<1> QED
  BY <1>3 DEF OneEach

LEMMA CountedKept ==
    ASSUME Inv, Grows, NEW i \in 0 .. Len(calls), NEW c, Becomes(i, c), Counting(i, c)
    PROVE  Counted'
<1> SUFFICES ASSUME NEW o \in 1 .. Len(objs')
             PROVE  objs'[o].closing = Cardinality(Closes(calls', o))
  BY DEF Counted, Counting
<1> DEFINE n == Cardinality(Closes(calls, o))
           m == Cardinality(Closes(calls', o))
<1>1. n \in Nat /\ m = n + Delta(i, c, o)
  <2>1. n \in Nat /\ m = n - (IF i \in Closes(calls, o) THEN 1 ELSE 0)
                           + (IF c.at # "done" /\ c.op = "close" /\ c.obj = o THEN 1 ELSE 0)
    BY Counts DEF Inv
  <2> HIDE DEF n, m
  <2> QED
    BY <2>1 DEF Delta
<1>2. n = IF o \in 1 .. Len(objs) THEN objs[o].closing ELSE 0
  <2>1. CASE o \in 1 .. Len(objs)
    BY <2>1 DEF Inv, Counted
  <2>2. CASE o \notin 1 .. Len(objs)
    <3>1. Closes(calls, o) = {}
      BY <2>2 DEF Closes, Inv, CallsFit, Fits
    <3> QED
      BY <2>2, <3>1, FS_EmptySet
  <2> QED
    BY <2>1, <2>2
<1> HIDE DEF n, m
<1>3. objs'[o].closing = m
  BY <1>1, <1>2 DEF Counting
<1> QED
  BY <1>3 DEF m

\* An object is live no longer only when it is shut or its call is over.
LEMMA Lives ==
    ASSUME Inv, Grows, NEW i \in 0 .. Len(calls), NEW c, Becomes(i, c), Own(i, c),
           NEW o \in 1 .. Len(objs)
    PROVE  /\ Live(o)' => Live(o)
           /\ Live(o) => \/ Live(o)'
                         \/ objs[o].kind \in Kinds /\ objs'[o].shut
                         \/ /\ objs[o].kind \notin Kinds
                            /\ i # 0 /\ calls[i].op \in Whole /\ calls[i].obj = o
                            /\ ~(c.at # "done" /\ c.op \in Whole /\ c.obj = o)
<1>1. PICK from : Moved(i, c, from)
  BY DEF Becomes
<1>2. objs'[o].kind = objs[o].kind /\ (objs[o].shut => objs'[o].shut)
  BY DEF Grows
<1>3. CASE objs[o].kind \in Kinds
  <2>1. (Live(o) <=> ~objs[o].shut) /\ (Live(o)' <=> ~objs'[o].shut)
    BY <1>2, <1>3 DEF Live
  <2> QED
    BY <1>2, <1>3, <2>1
<1>4. CASE objs[o].kind \notin Kinds
  <2>1. Live(o) <=> \E k \in 1 .. Len(calls) : calls[k].op \in Whole /\ calls[k].obj = o
    BY <1>4 DEF Live
  <2>2. Live(o)' <=> \E k \in 1 .. Len(calls') : calls'[k].op \in Whole /\ calls'[k].obj = o
    BY <1>2, <1>4 DEF Live
  <2>3. ASSUME NEW j \in 1 .. Len(calls'), calls'[j].op \in Whole, calls'[j].obj = o
        PROVE  Live(o)
    <3>1. CASE from[j] = i
      <4>1. c.at # "done" /\ calls'[j] = c
        BY <1>1, <3>1 DEF Moved
      <4>2. i # 0 /\ calls[i].op \in Whole /\ calls[i].obj = o
        BY <2>3, <4>1 DEF Own
      <4> QED
        BY <2>1, <4>2, Lengths DEF Inv
    <3>2. CASE from[j] # i
      BY <1>1, <2>1, <2>3, <3>2 DEF Moved
    <3> QED
      BY <3>1, <3>2
  <2>4. ASSUME NEW k \in 1 .. Len(calls), calls[k].op \in Whole, calls[k].obj = o, ~Live(o)'
        PROVE  k = i /\ ~(c.at # "done" /\ c.op \in Whole /\ c.obj = o)
    <3>1. ASSUME k # i PROVE FALSE
      <4>1. PICK j \in 1 .. Len(calls') : from[j] = k
        BY <1>1, <3>1 DEF Moved
      <4>2. calls'[j] = calls[k]
        BY <1>1, <3>1, <4>1 DEF Moved
      <4> QED
        BY <2>2, <2>4, <4>2
    <3>2. ASSUME c.at # "done", c.op \in Whole, c.obj = o PROVE FALSE
      <4>1. PICK j \in 1 .. Len(calls') : from[j] = i
        BY <1>1, <3>2 DEF Moved
      <4>2. calls'[j] = c
        BY <1>1, <4>1 DEF Moved
      <4> QED
        BY <2>2, <2>4, <3>2, <4>2
    <3> QED
      BY <3>1, <3>2
  <2>5. ASSUME Live(o), ~Live(o)'
        PROVE  /\ i # 0 /\ calls[i].op \in Whole /\ calls[i].obj = o
               /\ ~(c.at # "done" /\ c.op \in Whole /\ c.obj = o)
    <3>1. PICK k \in 1 .. Len(calls) : calls[k].op \in Whole /\ calls[k].obj = o
      BY <2>1, <2>5
    <3>2. k = i /\ ~(c.at # "done" /\ c.op \in Whole /\ c.obj = o)
      BY <2>4, <2>5, <3>1
    <3> QED
      BY <3>1, <3>2, Lengths DEF Inv
  <2> QED
    BY <1>4, <2>2, <2>3, <2>5
<1> QED
  BY <1>3, <1>4

\* Who met whose number.
LEMMA StillRobbed ==
    ASSUME Grows, strays \subseteq strays', NEW o \in 1 .. Len(objs), Robbed(o)
    PROVE  Robbed(o)'
  BY DEF Grows, Robbed

LEMMA StraysKept ==
    ASSUME Inv, Grows, strays \subseteq strays',
           NEW o \in 1 .. Len(objs), Live(o) \/ objs'[o].overlapped,
           NEW how \in Ops \union {"truncate"}, strays' \subseteq strays \union Uses(o, how)
    PROVE  strays' \subseteq Stray(Len(objs')) /\ StrayNeedsOverlap'
<1>1. /\ Len(objs) \in Nat /\ Len(objs') \in Nat /\ Len(objs) <= Len(objs')
      /\ objs[o] \in Objects /\ objs[o].fd \in Fd
      /\ \A p \in 1 .. Len(objs) : p \in 1 .. Len(objs') /\ (objs[p].overlapped => objs'[p].overlapped)
  <2>1. Len(objs) \in Nat /\ Len(objs') \in Nat /\ Len(objs) <= Len(objs') /\ objs[o] \in Objects
    BY LenProperties, Lengths DEF Inv, Grows
  <2>2. objs[o].fd \in Fd
    BY <2>1, Zenon DEF Objects
  <2>3. ASSUME NEW p \in 1 .. Len(objs)
        PROVE  p \in 1 .. Len(objs') /\ (objs[p].overlapped => objs'[p].overlapped)
    <3>1. p \in 1 .. Len(objs')
      BY <2>1
    <3>2. objs[p].overlapped => objs'[p].overlapped
      BY Zenon DEF Grows
    <3> QED
      BY <3>1, <3>2
  <2> QED
    BY <2>1, <2>2, <2>3
<1>2. strays \subseteq Stray(Len(objs)) /\ table \in [Fd -> 0 .. Len(objs)]
  BY DEF Inv, Typed
<1>3. ASSUME NEW s \in strays' \ strays
      PROVE  /\ s = [by |-> o, of |-> table[objs[o].fd], how |-> how]
             /\ table[objs[o].fd] \in 1 .. Len(objs) /\ table[objs[o].fd] # o
  BY <1>1, <1>2, <1>3 DEF Uses
<1>4. ASSUME NEW s \in strays' PROVE s \in Stray(Len(objs'))
  <2>1. CASE s \in strays
    BY <1>1, <1>2, <2>1 DEF Stray
  <2>2. CASE s \notin strays
    BY <1>1, <1>3, <2>2 DEF Stray
  <2> QED
    BY <2>1, <2>2
<1>5. ASSUME strays' # strays
      PROVE  objs'[o].overlapped \/ \E r \in strays : r.how = "close" /\ r.of = o
  <2>1. PICK s \in strays' : s \notin strays
    BY <1>5
  <2>2. table[objs[o].fd] # o
    BY <1>3, <2>1
  <2>3. CASE objs'[o].overlapped
    BY <2>3
  <2>4. CASE Live(o)
    <3>1. Robbed(o)
      BY <2>2, <2>4 DEF Inv, Keeps
    <3> QED
      BY <1>1, <3>1 DEF Robbed
  <2> QED
    BY <2>3, <2>4
<1>6. ASSUME NEW s \in strays'
      PROVE  objs'[s.by].overlapped \/ \E r \in strays' : r.how = "close" /\ r.of = s.by
  <2>1. CASE s \in strays
    <3>1. s.by \in 1 .. Len(objs)
      BY <1>2, <2>1 DEF Stray
    <3>2. objs[s.by].overlapped \/ \E r \in strays : r.how = "close" /\ r.of = s.by
      BY <2>1 DEF Inv, StrayNeedsOverlap
    <3> QED
      BY <1>1, <3>1, <3>2
  <2>2. CASE s \notin strays
    <3>1. s.by = o
      BY <1>3, <2>2
    <3> QED
      BY <1>5, <1>6, <2>2, <3>1
  <2> QED
    BY <2>1, <2>2
<1>7. ASSUME strays' # {} PROVE \E s \in strays' : objs'[s.by].overlapped
  <2>1. CASE strays = {}
    <3>1. PICK s \in strays' : s \notin strays
      BY <1>7, <2>1
    <3>2. s.by = o /\ objs'[o].overlapped
      BY <1>3, <1>5, <2>1, <3>1
    <3> QED
      BY <3>1, <3>2
  <2>2. CASE strays # {}
    <3>1. PICK s \in strays : objs[s.by].overlapped
      BY <2>2 DEF Inv, StrayNeedsOverlap
    <3>2. s.by \in 1 .. Len(objs)
      BY <1>2, <3>1 DEF Stray
    <3> QED
      BY <1>1, <3>1, <3>2
  <2> QED
    BY <2>1, <2>2
<1> QED
  BY <1>4, <1>6, <1>7 DEF StrayNeedsOverlap

LEMMA StraysSame ==
    ASSUME Inv, Grows, strays' = strays
    PROVE  strays' \subseteq Stray(Len(objs')) /\ StrayNeedsOverlap'
<1>1. /\ Len(objs) \in Nat /\ Len(objs') \in Nat /\ Len(objs) <= Len(objs')
      /\ \A p \in 1 .. Len(objs) : p \in 1 .. Len(objs') /\ (objs[p].overlapped => objs'[p].overlapped)
  BY LenProperties, Lengths DEF Inv, Grows
<1>2. \A s \in strays : s.by \in 1 .. Len(objs) /\ s \in Stray(Len(objs))
  BY DEF Inv, Typed, Stray
<1>3. \A s \in strays : s \in Stray(Len(objs'))
  BY <1>1, <1>2 DEF Stray
<1>4. \A s \in strays : objs[s.by].overlapped => objs'[s.by].overlapped
  BY <1>1, <1>2
<1> QED
  BY <1>3, <1>4 DEF Inv, StrayNeedsOverlap

\* Who owns which number afterwards.
Owned == /\ table' \in [Fd -> 0 .. Len(objs')]
         /\ Owns' /\ Keeps' /\ Leaves'

LEMMA SameTable ==
    ASSUME Inv, Grows, strays \subseteq strays', table' = table, Len(objs') = Len(objs),
           \A o \in 1 .. Len(objs) : Live(o)' => Live(o),
           \A o \in 1 .. Len(objs) :
              Live(o) /\ table[objs[o].fd] = o => Live(o)' \/ objs'[o].leak # "no"
    PROVE  Owned
<1>1. table \in [Fd -> 0 .. Len(objs)] /\ Len(objs) \in Nat
  BY Lengths DEF Inv, Typed
<1>2. \A n \in Fd : table[n] # 0 => table[n] \in 1 .. Len(objs) /\ objs[table[n]].fd = n
  BY <1>1 DEF Inv, Owns
<1>3. Owns'
  BY <1>2 DEF Owns, Grows
<1>4. ASSUME NEW o \in 1 .. Len(objs), Live(o)' PROVE Robbed(o)' \/ table[objs'[o].fd] = o
  <2>1. Robbed(o) \/ table[objs[o].fd] = o
    BY <1>4 DEF Inv, Keeps
  <2> QED
    BY <2>1, StillRobbed DEF Grows
<1>5. Keeps'
  BY <1>4 DEF Keeps
<1>6. ASSUME NEW n \in Fd, table[n] # 0 PROVE objs'[table[n]].leak # "no" \/ Live(table[n])'
  <2> DEFINE o == table[n]
  <2>1. o \in 1 .. Len(objs) /\ objs[o].fd = n /\ table[objs[o].fd] = o
    BY <1>2, <1>6
  <2>2. objs[o].leak # "no" \/ Live(o)
    BY <1>6 DEF Inv, Leaves
  <2>3. PICK p \in 1 .. Len(objs) : p = o
    BY <2>1
  <2>4. objs'[p].leak # "no" \/ Live(p)'
    BY <2>1, <2>2, <2>3 DEF Grows
  <2>5. table' = table
    OBVIOUS
  <2> QED
    BY <2>3, <2>4, <2>5 DEF Live
<1>7. Leaves'
  BY <1>6 DEF Leaves, Live
<1> QED
  BY <1>1, <1>3, <1>5, <1>7 DEF Owned

LEMMA ClosedTable ==
    ASSUME Inv, Grows, NEW o \in 1 .. Len(objs), table' = Closed(o), Len(objs') = Len(objs),
           strays' = strays \union Uses(o, "close"), ~Live(o)',
           \A p \in 1 .. Len(objs) : p # o => (Live(p)' <=> Live(p))
    PROVE  Owned
<1>1. /\ table \in [Fd -> 0 .. Len(objs)] /\ Len(objs) \in Nat /\ objs[o].fd \in Fd
      /\ \A p \in 1 .. Len(objs) : objs[p].fd \in Fd
  BY Lengths DEF Inv, Typed, Objects
<1>2. table' = [table EXCEPT ![objs[o].fd] = 0]
  BY DEF Closed
<1>3. /\ table' \in [Fd -> 0 .. Len(objs)] /\ table'[objs[o].fd] = 0
      /\ \A n \in Fd : n # objs[o].fd => table'[n] = table[n]
  BY <1>1, <1>2
<1>4. \A n \in Fd : table'[n] # 0 =>
         /\ n # objs[o].fd /\ table'[n] = table[n] /\ table[n] # o
         /\ table[n] \in 1 .. Len(objs) /\ objs[table[n]].fd = n
  BY <1>1, <1>3 DEF Inv, Owns
<1>5. Owns'
  BY <1>4 DEF Owns, Grows
<1>6. ASSUME NEW p \in 1 .. Len(objs), Live(p)' PROVE Robbed(p)' \/ table'[objs'[p].fd] = p
  <2>1. p # o /\ Live(p)
    BY <1>6
  <2>2. Robbed(p) \/ table[objs[p].fd] = p
    BY <2>1 DEF Inv, Keeps
  <2>3. CASE Robbed(p)
    BY <2>3, StillRobbed
  <2>4. CASE table[objs[p].fd] = p /\ objs[p].fd # objs[o].fd
    BY <1>1, <1>3, <2>4 DEF Grows
  <2>5. CASE table[objs[p].fd] = p /\ objs[p].fd = objs[o].fd
    <3>1. Uses(o, "close") = {[by |-> o, of |-> p, how |-> "close"]}
      BY <1>1, <2>1, <2>5 DEF Uses
    <3>2. [by |-> o, of |-> p, how |-> "close"] \in strays'
      BY <3>1
    <3> QED
      BY <3>2 DEF Robbed
  <2> QED
    BY <2>2, <2>3, <2>4, <2>5
<1>7. Keeps'
  BY <1>6 DEF Keeps
<1>8. ASSUME NEW n \in Fd, table'[n] # 0 PROVE objs'[table'[n]].leak # "no" \/ Live(table[n])'
  <2> DEFINE q == table[n]
  <2>1. q \in 1 .. Len(objs) /\ q # o /\ table'[n] = q
    BY <1>4, <1>8
  <2>2. objs[q].leak # "no" \/ Live(q)
    BY <1>8, <2>1 DEF Inv, Leaves
  <2>3. PICK p \in 1 .. Len(objs) : p = q
    BY <2>1
  <2>4. objs'[p].leak # "no" \/ Live(p)'
    BY <2>1, <2>2, <2>3 DEF Grows
  <2> QED
    BY <2>1, <2>3, <2>4 DEF Live
<1>9. Leaves'
  BY <1>8 DEF Leaves, Live
<1> QED
  BY <1>3, <1>5, <1>7, <1>9 DEF Owned

LEMMA OpenedTable ==
    ASSUME Inv, Grows, NEW n, NEW o, o = New, Opened(n, o), Len(objs') = o, strays' = strays,
           objs'[o].fd = n, objs'[o].leak # "no" \/ Live(o)',
           \A p \in 1 .. Len(objs) : Live(p)' <=> Live(p)
    PROVE  Owned
<1>1. /\ table \in [Fd -> 0 .. Len(objs)] /\ Len(objs) \in Nat /\ o = Len(objs) + 1
      /\ n \in Fd /\ table[n] = 0 /\ table' = [table EXCEPT ![n] = o]
      /\ \A p \in 1 .. Len(objs) : objs[p].fd \in Fd
  BY Lengths DEF Inv, Typed, Objects, Opened, New
<1>2. /\ table' \in [Fd -> 0 .. Len(objs')] /\ table'[n] = o
      /\ \A m \in Fd : m # n => table'[m] = table[m]
  BY <1>1
<1>3. \A m \in Fd : m # n /\ table'[m] # 0 =>
         table'[m] = table[m] /\ table[m] \in 1 .. Len(objs) /\ objs[table[m]].fd = m
  BY <1>1, <1>2 DEF Inv, Owns
<1>4. Owns'
  BY <1>2, <1>3 DEF Owns, Grows
<1>5. ASSUME NEW p \in 1 .. Len(objs'), Live(p)' PROVE Robbed(p)' \/ table'[objs'[p].fd] = p
  <2>1. CASE p = o
    BY <1>2, <2>1
  <2>2. CASE p \in 1 .. Len(objs)
    <3>1. Robbed(p) \/ table[objs[p].fd] = p
      BY <1>5, <2>2 DEF Inv, Keeps
    <3>2. CASE Robbed(p)
      BY <2>2, <3>2, StillRobbed
    <3>3. CASE table[objs[p].fd] = p
      <4>1. objs[p].fd # n /\ objs[p].fd \in Fd
        BY <1>1, <2>2, <3>3
      <4> QED
        BY <1>2, <2>2, <3>3, <4>1 DEF Grows
    <3> QED
      BY <3>1, <3>2, <3>3
  <2> QED
    BY <1>1, <2>1, <2>2
<1>6. Keeps'
  BY <1>5 DEF Keeps
<1>7. ASSUME NEW m \in Fd, table'[m] # 0 PROVE objs'[table'[m]].leak # "no" \/ Live(table[m])' \/ m = n
  <2>1. CASE m # n
    <3> DEFINE q == table[m]
    <3>1. q \in 1 .. Len(objs) /\ table'[m] = q
      BY <1>3, <1>7, <2>1
    <3>2. objs[q].leak # "no" \/ Live(q)
      BY <3>1, <1>7, <1>1 DEF Inv, Leaves
    <3>3. PICK p \in 1 .. Len(objs) : p = q
      BY <3>1
    <3>4. objs'[p].leak # "no" \/ Live(p)'
      BY <3>1, <3>2, <3>3 DEF Grows
    <3> QED
      BY <3>1, <3>3, <3>4 DEF Live
  <2> QED
    BY <2>1
<1>8. objs'[o].leak # "no" \/ Live(o)'
  OBVIOUS
<1>9. ASSUME NEW m \in Fd, table'[m] # 0 PROVE objs'[table'[m]].leak # "no" \/ Live(table[m])'
  <2>1. CASE m = n
    BY <1>2, <1>8, <2>1 DEF Live
  <2> QED
    BY <1>7, <1>9, <2>1
<1>10. Leaves'
  BY <1>9 DEF Leaves, Live
<1> QED
  BY <1>2, <1>4, <1>6, <1>10 DEF Owned

\* The endings kept.
EndsWith(c) == IF c.at = "done" THEN ends' = ends \union {End(c)} ELSE ends' = ends

LEMMA ToldKept ==
    ASSUME Inv, NEW c, EndsWith(c), c.at = "done" => Told(c)
    PROVE  AnsweredOnce'
<1>1. \A e \in ends : Told(e)
  BY DEF Inv, AnsweredOnce, Told
<1>2. c.at = "done" => Told(End(c))
  BY DEF Told, End, Angry
<1>3. \A e \in ends' : Told(e)
  BY <1>1, <1>2 DEF EndsWith
<1> QED
  BY <1>3 DEF AnsweredOnce, Told

LEMMA Together ==
    ASSUME Inv, Grows, NEW i \in 0 .. Len(calls), NEW c, Becomes(i, c), Own(i, c), Counting(i, c),
           c.at # "done" => Fits(c, objs'), faults' \in 0 .. MaxFaults, Owned,
           strays' \subseteq Stray(Len(objs')), StrayNeedsOverlap',
           AnsweredOnce'
    PROVE  Inv'
<1>1. CallsFit' /\ OneEach' /\ Counted'
  BY CallsFitted, OneEachKept, CountedKept
<1>2. Typed'
  BY DEF Typed, Inv, Grows, Becomes, Owned
<1> QED
  BY <1>1, <1>2 DEF Inv, Owned

\* Steps that open and close nothing, nor begin to.
Mild == /\ Grows /\ Len(objs') = Len(objs) /\ table' = table
        /\ faults' \in 0 .. MaxFaults
        /\ strays \subseteq strays' /\ strays' \subseteq Stray(Len(objs')) /\ StrayNeedsOverlap'
        /\ \A o \in 1 .. Len(objs) : /\ objs'[o].closing = objs[o].closing
                                     /\ objs'[o].shut = objs[o].shut

LEMMA MildCounts ==
    ASSUME Inv, Mild, NEW i \in 0 .. Len(calls), i # 0 => calls[i].op # "close",
           NEW c, c.at # "done" => c.op # "close"
    PROVE  Counting(i, c)
<1> SUFFICES ASSUME NEW o \in 1 .. Len(objs')
             PROVE  /\ objs'[o].closing = (IF o \in 1 .. Len(objs) THEN objs[o].closing ELSE 0)
                                          + Delta(i, c, o)
                    /\ objs'[o].closing > 1 \/ (objs'[o].shut /\ objs'[o].closing > 0)
                          => objs'[o].overlapped
  BY DEF Counting
<1>1. o \in 1 .. Len(objs) /\ objs[o] \in Objects
  BY Lengths DEF Mild, Inv
<1>2. Delta(i, c, o) = 0
  <2>1. i \notin Closes(calls, o)
    BY Lengths DEF Closes, Inv
  <2> QED
    BY <2>1 DEF Delta
<1>3. objs[o].closing \in Int /\ objs'[o].closing = objs[o].closing /\ objs'[o].shut = objs[o].shut
  BY <1>1 DEF Mild, Objects
<1>4. objs[o].closing > 1 \/ (objs[o].shut /\ objs[o].closing > 0) => objs[o].overlapped
  BY <1>1 DEF Inv, Counted
<1> QED
  BY <1>1, <1>2, <1>3, <1>4 DEF Mild, Grows

LEMMA MildStep ==
    ASSUME Inv, Mild, NEW i \in 0 .. Len(calls), NEW c, Becomes(i, c), EndsWith(c),
           c.at = "done" => Told(c),
           c.at # "done" => /\ Fits(c, objs') /\ c.op # "close"
                            /\ c.op \in Whole => /\ i # 0 /\ calls[i].op \in Whole
                                                 /\ c.obj = calls[i].obj,
           i # 0 => /\ calls[i].op # "close"
                    /\ calls[i].op \in Whole =>
                          \/ c.at # "done" /\ c.op \in Whole
                          \/ objs'[calls[i].obj].leak # "no"
                          \/ table[objs[calls[i].obj].fd] # calls[i].obj
    PROVE  Inv'
<1>1. Own(i, c)
  BY DEF Own
<1>2. Counting(i, c)
  BY MildCounts
<1>3. ASSUME NEW o \in 1 .. Len(objs)
      PROVE  /\ Live(o)' => Live(o)
             /\ Live(o) /\ table[objs[o].fd] = o => Live(o)' \/ objs'[o].leak # "no"
  <2>1. /\ Live(o)' => Live(o)
        /\ Live(o) => \/ Live(o)'
                      \/ objs[o].kind \in Kinds /\ objs'[o].shut
                      \/ /\ objs[o].kind \notin Kinds
                         /\ i # 0 /\ calls[i].op \in Whole /\ calls[i].obj = o
                         /\ ~(c.at # "done" /\ c.op \in Whole /\ c.obj = o)
    BY <1>1, Lives DEF Mild
  <2>2. ASSUME Live(o), objs[o].kind \in Kinds, objs'[o].shut PROVE FALSE
    BY <2>2 DEF Live, Mild
  <2> QED
    BY <2>1, <2>2
<1>4. Owned
  <2>1. /\ Grows /\ strays \subseteq strays' /\ table' = table /\ Len(objs') = Len(objs)
    BY DEF Mild
  <2> QED
    BY <1>3, <2>1, SameTable
<1> QED
  BY <1>1, <1>2, <1>4, ToldKept, Together DEF Mild

LEMMA MadeMild ==
    ASSUME Inv, FilesBounds, Mild, NEW c, Made(c), made < program.calls,
           c.at = "done" => Told(c),
           c.at # "done" => c \in UnderWay /\ Fits(c, objs) /\ c.op \notin Whole \union {"close"}
    PROVE  Inv'
<1>1. Becomes(0, c)
  BY MadeBecomes DEF Inv
<1>2. EndsWith(c)
  BY DEF Made, EndsWith
<1>3. c.at # "done" => Fits(c, objs')
  BY StillFits DEF Inv, Mild
<1>4. 0 \in 0 .. Len(calls)
  BY Lengths DEF Inv
<1> QED
  BY <1>1, <1>2, <1>3, <1>4, MildStep

LEMMA SetMild ==
    ASSUME Inv, FilesBounds, Mild, NEW i \in 1 .. Len(calls), NEW c, Set(i, c),
           calls[i].op # "close",
           c.at = "done" => Told(c),
           c.at # "done" => /\ c \in UnderWay /\ Fits(c, objs')
                            /\ c.op = calls[i].op /\ c.obj = calls[i].obj,
           calls[i].op \in Whole =>
              \/ c.at # "done"
              \/ objs'[calls[i].obj].leak # "no"
              \/ table[objs[calls[i].obj].fd] # calls[i].obj
    PROVE  Inv'
<1>1. Becomes(i, c)
  BY SetBecomes DEF Inv
<1>2. EndsWith(c)
  BY DEF Set, EndsWith
<1>3. i \in 0 .. Len(calls) /\ i # 0
  BY Lengths DEF Inv
<1>4. c.at # "done" => /\ Fits(c, objs') /\ c.op # "close"
                       /\ c.op \in Whole => i # 0 /\ calls[i].op \in Whole /\ c.obj = calls[i].obj
  BY <1>3
<1>5. i # 0 => /\ calls[i].op # "close"
               /\ calls[i].op \in Whole =>
                     \/ c.at # "done" /\ c.op \in Whole
                     \/ objs'[calls[i].obj].leak # "no"
                     \/ table[objs[calls[i].obj].fd] # calls[i].obj
  OBVIOUS
<1> QED
  BY <1>1, <1>2, <1>3, <1>4, <1>5, MildStep

\* A step that changes one object, and the others not.
Puts(o, new) == /\ DOMAIN objs' = 1 .. Len(objs) /\ objs' = [p \in DOMAIN objs' |-> objs'[p]]
                /\ objs'[o] = new
                /\ \A p \in 1 .. Len(objs) : p # o => objs'[p] = objs[p]

LEMMA PutGrows ==
    ASSUME Inv, NEW o \in 1 .. Len(objs), NEW new \in Objects, Puts(o, new),
           new.kind = objs[o].kind, new.fd = objs[o].fd, objs[o].shut => new.shut,
           objs[o].overlapped => new.overlapped, objs[o].leak # "no" => new.leak # "no"
    PROVE  Grows /\ Len(objs') = Len(objs)
<1>1. Len(objs) \in Nat /\ \A p \in 1 .. Len(objs) : objs[p] \in Objects
  BY Lengths DEF Inv
<1>2. objs' \in [1 .. Len(objs) -> Objects]
  BY <1>1 DEF Puts
<1>3. objs' \in Seq(Objects) /\ Len(objs') = Len(objs)
  BY <1>1, <1>2, Mapped
<1> QED
  BY <1>1, <1>3 DEF Grows, Puts

LEMMA SameGrows == ASSUME Inv, objs' = objs PROVE Grows
<1>1. objs \in Seq(Objects) /\ Len(objs) \in Nat
  BY Lengths DEF Inv, Typed
<1> QED
  BY <1>1 DEF Grows

-----------------------------------------------------------------------------
(* A close begins, a number is released, and a file is opened.              *)

LEMMA ClosesBegin ==
    ASSUME Inv, NEW o \in 1 .. Len(objs), CloseBegins(o), ~objs[o].shut, objs[o].kind \in Kinds,
           NEW i \in 0 .. Len(calls), i # 0 => calls[i].op \notin Whole \union {"close"},
           NEW c, Becomes(i, c), EndsWith(c), c.at # "done", c.op = "close", c.obj = o,
           c.answers = <<>>, UNCHANGED <<table, faults, strays>>
    PROVE  Inv'
<1> DEFINE new == [objs[o] EXCEPT !.closing = @ + 1, !.overlapped = @ \/ objs[o].closing > 0]
<1>1. /\ Len(objs) \in Nat /\ DOMAIN objs = 1 .. Len(objs)
      /\ \A p \in 1 .. Len(objs) : objs[p] \in Objects
  BY Lengths, LenProperties DEF Inv, Typed
<1>2. /\ new \in Objects /\ new.closing = objs[o].closing + 1
      /\ objs[o].overlapped \/ objs[o].closing > 0 => new.overlapped
      /\ new.kind = objs[o].kind /\ new.fd = objs[o].fd /\ new.shut = objs[o].shut
      /\ new.leak = objs[o].leak
  <2>1. objs[o] \in Objects /\ objs[o].closing + 1 \in Int
    BY <1>1 DEF Objects
  <2>2. /\ new.closing = objs[o].closing + 1
        /\ new.kind = objs[o].kind /\ new.fd = objs[o].fd /\ new.shut = objs[o].shut
        /\ new.leak = objs[o].leak
    BY <2>1 DEF Objects
  <2>3. objs[o].overlapped \/ objs[o].closing > 0 => new.overlapped
    BY <2>1 DEF Objects
  <2>4. new \in Objects
    BY <2>1 DEF Objects
  <2> QED
    BY <2>2, <2>3, <2>4
<1>3. Puts(o, new)
  BY <1>1 DEF CloseBegins, Puts
<1> HIDE DEF new
<1>4. Grows /\ Len(objs') = Len(objs)
  BY <1>2, <1>3, PutGrows
<1>5. Own(i, c)
  BY DEF Own, Whole
<1>6. Counting(i, c)
  <2> SUFFICES ASSUME NEW p \in 1 .. Len(objs)
               PROVE  /\ objs'[p].closing = objs[p].closing + Delta(i, c, p)
                      /\ objs'[p].closing > 1 \/ (objs'[p].shut /\ objs'[p].closing > 0)
                            => objs'[p].overlapped
    BY <1>4 DEF Counting
  <2>1. Delta(i, c, p) = IF p = o THEN 1 ELSE 0
    <3>1. i \notin Closes(calls, p)
      BY Lengths DEF Closes, Inv
    <3> QED
      BY <3>1 DEF Delta
  <2>2. /\ objs[p].closing \in Int
        /\ objs[p].closing > 1 \/ (objs[p].shut /\ objs[p].closing > 0) => objs[p].overlapped
    BY <1>1 DEF Objects, Inv, Counted
  <2>3. CASE p = o
    <3>1. objs'[p].closing = objs[p].closing + 1 /\ ~objs'[p].shut
      BY <1>2, <1>3, <2>3 DEF Puts
    <3>2. objs'[p].closing > 1 => objs'[p].overlapped
      BY <1>2, <1>3, <2>2, <2>3, <3>1 DEF Puts
    <3> QED
      BY <2>1, <2>3, <3>1, <3>2
  <2>4. CASE p # o
    BY <1>3, <2>1, <2>2, <2>4 DEF Puts
  <2> QED
    BY <2>3, <2>4
<1>7. Fits(c, objs')
  BY <1>2, <1>3, <1>4 DEF Fits, Puts, Whole
<1>8. ASSUME NEW p \in 1 .. Len(objs) PROVE Live(p)' <=> Live(p)
  <2>1. /\ Live(p)' => Live(p)
        /\ Live(p) => \/ Live(p)'
                      \/ objs[p].kind \in Kinds /\ objs'[p].shut
                      \/ /\ objs[p].kind \notin Kinds
                         /\ i # 0 /\ calls[i].op \in Whole /\ calls[i].obj = p
                         /\ ~(c.at # "done" /\ c.op \in Whole /\ c.obj = p)
    BY <1>4, <1>5, Lives
  <2>2. objs'[p].shut = objs[p].shut
    BY <1>2, <1>3 DEF Puts
  <2> QED
    BY <2>1, <2>2 DEF Live
<1>9. Owned
  BY <1>4, <1>8, SameTable
<1>10. strays' \subseteq Stray(Len(objs')) /\ StrayNeedsOverlap'
  BY <1>4, StraysSame
<1>11. faults' \in 0 .. MaxFaults
  BY DEF Inv, Typed
<1> QED
  BY <1>4, <1>5, <1>6, <1>7, <1>9, <1>10, <1>11, ToldKept, Together

LEMMA Releases ==
    ASSUME Inv, FilesBounds, NEW i \in 1 .. Len(calls), NEW c, Set(i, c), c.at = "done", Told(c),
           calls[i].op \in Whole, NEW o, o = calls[i].obj, table' = Closed(o),
           strays' = strays \union Uses(o, "close"), objs' = objs, faults' = faults
    PROVE  Inv'
<1>1. Becomes(i, c) /\ EndsWith(c)
  BY SetBecomes DEF Inv, Set, EndsWith
<1>2. /\ i \in 0 .. Len(calls) /\ o \in 1 .. Len(objs) /\ Grows /\ Own(i, c)
      /\ objs[o].kind \notin Kinds
  <2>1. Fits(calls[i], objs) /\ i \in 0 .. Len(calls)
    BY Lengths DEF Inv, CallsFit
  <2>2. o \in 1 .. Len(objs) /\ objs[o].kind = "inner"
    BY <2>1 DEF Fits, Whole
  <2> QED
    BY <2>1, <2>2, SameGrows DEF Own, Kinds
<1>3. Live(o)
  BY <1>2 DEF Live
<1>4. ~Live(o)'
  <2>1. PICK from : Moved(i, c, from)
    BY <1>1 DEF Becomes
  <2> SUFFICES ASSUME NEW j \in 1 .. Len(calls'), calls'[j].op \in Whole, calls'[j].obj = o
               PROVE  FALSE
    BY <1>2 DEF Live
  <2>2. from[j] # i /\ from[j] \in 1 .. Len(calls) /\ calls'[j] = calls[from[j]]
    BY <2>1 DEF Moved
  <2> QED
    BY <2>2 DEF Inv, OneEach
<1>5. ASSUME NEW p \in 1 .. Len(objs), p # o PROVE Live(p)' <=> Live(p)
  <2>1. /\ Live(p)' => Live(p)
        /\ Live(p) => \/ Live(p)'
                      \/ objs[p].kind \in Kinds /\ objs'[p].shut
                      \/ /\ objs[p].kind \notin Kinds
                         /\ i # 0 /\ calls[i].op \in Whole /\ calls[i].obj = p
                         /\ ~(c.at # "done" /\ c.op \in Whole /\ c.obj = p)
    BY <1>1, <1>2, Lives
  <2> QED
    BY <1>5, <2>1 DEF Live
<1>6. Owned
  BY <1>2, <1>4, <1>5, ClosedTable
<1>7. strays' \subseteq Stray(Len(objs')) /\ StrayNeedsOverlap'
  <2>1. "close" \in Ops \union {"truncate"}
    BY DEF Ops
  <2> QED
    BY <1>2, <1>3, <2>1, StraysKept
<1>8. Counting(i, c)
  <2> SUFFICES ASSUME NEW p \in 1 .. Len(objs)
               PROVE  /\ objs[p].closing = objs[p].closing + Delta(i, c, p)
                      /\ objs[p].closing > 1 \/ (objs[p].shut /\ objs[p].closing > 0)
                            => objs[p].overlapped
    BY DEF Counting
  <2>1. Delta(i, c, p) = 0
    <3>1. i \notin Closes(calls, p)
      BY DEF Closes, Whole
    <3>2. ~(c.at # "done" /\ c.op = "close" /\ c.obj = p)
      OBVIOUS
    <3> QED
      BY <3>1, <3>2, DeltaNone
  <2>2. objs[p].closing \in Int
    BY Lengths DEF Inv, Objects
  <2> QED
    BY <2>1, <2>2 DEF Inv, Counted
<1>9. faults' \in 0 .. MaxFaults
  BY DEF Inv, Typed
<1> QED
  BY <1>1, <1>2, <1>6, <1>7, <1>8, <1>9, ToldKept, Together

LEMMA Opens ==
    ASSUME Inv, NEW n, NEW o, o = New, Opened(n, o), NEW ob \in Objects,
           objs' = Append(objs, ob), ob.fd = n, ob.closing = 0,
           strays' = strays, faults' \in 0 .. MaxFaults,
           NEW i \in 0 .. Len(calls), i # 0 => calls[i].op \notin Whole \union {"close"},
           NEW c, Becomes(i, c), EndsWith(c), c.at = "done" => Told(c),
           c.at # "done" => i = 0 /\ Fits(c, objs') /\ c.op \in Whole /\ c.obj = o,
           \/ ob.leak # "no"
           \/ ob.kind \in Kinds /\ ~ob.shut
           \/ ob.kind \notin Kinds /\ c.at # "done"
    PROVE  Inv'
<1>1. /\ Len(objs) \in Nat /\ o = Len(objs) + 1 /\ objs \in Seq(Objects)
      /\ \A p \in 1 .. Len(objs) : objs[p] \in Objects
  BY Lengths DEF Inv, Typed, New
<1>2. /\ objs' \in Seq(Objects) /\ Len(objs') = o /\ objs'[o] = ob
      /\ \A p \in 1 .. Len(objs) : objs'[p] = objs[p]
  BY <1>1, AppendProperties
<1>3. Grows
  BY <1>1, <1>2 DEF Grows
<1>4. Own(i, c)
  BY <1>1 DEF Own
<1>5. Counting(i, c)
  <2> SUFFICES ASSUME NEW p \in 1 .. Len(objs')
               PROVE  /\ objs'[p].closing = (IF p \in 1 .. Len(objs) THEN objs[p].closing ELSE 0)
                                            + Delta(i, c, p)
                      /\ objs'[p].closing > 1 \/ (objs'[p].shut /\ objs'[p].closing > 0)
                            => objs'[p].overlapped
    BY DEF Counting
  <2>1. Delta(i, c, p) = 0
    <3>1. i \notin Closes(calls, p)
      BY Lengths DEF Closes, Inv
    <3> QED
      BY <3>1 DEF Delta, Whole
  <2>2. CASE p \in 1 .. Len(objs)
    <3>1. objs[p].closing \in Int /\ objs'[p] = objs[p]
      BY <1>1, <1>2, <2>2 DEF Objects
    <3> QED
      BY <2>1, <2>2, <3>1 DEF Inv, Counted
  <2>3. CASE p = o
    BY <1>1, <1>2, <2>1, <2>3
  <2> QED
    BY <1>1, <1>2, <2>2, <2>3
<1>6. ASSUME NEW p \in 1 .. Len(objs) PROVE Live(p)' <=> Live(p)
  <2>1. /\ Live(p)' => Live(p)
        /\ Live(p) => \/ Live(p)'
                      \/ objs[p].kind \in Kinds /\ objs'[p].shut
                      \/ /\ objs[p].kind \notin Kinds
                         /\ i # 0 /\ calls[i].op \in Whole /\ calls[i].obj = p
                         /\ ~(c.at # "done" /\ c.op \in Whole /\ c.obj = p)
    BY <1>3, <1>4, Lives
  <2> QED
    BY <1>2, <2>1 DEF Live
<1>7. objs'[o].leak # "no" \/ Live(o)'
  <2>1. CASE ob.kind \in Kinds /\ ~ob.shut
    BY <1>2, <2>1 DEF Live
  <2>2. CASE ob.kind \notin Kinds /\ c.at # "done"
    <3>1. PICK from : Moved(i, c, from)
      BY DEF Becomes
    <3>2. \E j \in 1 .. Len(calls') : calls'[j] = c
      BY <2>2, <3>1 DEF Moved
    <3> QED
      BY <1>2, <2>2, <3>2 DEF Live
  <2> QED
    BY <1>2, <2>1, <2>2
<1>8. Owned
  BY <1>2, <1>3, <1>6, <1>7, OpenedTable
<1>9. strays' \subseteq Stray(Len(objs')) /\ StrayNeedsOverlap'
  BY <1>3, StraysSame
<1> QED
  BY <1>3, <1>4, <1>5, <1>8, <1>9, ToldKept, Together

-----------------------------------------------------------------------------
(* What a call is and has told.                                             *)

AnyCall == [op : Ops, obj : Kinds \union Nat, at : Places, throws : Throws,
            answers : {<<>>, <<"ok">>}, why : Whys]

LEMMA NewCall ==
    ASSUME NEW op \in Ops, NEW o \in Kinds \union Nat, NEW at \in Places, NEW t \in Throws
    PROVE  /\ Call(op, o, at, t) \in AnyCall /\ Call(op, o, at, t).answers = <<>>
           /\ Call(op, o, at, t).op = op /\ Call(op, o, at, t).obj = o
           /\ Call(op, o, at, t).at = at
           /\ at # "done" => Call(op, o, at, t) \in UnderWay
  BY DEF Call, AnyCall, UnderWay, Whys

LEMMA Singles == \A a, b : /\ Append(<<>>, a) = <<a>> /\ Len(<<a>>) = 1
                           /\ Len(Append(<<a>>, b)) = 2 /\ Append(<<a>>, b)[1] = a
<1>1. \A a : Len(<<a>>) = 1 /\ Append(<<>>, a) = <<a>> /\ <<a>>[1] = a
  OBVIOUS
<1>2. ASSUME NEW a, NEW b PROVE Len(Append(<<a>>, b)) = 2 /\ Append(<<a>>, b)[1] = a
  <2>1. <<a>> \in Seq({a, b}) /\ b \in {a, b}
    OBVIOUS
  <2> QED
    BY <1>1, <2>1, AppendProperties
<1> QED
  BY <1>1, <1>2

LEMMA Tells ==
    ASSUME NEW c \in AnyCall, c.answers = <<>>, NEW a
    PROVE  Told(Answered(c, a)) /\ Answered(c, a).at = "done"
<1>1. Answered(c, a).answers = <<a>> /\ Answered(c, a).at = "done"
  BY Singles DEF Answered, AnyCall
<1> QED
  BY <1>1, Singles DEF Told

LEMMA Settles ==
    ASSUME NEW c \in AnyCall, c.answers = <<>>, NEW ok \in BOOLEAN
    PROVE  Told(Settled(c, ok)) /\ Settled(c, ok).at = "done"
<1>1. CASE ~ok \/ ~Angry(c, "ok")
  BY <1>1, Tells DEF Settled
<1>2. CASE ok /\ Angry(c, "ok")
  <2> DEFINE d == Answered(Answered(c, "ok"), "error")
  <2>1. Settled(c, ok) = d
    BY <1>2 DEF Settled
  <2>2. d.answers = Append(<<"ok">>, "error") /\ d.at = "done" /\ d.throws = c.throws
    BY Singles DEF Answered, AnyCall
  <2>3. Angry(d, "ok")
    BY <1>2, <2>2 DEF Angry
  <2> HIDE DEF d
  <2>4. Len(d.answers) = 2 /\ d.answers[1] = "ok"
    BY <2>2, Singles
  <2>5. Told(d)
    BY <2>3, <2>4 DEF Told
  <2> QED
    BY <2>1, <2>2, <2>5
<1> QED
  BY <1>1, <1>2

\* A call under way, and a read that fails, which tells nobody.
LEMMA TheCall ==
    ASSUME Inv, NEW i \in 1 .. Len(calls)
    PROVE  /\ calls[i] \in UnderWay /\ calls[i] \in AnyCall /\ Fits(calls[i], objs)
           /\ calls[i].op # "writeFile" \/ calls[i].at # "catch" => calls[i].answers = <<>>
<1>1. calls[i] \in UnderWay /\ Fits(calls[i], objs)
  BY Lengths DEF Inv, CallsFit
<1>2. calls[i] \in AnyCall
  BY <1>1 DEF UnderWay, AnyCall
<1>3. calls[i].op # "writeFile" \/ calls[i].at # "catch" => calls[i].answers = <<>>
  BY <1>1 DEF Fits
<1> QED
  BY <1>1, <1>2, <1>3

LEMMA May == ASSUME Inv, FilesBounds, NEW op, NEW t, MayCall(op, t)
             PROVE  made < program.calls /\ op \in Ops
  BY DEF MayCall, Inv, Typed, FilesBounds, Program

LEMMA Faults == ASSUME Inv, FilesBounds, NEW ok, Outcome(ok) \/ UNCHANGED faults
                PROVE  faults' \in 0 .. MaxFaults
  BY DEF Inv, Typed, FilesBounds, Outcome

LEMMA Still ==
    ASSUME Inv, UNCHANGED <<table, objs, strays>>, faults' \in 0 .. MaxFaults
    PROVE  Mild
<1>1. Grows
  BY SameGrows
<1>2. strays' \subseteq Stray(Len(objs')) /\ StrayNeedsOverlap'
  BY <1>1, StraysSame
<1> QED
  BY <1>1, <1>2 DEF Mild

-----------------------------------------------------------------------------
(* The calls of clients.                                                    *)

LEMMA OpenStep ==
    ASSUME Inv, FilesBounds, NEW t \in Throws, NEW kind \in Kinds, Open(kind, t)
    PROVE  Inv'
<1>1. made < program.calls /\ UNCHANGED <<table, objs, strays>>
  BY May DEF Open
<1>2. "open" \in Ops /\ kind \in Kinds \union Nat /\ {"timeout", "done"} \subseteq Places
  BY DEF Ops, Places
<1>3. CASE Made(Call("open", kind, "timeout", t)) /\ UNCHANGED faults
  <2>1. Mild
    BY <1>1, <1>3, Still, Faults
  <2> DEFINE c == Call("open", kind, "timeout", t)
  <2>2. c.op = "open" /\ c.obj = kind /\ c.at = "timeout" /\ c.answers = <<>> /\ c \in UnderWay
    BY <1>2, NewCall
  <2>3. Made(c)
    BY <1>3
  <2> HIDE DEF c
  <2>4. Fits(c, objs) /\ c.op \notin Whole \union {"close"}
    BY <2>2 DEF Fits, Whole, HandleOps
  <2> QED
    BY <1>1, <2>1, <2>2, <2>3, <2>4, MadeMild
<1>4. CASE Outcome(FALSE) /\ Made(Answered(Call("open", kind, "done", t), "error"))
  <2>1. Mild
    BY <1>1, <1>4, Still, Faults
  <2>2. Call("open", kind, "done", t) \in AnyCall /\ Call("open", kind, "done", t).answers = <<>>
    BY <1>2, NewCall
  <2>3. /\ Told(Answered(Call("open", kind, "done", t), "error"))
        /\ Answered(Call("open", kind, "done", t), "error").at = "done"
    BY <2>2, Tells
  <2> QED
    BY <1>1, <1>4, <2>1, <2>3, MadeMild
<1> QED
  BY <1>3, <1>4 DEF Open

LEMMA ReadDirStep ==
    ASSUME Inv, FilesBounds, NEW t \in Throws, ReadDir(t)
    PROVE  Inv'
<1>1. made < program.calls /\ Mild
  BY May, Still, Faults DEF ReadDir
<1> DEFINE c == Call("readdir", 0, "timeout", t)
<1>2. c.op = "readdir" /\ c.at = "timeout" /\ c.answers = <<>> /\ c \in UnderWay
  <2>1. "readdir" \in Ops /\ 0 \in Kinds \union Nat /\ "timeout" \in Places
    BY DEF Ops, Places
  <2> QED
    BY <2>1, NewCall
<1>3. Made(c)
  BY DEF ReadDir
<1> HIDE DEF c
<1>4. Fits(c, objs) /\ c.op \notin Whole \union {"close"}
  BY <1>2 DEF Fits, Whole, HandleOps
<1> QED
  BY <1>1, <1>2, <1>3, <1>4, MadeMild

\* What Inner appends.
InnerOpen(n, leak) == [Object("inner", n) EXCEPT !.leak = leak]

LEMMA AnObject ==
    ASSUME NEW kind \in Kinds \union {"inner"}, NEW n \in Fd
    PROVE  /\ Object(kind, n) \in Objects /\ Object(kind, n).kind = kind
           /\ Object(kind, n).fd = n /\ Object(kind, n).closing = 0 /\ ~Object(kind, n).shut
<1>1. "no" \in Leaks /\ 0 \in Int /\ 1 \in Int
  BY DEF Leaks
<1>2. Object(kind, n) \in Objects
  BY <1>1, Zenon DEF Object, Objects
<1> QED
  BY <1>2 DEF Object

LEMMA InnerObject ==
    ASSUME NEW n \in Fd, NEW leak \in Leaks
    PROVE  /\ InnerOpen(n, leak) \in Objects /\ InnerOpen(n, leak).kind = "inner"
           /\ InnerOpen(n, leak).fd = n /\ InnerOpen(n, leak).closing = 0
           /\ InnerOpen(n, leak).leak = leak
           /\ Inner(n, leak) => objs' = Append(objs, InnerOpen(n, leak))
<1>1. ASSUME NEW x \in Objects, NEW y, y = [x EXCEPT !.leak = leak]
      PROVE  /\ y \in Objects /\ y.kind = x.kind /\ y.fd = x.fd /\ y.closing = x.closing
             /\ y.leak = leak
  BY <1>1 DEF Objects
<1>2. /\ Object("inner", n) \in Objects /\ Object("inner", n).kind = "inner"
      /\ Object("inner", n).fd = n /\ Object("inner", n).closing = 0
  BY AnObject
<1>3. /\ InnerOpen(n, leak) \in Objects /\ InnerOpen(n, leak).kind = "inner"
      /\ InnerOpen(n, leak).fd = n /\ InnerOpen(n, leak).closing = 0
      /\ InnerOpen(n, leak).leak = leak
  BY <1>1, <1>2 DEF InnerOpen
<1>4. Inner(n, leak) => objs' = Append(objs, InnerOpen(n, leak))
  BY Zenon DEF Inner, InnerOpen
<1> QED
  BY <1>3, <1>4

LEMMA OpensInner ==
    ASSUME Inv, FilesBounds, NEW n, NEW o, o = New, NEW leak \in Leaks, Opened(n, New), Inner(n, leak),
           strays' = strays, faults' \in 0 .. MaxFaults, made < program.calls, NEW c, Made(c),
           c.at = "done" => Told(c) /\ leak # "no",
           c.at # "done" => /\ c \in UnderWay /\ c.op \in Whole /\ c.obj = o /\ c.answers = <<>>
                            /\ c.op = "readFile" /\ c.at = "catch" => leak # "no"
    PROVE  Inv'
<1>1. Becomes(0, c) /\ EndsWith(c)
  BY MadeBecomes DEF Inv, Made, EndsWith
<1>2. n \in Fd /\ Len(objs) \in Nat /\ o = Len(objs) + 1 /\ objs \in Seq(Objects)
  BY Lengths DEF Inv, Typed, Opened, New
<1> DEFINE ob == InnerOpen(n, leak)
<1>3. objs' = Append(objs, ob)
  BY <1>2, InnerObject
<1>4. /\ ob \in Objects /\ ob.kind = "inner" /\ ob.fd = n /\ ob.closing = 0
      /\ ob.leak = leak
  BY <1>2, InnerObject
<1> HIDE DEF ob
<1>5. Len(objs') = o /\ objs'[o] = ob
  BY <1>2, <1>3, <1>4, AppendProperties
<1>6. ASSUME c.at # "done" PROVE Fits(c, objs')
  <2>1. c.obj \in 1 .. Len(objs') /\ objs'[c.obj].kind = "inner" /\ objs'[c.obj].leak = leak
    BY <1>2, <1>4, <1>5, <1>6
  <2>2. c.op \notin {"open", "close", "dir.read"} \union HandleOps
    BY <1>6 DEF Whole, HandleOps
  <2>3. c.answers = <<>> /\ (c.op = "readFile" /\ c.at = "catch" => leak # "no")
    BY <1>6
  <2> QED
    BY <2>1, <2>2, <2>3 DEF Fits
<1>7. Opened(n, o) /\ 0 \in 0 .. Len(calls) /\ ob.kind \notin Kinds
  BY <1>4, Lengths DEF Inv, Kinds
<1>8. \/ ob.leak # "no"
      \/ ob.kind \in Kinds /\ ~ob.shut
      \/ ob.kind \notin Kinds /\ c.at # "done"
  BY <1>4, <1>7
<1>9. c.at # "done" => 0 = 0 /\ Fits(c, objs') /\ c.op \in Whole /\ c.obj = o
  BY <1>6
<1>10. c.at = "done" => Told(c)
  OBVIOUS
<1> QED
  BY <1>1, <1>3, <1>4, <1>7, <1>8, <1>9, <1>10, Opens

LEMMA ReadDirSyncStep == ASSUME Inv, FilesBounds, ReadDirSync PROVE Inv'
<1>1. PICK n \in Fd : Opened(n, New) /\ Inner(n, "readdirSync")
  BY DEF ReadDirSync
<1>2. made < program.calls /\ faults' \in 0 .. MaxFaults /\ strays' = strays
  BY May, Faults DEF ReadDirSync
<1>3. New \in Kinds \union Nat /\ "readdirSync" \in Ops /\ "done" \in Places /\ "never" \in Throws
  BY Lengths DEF Inv, New, Ops, Places, Throws, Callbacks
<1> DEFINE d == Call("readdirSync", New, "done", "never")
<1>4. d \in AnyCall /\ d.answers = <<>>
  BY <1>3, NewCall
<1>5. Made(Answered(d, "ok"))
  BY DEF ReadDirSync
<1> HIDE DEF d
<1>6. Told(Answered(d, "ok")) /\ Answered(d, "ok").at = "done"
  BY <1>4, Tells
<1>7. "readdirSync" \in Leaks /\ "readdirSync" # "no"
  BY DEF Leaks
<1> QED
  BY <1>1, <1>2, <1>5, <1>6, <1>7, OpensInner

LEMMA ReadFileStep ==
    ASSUME Inv, FilesBounds, NEW t \in Throws, ReadFile(t)
    PROVE  Inv'
<1>1. /\ made < program.calls /\ strays' = strays /\ {"no", "stat failed", "read failed"} \subseteq Leaks
  BY May DEF ReadFile, Leaks
<1> DEFINE c == Call("readFile", New, "done", t)
<1>2. c \in AnyCall /\ c.answers = <<>> /\ c.op = "readFile" /\ c.obj = New /\ c.at = "done"
  <2>1. "readFile" \in Ops /\ New \in Kinds \union Nat /\ "done" \in Places
    BY Lengths DEF Inv, New, Ops, Places
  <2> QED
    BY <2>1, NewCall
<1>3. \/ Outcome(FALSE) /\ Made(Answered(c, "error")) /\ UNCHANGED <<table, objs>>
      \/ \E n \in Fd :
           \/ /\ Opened(n, New) /\ Inner(n, "no") /\ UNCHANGED faults
              /\ Made([c EXCEPT !.at = "then"])
           \/ /\ Opened(n, New) /\ Inner(n, "stat failed") /\ Outcome(FALSE)
              /\ Made([c EXCEPT !.why = "thrown at the caller"])
           \/ /\ Opened(n, New) /\ Inner(n, "read failed") /\ Outcome(FALSE)
              /\ Made([c EXCEPT !.at = "catch"])
  BY DEF ReadFile
<1> HIDE DEF c
<1>4. CASE Outcome(FALSE) /\ Made(Answered(c, "error")) /\ UNCHANGED <<table, objs>>
  <2>1. Mild
    BY <1>1, <1>4, Still, Faults
  <2> QED
    BY <1>1, <1>2, <1>4, <2>1, Tells, MadeMild
<1>5. ASSUME NEW n \in Fd, Opened(n, New), Inner(n, "no"), UNCHANGED faults,
             Made([c EXCEPT !.at = "then"])
      PROVE  Inv'
  <2> DEFINE d == [c EXCEPT !.at = "then"]
  <2>1. /\ d \in UnderWay /\ d.op = "readFile" /\ d.op \in Whole /\ d.obj = New /\ d.answers = <<>>
        /\ d.at = "then"
    BY <1>2 DEF AnyCall, UnderWay, Places, Whole
  <2>2. Made(d) /\ faults' \in 0 .. MaxFaults
    BY <1>5, Faults
  <2> HIDE DEF d
  <2> QED
    BY <1>1, <1>5, <2>1, <2>2, OpensInner
<1>6. ASSUME NEW n \in Fd, Opened(n, New), Inner(n, "stat failed"), Outcome(FALSE),
             Made([c EXCEPT !.why = "thrown at the caller"])
      PROVE  Inv'
  <2> DEFINE d == [c EXCEPT !.why = "thrown at the caller"]
  <2>1. d.at = "done" /\ d.why = "thrown at the caller"
    BY <1>2 DEF AnyCall
  <2>2. Made(d) /\ faults' \in 0 .. MaxFaults
    BY <1>6, Faults
  <2> HIDE DEF d
  <2>3. Told(d)
    BY <2>1 DEF Told
  <2> QED
    BY <1>1, <1>6, <2>1, <2>2, <2>3, OpensInner
<1>7. ASSUME NEW n \in Fd, Opened(n, New), Inner(n, "read failed"), Outcome(FALSE),
             Made([c EXCEPT !.at = "catch"])
      PROVE  Inv'
  <2> DEFINE d == [c EXCEPT !.at = "catch"]
  <2>1. /\ d \in UnderWay /\ d.op = "readFile" /\ d.op \in Whole /\ d.obj = New /\ d.answers = <<>>
        /\ d.at = "catch"
    BY <1>2 DEF AnyCall, UnderWay, Places, Whole
  <2>2. Made(d) /\ faults' \in 0 .. MaxFaults
    BY <1>7, Faults
  <2> HIDE DEF d
  <2> QED
    BY <1>1, <1>7, <2>1, <2>2, OpensInner
<1> QED
  BY <1>3, <1>4, <1>5, <1>6, <1>7

LEMMA WriteFileStep ==
    ASSUME Inv, FilesBounds, NEW t \in Throws, NEW good \in BOOLEAN, WriteFile(t, good)
    PROVE  Inv'
<1>1. /\ made < program.calls /\ strays' = strays /\ {"no", "bad data"} \subseteq Leaks
  BY May DEF WriteFile, Leaks
<1> DEFINE c == Call("writeFile", New, "done", t)
<1>2. c \in AnyCall /\ c.answers = <<>> /\ c.op = "writeFile" /\ c.obj = New /\ c.at = "done"
  <2>1. "writeFile" \in Ops /\ New \in Kinds \union Nat /\ "done" \in Places
    BY Lengths DEF Inv, New, Ops, Places
  <2> QED
    BY <2>1, NewCall
<1>3. \/ Outcome(FALSE) /\ Made(Answered(c, "error")) /\ UNCHANGED <<table, objs>>
      \/ \E n \in Fd :
           /\ Opened(n, New)
           /\ \/ \E ok \in BOOLEAN :
                   /\ Inner(n, "no") /\ Outcome(ok)
                   /\ Made([c EXCEPT !.at = IF ok THEN "then" ELSE "catch"])
              \/ /\ Inner(n, "bad data") /\ UNCHANGED faults
                 /\ Made([Answered(c, "error") EXCEPT !.why = "bad data"])
  BY DEF WriteFile
<1> HIDE DEF c
<1>4. CASE Outcome(FALSE) /\ Made(Answered(c, "error")) /\ UNCHANGED <<table, objs>>
  <2>1. Mild
    BY <1>1, <1>4, Still, Faults
  <2> QED
    BY <1>1, <1>2, <1>4, <2>1, Tells, MadeMild
<1>5. ASSUME NEW n \in Fd, Opened(n, New), NEW ok \in BOOLEAN, Inner(n, "no"), Outcome(ok),
             Made([c EXCEPT !.at = IF ok THEN "then" ELSE "catch"])
      PROVE  Inv'
  <2> DEFINE d == [c EXCEPT !.at = IF ok THEN "then" ELSE "catch"]
  <2>1. /\ d \in UnderWay /\ d.op = "writeFile" /\ d.op \in Whole /\ d.obj = New /\ d.answers = <<>>
        /\ d.at \in {"then", "catch"}
    BY <1>2 DEF AnyCall, UnderWay, Places, Whole
  <2>2. Made(d) /\ faults' \in 0 .. MaxFaults
    BY <1>5, Faults
  <2> HIDE DEF d
  <2> QED
    BY <1>1, <1>5, <2>1, <2>2, OpensInner
<1>6. ASSUME NEW n \in Fd, Opened(n, New), Inner(n, "bad data"), UNCHANGED faults,
             Made([Answered(c, "error") EXCEPT !.why = "bad data"])
      PROVE  Inv'
  <2> DEFINE d == [Answered(c, "error") EXCEPT !.why = "bad data"]
  <2>1. d.at = "done" /\ d.answers = <<"error">>
    BY <1>2, Singles DEF AnyCall, Answered
  <2>2. Made(d) /\ faults' \in 0 .. MaxFaults
    BY <1>6, Faults
  <2> HIDE DEF d
  <2>3. Told(d)
    BY <2>1, Singles DEF Told
  <2> QED
    BY <1>1, <1>6, <2>1, <2>2, <2>3, OpensInner
<1> QED
  BY <1>3, <1>4, <1>5, <1>6

\* A step that only changes what one object remembers.
LEMMA MildPut ==
    ASSUME Inv, NEW o \in 1 .. Len(objs), NEW new \in Objects, Puts(o, new),
           new.kind = objs[o].kind, new.fd = objs[o].fd, new.shut = objs[o].shut,
           new.closing = objs[o].closing,
           objs[o].overlapped => new.overlapped, objs[o].leak # "no" => new.leak # "no",
           table' = table, faults' \in 0 .. MaxFaults,
           \/ strays' = strays
           \/ \E how \in Ops \union {"truncate"} :
                /\ strays' = strays \union Uses(o, how)
                /\ objs[o].kind \in Kinds /\ ~objs[o].shut
    PROVE  Mild
<1>1. Grows /\ Len(objs') = Len(objs)
  BY PutGrows
<1>2. strays' \subseteq Stray(Len(objs')) /\ StrayNeedsOverlap' /\ strays \subseteq strays'
  <2>1. CASE strays' = strays
    BY <1>1, <2>1, StraysSame
  <2>2. ASSUME NEW how \in Ops \union {"truncate"}, strays' = strays \union Uses(o, how),
               objs[o].kind \in Kinds, ~objs[o].shut
        PROVE  strays' \subseteq Stray(Len(objs')) /\ StrayNeedsOverlap' /\ strays \subseteq strays'
    <3>1. Live(o) /\ strays \subseteq strays' /\ strays' \subseteq strays \union Uses(o, how)
      BY <2>2 DEF Live
    <3> QED
      BY <1>1, <3>1, StraysKept
  <2> QED
    BY <2>1, <2>2
<1>3. \A p \in 1 .. Len(objs) : objs'[p].closing = objs[p].closing /\ objs'[p].shut = objs[p].shut
  BY DEF Puts
<1> QED
  BY <1>1, <1>2, <1>3 DEF Mild

Overlapping(o) == [objs[o] EXCEPT !.overlapped = @ \/ objs[o].closing > 0]

LEMMA Overlaps ==
    ASSUME Inv, NEW o \in 1 .. Len(objs)
    PROVE  /\ Overlapping(o) \in Objects
           /\ Overlapping(o).kind = objs[o].kind /\ Overlapping(o).fd = objs[o].fd
           /\ Overlapping(o).shut = objs[o].shut /\ Overlapping(o).closing = objs[o].closing
           /\ Overlapping(o).leak = objs[o].leak
           /\ objs[o].overlapped => Overlapping(o).overlapped
           /\ objs' = [objs EXCEPT ![o].overlapped = @ \/ objs[o].closing > 0]
                 => Puts(o, Overlapping(o))
<1>1. objs[o] \in Objects
  BY Lengths DEF Inv
<1>2. /\ Overlapping(o).kind = objs[o].kind /\ Overlapping(o).fd = objs[o].fd
      /\ Overlapping(o).shut = objs[o].shut /\ Overlapping(o).closing = objs[o].closing
      /\ Overlapping(o).leak = objs[o].leak
  BY <1>1 DEF Objects, Overlapping
<1>3. Overlapping(o) \in Objects
  BY <1>1 DEF Objects, Overlapping
<1>4. objs[o].overlapped => Overlapping(o).overlapped
  BY <1>1 DEF Objects, Overlapping
<1>5. DOMAIN objs = 1 .. Len(objs)
  BY LenProperties DEF Inv, Typed
<1>6. objs' = [objs EXCEPT ![o].overlapped = @ \/ objs[o].closing > 0] => Puts(o, Overlapping(o))
  BY <1>5 DEF Puts, Overlapping
<1> QED
  BY <1>2, <1>3, <1>4, <1>6

LEMMA CloseStep ==
    ASSUME Inv, FilesBounds, NEW o \in 1 .. Len(objs), NEW t \in Throws, Close(o, t)
    PROVE  Inv'
<1>1. made < program.calls /\ "close" \in Ops /\ objs[o].kind \in Kinds
  BY May DEF Close, Ops
<1>2. /\ o \in Kinds \union Nat /\ {"done", "timeout"} \subseteq Places
      /\ UNCHANGED <<table, faults, strays>> /\ 0 \in 0 .. Len(calls)
  BY Lengths DEF Close, Inv, Places
<1>3. ASSUME NEW a, Made(Answered(Call("close", o, "done", t), a)), UNCHANGED objs
      PROVE  Inv'
  <2>1. Mild
    BY <1>2, <1>3, Still, Faults
  <2>2. Call("close", o, "done", t) \in AnyCall /\ Call("close", o, "done", t).answers = <<>>
    BY <1>1, <1>2, NewCall
  <2>3. /\ Told(Answered(Call("close", o, "done", t), a))
        /\ Answered(Call("close", o, "done", t), a).at = "done"
    BY <2>2, Tells
  <2> QED
    BY <1>1, <1>3, <2>1, <2>3, MadeMild
<1>4. ASSUME ~AlreadyClosed(o), Made(Call("close", o, "timeout", t)), CloseBegins(o)
      PROVE  Inv'
  <2> DEFINE c == Call("close", o, "timeout", t)
  <2>1. c.op = "close" /\ c.obj = o /\ c.at = "timeout" /\ c.answers = <<>> /\ c \in UnderWay
    BY <1>1, <1>2, NewCall
  <2>2. Made(c)
    BY <1>4
  <2> HIDE DEF c
  <2>3. Becomes(0, c) /\ EndsWith(c)
    BY <1>1, <2>1, <2>2, MadeBecomes DEF Inv, Made, EndsWith
  <2>4. ~objs[o].shut
    BY <1>4 DEF AlreadyClosed
  <2>5. 0 # 0 => calls[0].op \notin Whole \union {"close"}
    OBVIOUS
  <2> QED
    BY <1>1, <1>2, <1>4, <2>1, <2>3, <2>4, <2>5, ClosesBegin
<1> QED
  BY <1>3, <1>4 DEF Close

LEMMA DirReadStep ==
    ASSUME Inv, FilesBounds, NEW o \in 1 .. Len(objs), NEW t \in Throws, DirRead(o, t)
    PROVE  Inv'
<1>1. /\ made < program.calls /\ "dir.read" \in Ops /\ objs[o].kind \in Kinds
      /\ faults' \in 0 .. MaxFaults /\ table' = table /\ strays' = strays
  BY May, Faults DEF DirRead, Ops, Kinds
<1> DEFINE new == [Overlapping(o) EXCEPT !.reading = TRUE]
<1>2. /\ new \in Objects /\ new.kind = objs[o].kind /\ new.fd = objs[o].fd
      /\ new.shut = objs[o].shut /\ new.closing = objs[o].closing /\ new.leak = objs[o].leak
      /\ objs[o].overlapped => new.overlapped
  BY Overlaps DEF Objects
<1>3. Puts(o, new)
  <2>1. DOMAIN objs = 1 .. Len(objs) /\ objs[o] \in Objects
    BY LenProperties, Lengths DEF Inv, Typed
  <2>2. objs'[o] = new
    BY <2>1 DEF DirRead, Overlapping, Objects
  <2> QED
    BY <2>1, <2>2 DEF DirRead, Puts
<1> HIDE DEF new
<1>4. Mild
  BY <1>1, <1>2, <1>3, MildPut
<1> DEFINE c == Call("dir.read", o, "timeout", t)
<1>5. c.op = "dir.read" /\ c.obj = o /\ c.at = "timeout" /\ c.answers = <<>> /\ c \in UnderWay
  <2>1. o \in Kinds \union Nat /\ "timeout" \in Places
    BY Lengths DEF Inv, Places
  <2> QED
    BY <1>1, <2>1, NewCall
<1>6. Made(c)
  BY DEF DirRead
<1> HIDE DEF c
<1>7. Fits(c, objs) /\ c.op \notin Whole \union {"close"}
  BY <1>1, <1>5 DEF Fits, Whole, HandleOps
<1> QED
  BY <1>1, <1>4, <1>5, <1>6, <1>7, MadeMild

LEMMA TransferStep ==
    ASSUME Inv, FilesBounds, NEW op, NEW o \in 1 .. Len(objs), NEW t \in Throws, Transfer(op, o, t)
    PROVE  Inv'
<1>1. /\ made < program.calls /\ op \in Ops /\ op \in Transfers /\ objs[o].kind \in Kinds
      /\ table' = table /\ o \in Kinds \union Nat /\ {"done", "then", "catch"} \subseteq Places
  BY May, Lengths DEF Transfer, Inv, Places
<1>2. ASSUME NEW at \in {"then", "catch"}
      PROVE  /\ Call(op, o, at, t) \in UnderWay /\ Fits(Call(op, o, at, t), objs)
             /\ Call(op, o, at, t).op \notin Whole \union {"close"}
             /\ Call(op, o, at, t).at # "done"
  <2> DEFINE c == Call(op, o, at, t)
  <2>1. c.op = op /\ c.obj = o /\ c.at = at /\ c.answers = <<>> /\ c \in UnderWay /\ at # "done"
    BY <1>1, <1>2, NewCall
  <2> HIDE DEF c
  <2>2. Fits(c, objs) /\ c.op \notin Whole \union {"close"}
    BY <1>1, <2>1 DEF Fits, Whole, HandleOps, Transfers
  <2> QED
    BY <2>1, <2>2 DEF c
<1>3. ASSUME faults' \in 0 .. MaxFaults, UNCHANGED <<objs, strays>>,
             Made(IF op = "read" THEN Answered(Call(op, o, "done", t), "error")
                  ELSE Call(op, o, "catch", t))
      PROVE  Inv'
  <2>1. Mild
    BY <1>1, <1>3, Still
  <2>2. CASE op = "read"
    <3>1. Call(op, o, "done", t) \in AnyCall /\ Call(op, o, "done", t).answers = <<>>
      BY <1>1, NewCall
    <3>2. /\ Told(Answered(Call(op, o, "done", t), "error"))
          /\ Answered(Call(op, o, "done", t), "error").at = "done"
      BY <3>1, Tells
    <3>3. Made(Answered(Call(op, o, "done", t), "error"))
      BY <1>3, <2>2
    <3> QED
      BY <1>1, <2>1, <3>2, <3>3, MadeMild
  <2>3. CASE op # "read"
    <3>1. Made(Call(op, o, "catch", t))
      BY <1>3, <2>3
    <3> QED
      BY <1>1, <1>2, <2>1, <3>1, MadeMild
  <2> QED
    BY <2>2, <2>3
<1>4. ASSUME IsOpen(o), strays' = strays \union Uses(o, op), NEW ok \in BOOLEAN, Outcome(ok),
             objs' = [objs EXCEPT ![o].overlapped = @ \/ objs[o].closing > 0],
             Made(Call(op, o, IF ok THEN "then" ELSE "catch", t))
      PROVE  Inv'
  <2>1. ~objs[o].shut /\ op \in Ops \union {"truncate"} /\ faults' \in 0 .. MaxFaults
    BY <1>1, <1>4, Faults DEF IsOpen
  <2>2. /\ Overlapping(o) \in Objects /\ Puts(o, Overlapping(o))
        /\ Overlapping(o).kind = objs[o].kind /\ Overlapping(o).fd = objs[o].fd
        /\ Overlapping(o).shut = objs[o].shut /\ Overlapping(o).closing = objs[o].closing
        /\ Overlapping(o).leak = objs[o].leak
        /\ objs[o].overlapped => Overlapping(o).overlapped
    BY <1>4, Overlaps
  <2>3. Mild
    BY <1>1, <1>4, <2>1, <2>2, MildPut
  <2>4. CASE ok
    BY <1>1, <1>2, <1>4, <2>3, <2>4, MadeMild
  <2>5. CASE ~ok
    BY <1>1, <1>2, <1>4, <2>3, <2>5, MadeMild
  <2> QED
    BY <2>4, <2>5
<1> QED
  <2>1. \/ /\ UNCHANGED faults \/ Outcome(FALSE)
           /\ Made(IF op = "read" THEN Answered(Call(op, o, "done", t), "error")
                   ELSE Call(op, o, "catch", t))
           /\ UNCHANGED <<objs, strays>>
        \/ /\ IsOpen(o) /\ strays' = strays \union Uses(o, op)
           /\ objs' = [objs EXCEPT ![o].overlapped = @ \/ objs[o].closing > 0]
           /\ \E ok \in BOOLEAN :
                 /\ Outcome(ok)
                 /\ Made(Call(op, o, IF ok THEN "then" ELSE "catch", t))
    BY DEF Transfer
  <2> QED
    BY <1>3, <1>4, <2>1, Faults

LEMMA HandleStep ==
    ASSUME Inv, FilesBounds, NEW op, NEW o \in 1 .. Len(objs), Handle(op, o)
    PROVE  Inv'
<1>1. /\ made < program.calls /\ op \in Ops /\ op \in HandleOps /\ objs[o].kind \in Kinds
      /\ table' = table /\ o \in Kinds \union Nat /\ "never" \in Throws
      /\ objs' = [objs EXCEPT ![o].overlapped = @ \/ objs[o].closing > 0]
  BY May, Lengths DEF Handle, Inv, Throws, Callbacks, Kinds
<1>2. /\ Overlapping(o) \in Objects /\ Puts(o, Overlapping(o))
      /\ Overlapping(o).kind = objs[o].kind /\ Overlapping(o).fd = objs[o].fd
      /\ Overlapping(o).shut = objs[o].shut /\ Overlapping(o).closing = objs[o].closing
      /\ Overlapping(o).leak = objs[o].leak
      /\ objs[o].overlapped => Overlapping(o).overlapped
  BY <1>1, Overlaps
<1>3. ASSUME NEW at \in {"timeout", "rejected", "then", "catch"}, at = "catch" => op = "handle.readFile",
             Made(Call(op, o, at, "never")), Mild
      PROVE  Inv'
  <2> DEFINE c == Call(op, o, at, "never")
  <2>1. c.op = op /\ c.obj = o /\ c.at = at /\ c.answers = <<>> /\ c \in UnderWay /\ at # "done"
    <3>1. at \in Places /\ at # "done"
      BY <1>3 DEF Places
    <3> QED
      BY <1>1, <3>1, NewCall
  <2>2. Made(c)
    BY <1>3
  <2> HIDE DEF c
  <2>3. Fits(c, objs) /\ c.op \notin Whole \union {"close"}
    BY <1>1, <2>1 DEF Fits, Whole, HandleOps
  <2> QED
    BY <1>1, <1>3, <2>1, <2>2, <2>3, MadeMild
<1>4. ASSUME UNCHANGED strays, faults' \in 0 .. MaxFaults PROVE Mild
  BY <1>1, <1>2, <1>4, MildPut
<1>5. ASSUME IsOpen(o), strays' = strays \union Uses(o, op), faults' \in 0 .. MaxFaults PROVE Mild
  <2>1. ~objs[o].shut /\ op \in Ops \union {"truncate"}
    BY <1>1, <1>5 DEF IsOpen
  <2> QED
    BY <1>1, <1>2, <1>5, <2>1, MildPut
<1>6. \/ /\ UNCHANGED <<faults, strays>>
         /\ Made(Call(op, o, "timeout", "never")) \/ Made(Call(op, o, "rejected", "never"))
      \/ /\ IsOpen(o) /\ strays' = strays \union Uses(o, op)
         /\ \E how \in {"then", "catch", "rejected"} :
               /\ Outcome(how = "then")
               /\ how = "catch" => op = "handle.readFile"
               /\ Made(Call(op, o, how, "never"))
  BY DEF Handle
<1> QED
  BY <1>3, <1>4, <1>5, <1>6, Faults

LEMMA DirCloseSyncStep ==
    ASSUME Inv, FilesBounds, NEW o \in 1 .. Len(objs), DirCloseSync(o)
    PROVE  Inv'
<1>1. /\ made < program.calls /\ objs[o].kind \in Kinds /\ ~objs[o].shut
      /\ made' = made + 1 /\ UNCHANGED <<program, calls, ends, faults>>
      /\ table' = Closed(o) /\ strays' = strays \union Uses(o, "close")
      /\ "close" \in Ops \union {"truncate"}
  BY May DEF DirCloseSync, AlreadyClosed, Kinds, Ops
<1> DEFINE c == [at |-> "done"]
<1>2. Becomes(0, c) /\ Own(0, c) /\ c.at = "done" /\ 0 \in 0 .. Len(calls)
  <2>1. /\ calls \in Seq(UnderWay) /\ Len(calls) \in Nat /\ Len(calls) <= made
        /\ made \in Nat /\ program.calls \in Nat
    BY LenProperties DEF Inv, Typed, FilesBounds, Program
  <2>2. Moved(0, c, [j \in 1 .. Len(calls) |-> j])
    BY <1>1, <2>1 DEF Moved
  <2>3. Becomes(0, c)
    BY <1>1, <2>1, <2>2 DEF Becomes
  <2> QED
    BY <2>1, <2>3 DEF Own
<1> HIDE DEF c
<1> DEFINE new == [Overlapping(o) EXCEPT !.shut = TRUE]
<1>3. /\ new \in Objects /\ new.kind = objs[o].kind /\ new.fd = objs[o].fd /\ new.shut
      /\ new.closing = objs[o].closing /\ new.leak = objs[o].leak
      /\ objs[o].overlapped => new.overlapped
  BY Overlaps DEF Objects
<1>4. objs[o].closing > 0 => new.overlapped
  <2>1. objs[o] \in Objects
    BY Lengths DEF Inv
  <2>2. objs[o].closing > 0 => Overlapping(o).overlapped
    BY <2>1 DEF Overlapping, Objects
  <2>3. new.overlapped = Overlapping(o).overlapped
    BY Overlaps DEF Objects
  <2> QED
    BY <2>2, <2>3
<1>5. Puts(o, new)
  <2>1. DOMAIN objs = 1 .. Len(objs) /\ objs[o] \in Objects
    BY LenProperties, Lengths DEF Inv, Typed
  <2>2. objs'[o] = new
    BY <2>1 DEF DirCloseSync, Overlapping, Objects
  <2> QED
    BY <2>1, <2>2 DEF DirCloseSync, Puts
<1> HIDE DEF new
<1>6. Grows /\ Len(objs') = Len(objs)
  BY <1>3, <1>5, PutGrows
<1>7. Live(o) /\ ~Live(o)'
  BY <1>1, <1>3, <1>5 DEF Live, Puts
<1>8. ASSUME NEW p \in 1 .. Len(objs), p # o PROVE Live(p)' <=> Live(p)
  BY <1>1, <1>5, <1>8 DEF Live, Puts
<1>9. Owned
  BY <1>1, <1>6, <1>7, <1>8, ClosedTable
<1>10. strays' \subseteq Stray(Len(objs')) /\ StrayNeedsOverlap'
  BY <1>1, <1>6, <1>7, StraysKept
<1>11. Counting(0, c)
  <2> SUFFICES ASSUME NEW p \in 1 .. Len(objs)
               PROVE  /\ objs'[p].closing = objs[p].closing + Delta(0, c, p)
                      /\ objs'[p].closing > 1 \/ (objs'[p].shut /\ objs'[p].closing > 0)
                            => objs'[p].overlapped
    BY <1>6 DEF Counting
  <2>1. Delta(0, c, p) = 0
    <3>1. 0 \notin Closes(calls, p)
      BY Lengths DEF Closes, Inv
    <3> QED
      BY <1>2, <3>1, DeltaNone
  <2>2. /\ objs[p].closing \in Int
        /\ objs[p].closing > 1 \/ (objs[p].shut /\ objs[p].closing > 0) => objs[p].overlapped
    BY Lengths DEF Objects, Inv, Counted
  <2>3. CASE p = o
    <3>1. objs'[p] = new
      BY <1>5, <2>3 DEF Puts
    <3> QED
      BY <1>3, <1>4, <2>1, <2>2, <2>3, <3>1
  <2>4. CASE p # o
    BY <1>5, <2>1, <2>2, <2>4 DEF Puts
  <2> QED
    BY <2>3, <2>4
<1>12. AnsweredOnce' /\ faults' \in 0 .. MaxFaults
  BY <1>1 DEF Inv, AnsweredOnce, Typed, Angry
<1> QED
  BY <1>2, <1>6, <1>9, <1>10, <1>11, <1>12, Together

-----------------------------------------------------------------------------
(* The turns.                                                               *)

LEMMA OpenTurnStep ==
    ASSUME Inv, FilesBounds, NEW i \in 1 .. Len(calls), OpenTurn(i)
    PROVE  Inv'
<1>1. /\ calls[i].op = "open" /\ calls[i].at = "timeout" /\ calls[i] \in AnyCall
      /\ calls[i].answers = <<>> /\ calls[i].obj \in Kinds /\ strays' = strays
  BY TheCall DEF OpenTurn, TimeoutOf, Fits
<1>2. \A ok \in BOOLEAN : Told(Settled(calls[i], ok)) /\ Settled(calls[i], ok).at = "done"
  BY <1>1, Settles
<1>3. ASSUME NEW n \in Fd, Opened(n, New), objs' = Append(objs, Object(calls[i].obj, n)),
             Set(i, Settled(calls[i], TRUE)), UNCHANGED faults
      PROVE  Inv'
  <2>1. PICK kind : kind = calls[i].obj
    OBVIOUS
  <2>2. PICK o : o = New
    OBVIOUS
  <2>3. PICK c : c = Settled(calls[i], TRUE)
    OBVIOUS
  <2>4. Set(i, c) /\ c.at = "done" /\ Told(c)
    BY <1>2, <1>3, <2>3
  <2>5. Becomes(i, c) /\ EndsWith(c)
    BY <2>4, SetBecomes DEF Inv, Set, EndsWith
  <2> DEFINE ob == Object(kind, n)
  <2>6. /\ ob \in Objects /\ ob.kind = kind /\ ob.fd = n /\ ob.closing = 0 /\ ~ob.shut
    BY <1>1, <2>1, AnObject
  <2>7. objs' = Append(objs, ob) /\ Opened(n, o)
    BY <1>3, <2>1, <2>2
  <2> HIDE DEF ob
  <2>8. faults' \in 0 .. MaxFaults
    BY <1>3, Faults
  <2>9. i \in 0 .. Len(calls) /\ (i # 0 => calls[i].op \notin Whole \union {"close"})
    BY <1>1, Lengths DEF Inv, Whole
  <2>10. ob.kind \in Kinds
    BY <1>1, <2>1, <2>6
  <2> QED
    BY <1>1, <2>2, <2>4, <2>5, <2>6, <2>7, <2>8, <2>9, <2>10, Opens
<1>4. ASSUME faults' \in 0 .. MaxFaults, Set(i, Settled(calls[i], FALSE)), UNCHANGED <<table, objs>>
      PROVE  Inv'
  <2>1. Mild
    BY <1>1, <1>4, Still
  <2>2. PICK c : c = Settled(calls[i], FALSE)
    OBVIOUS
  <2>3. Set(i, c) /\ c.at = "done" /\ Told(c)
    BY <1>2, <1>4, <2>2
  <2>4. calls[i].op # "close" /\ calls[i].op \notin Whole
    BY <1>1 DEF Whole
  <2> QED
    BY <2>1, <2>3, <2>4, SetMild
<1> QED
  BY <1>3, <1>4, Faults DEF OpenTurn

\* Whether the object learns that it is closed, whatever the close did.
Anyway(i) == objs[calls[i].obj].kind = "dir" /\ calls[i].throws # "promise"
AfterClose(o, ok, any) ==
    [objs[o] EXCEPT !.closing = @ - 1,
                    !.shut = @ \/ ok \/ any,
                    !.leak = IF ok \/ ~(table[objs[o].fd] # 0) THEN @ ELSE "close failed"]

LEMMA ClosesAre ==
    ASSUME Inv, NEW o \in 1 .. Len(objs), NEW ok \in BOOLEAN, NEW any \in BOOLEAN
    PROVE  /\ AfterClose(o, ok, any) \in Objects
           /\ AfterClose(o, ok, any).kind = objs[o].kind /\ AfterClose(o, ok, any).fd = objs[o].fd
           /\ AfterClose(o, ok, any).closing = objs[o].closing - 1
           /\ AfterClose(o, ok, any).overlapped = objs[o].overlapped
           /\ AfterClose(o, ok, any).shut = (objs[o].shut \/ ok \/ any)
           /\ objs[o].leak # "no" => AfterClose(o, ok, any).leak # "no"
           /\ ~ok /\ table[objs[o].fd] # 0 => AfterClose(o, ok, any).leak # "no"
<1>1. objs[o] \in Objects /\ "close failed" \in Leaks
  BY Lengths DEF Inv, Leaks
<1>2. objs[o].closing - 1 \in Int
  <2>1. objs[o].closing \in Int
    BY <1>1 DEF Objects
  <2> QED
    BY <2>1
<1>3. PICK l : l = IF ok \/ ~(table[objs[o].fd] # 0) THEN objs[o].leak ELSE "close failed"
  OBVIOUS
<1>4. l \in Leaks /\ (objs[o].leak # "no" => l # "no") /\ (~ok /\ table[objs[o].fd] # 0 => l # "no")
  BY <1>1, <1>3 DEF Objects
<1>5. AfterClose(o, ok, any) = [objs[o] EXCEPT !.closing = @ - 1, !.shut = @ \/ ok \/ any,
                                               !.leak = l]
  BY <1>1, <1>3 DEF AfterClose
<1> QED
  BY <1>1, <1>2, <1>4, <1>5 DEF Objects

LEMMA CloseTurnStep ==
    ASSUME Inv, FilesBounds, NEW i \in 1 .. Len(calls), CloseTurn(i)
    PROVE  Inv'
<1>1. PICK o : o = calls[i].obj
  OBVIOUS
<1> PICK any \in BOOLEAN : any = Anyway(i)
  BY DEF Anyway
<1>2. /\ calls[i].op = "close" /\ calls[i].at = "timeout" /\ calls[i] \in AnyCall
      /\ calls[i].answers = <<>> /\ o \in 1 .. Len(objs) /\ objs[o].kind \in Kinds
  BY <1>1, TheCall DEF CloseTurn, TimeoutOf, Fits, HandleOps
<1>3. PICK ok \in BOOLEAN :
        /\ ok => table[objs[o].fd] # 0
        /\ Outcome(ok) \/ UNCHANGED faults
        /\ table' = IF ok THEN Closed(o) ELSE table
        /\ strays' = strays \union (IF ok THEN Uses(o, "close") ELSE {})
        /\ objs' = [objs EXCEPT ![o].closing = @ - 1,
                                ![o].shut = @ \/ ok \/ any,
                                ![o].leak = IF ok \/ ~(table[objs[o].fd] # 0) THEN @ ELSE "close failed"]
        /\ Set(i, Settled(calls[i], ok))
  BY <1>1 DEF CloseTurn, Anyway
<1>4. PICK c : c = Settled(calls[i], ok)
  OBVIOUS
<1>5. Set(i, c) /\ c.at = "done" /\ Told(c)
  BY <1>2, <1>3, <1>4, Settles
<1>6. Becomes(i, c) /\ EndsWith(c)
  BY <1>5, SetBecomes DEF Inv, Set, EndsWith
<1>7. i \in 0 .. Len(calls) /\ Own(i, c) /\ i \in Closes(calls, o)
  BY <1>1, <1>2, <1>5, Lengths DEF Inv, Own, Closes
<1>8. objs[o] \in Objects /\ DOMAIN objs = 1 .. Len(objs)
  BY <1>2, Lengths, LenProperties DEF Inv, Typed
<1>9. PICK new : new = AfterClose(o, ok, any)
  OBVIOUS
<1>10. /\ new.kind = objs[o].kind /\ new.fd = objs[o].fd /\ new.closing = objs[o].closing - 1
       /\ new.overlapped = objs[o].overlapped /\ new \in Objects
  BY <1>2, <1>3, <1>9, ClosesAre
<1>11. /\ objs[o].shut => new.shut
       /\ ok => new.shut
  BY <1>2, <1>3, <1>9, ClosesAre
<1>12. /\ objs[o].leak # "no" => new.leak # "no"
       /\ ~ok /\ table[objs[o].fd] # 0 => new.leak # "no"
  BY <1>2, <1>3, <1>9, ClosesAre
<1>13. Puts(o, new)
  <2>1. objs'[o] = new
    <3>1. objs'[o] = [objs[o] EXCEPT !.closing = objs[o].closing - 1,
                                     !.shut = objs[o].shut \/ ok \/ any,
                                     !.leak = IF ok \/ ~(table[objs[o].fd] # 0) THEN objs[o].leak
                                              ELSE "close failed"]
      BY <1>2, <1>3, <1>8, Zenon
    <3> QED
      BY <1>9, <3>1, Zenon DEF AfterClose
  <2>2. DOMAIN objs' = 1 .. Len(objs) /\ \A p \in 1 .. Len(objs) : p # o => objs'[p] = objs[p]
    BY <1>3, <1>8
  <2> QED
    BY <1>3, <1>8, <2>1, <2>2 DEF Puts
<1>14. Grows /\ Len(objs') = Len(objs)
  BY <1>2, <1>10, <1>11, <1>12, <1>13, PutGrows
<1>15. /\ objs[o].closing \in Int /\ objs[o].closing > 0
       /\ objs[o].shut => objs[o].overlapped
       /\ objs[o].closing > 1 => objs[o].overlapped
  <2>1. objs[o].closing > 0
    <3>1. Cardinality(Closes(calls, o)) > 0
      BY <1>6, <1>7, Counts DEF Inv
    <3> QED
      BY <1>2, <3>1 DEF Inv, Counted
  <2>2. objs[o].closing > 1 \/ (objs[o].shut /\ objs[o].closing > 0) => objs[o].overlapped
    BY <1>2 DEF Inv, Counted
  <2> QED
    BY <1>8, <2>1, <2>2 DEF Objects
<1>16. objs'[o] = new /\ \A p \in 1 .. Len(objs) : p # o => objs'[p] = objs[p]
  BY <1>13 DEF Puts
<1>17. Counting(i, c)
  <2> SUFFICES ASSUME NEW p \in 1 .. Len(objs)
               PROVE  /\ objs'[p].closing = objs[p].closing + Delta(i, c, p)
                      /\ objs'[p].closing > 1 \/ (objs'[p].shut /\ objs'[p].closing > 0)
                            => objs'[p].overlapped
    BY <1>14 DEF Counting
  <2>1. CASE p = o
    <3>1. ~(c.at # "done" /\ c.op = "close" /\ c.obj = p)
      BY <1>5
    <3>2. Delta(i, c, p) = 0 - 1
      BY <1>7, <2>1, <3>1 DEF Delta
    <3> QED
      BY <1>10, <1>15, <1>16, <2>1, <3>2
  <2>2. CASE p # o
    <3>1. i \notin Closes(calls, p)
      BY <1>1, <2>2 DEF Closes
    <3>2. Delta(i, c, p) = 0
      BY <1>5, <3>1, DeltaNone
    <3>3. objs[p].closing \in Int
      BY Lengths DEF Inv, Objects
    <3> QED
      BY <1>16, <2>2, <3>2, <3>3 DEF Inv, Counted
  <2> QED
    BY <2>1, <2>2
<1>18. /\ strays \subseteq strays' /\ strays' \subseteq Stray(Len(objs')) /\ StrayNeedsOverlap'
  <2>1. Live(o) \/ objs'[o].overlapped
    BY <1>2, <1>10, <1>15, <1>16 DEF Live
  <2>2. strays \subseteq strays' /\ strays' \subseteq strays \union Uses(o, "close")
    BY <1>3
  <2>3. "close" \in Ops \union {"truncate"}
    BY DEF Ops
  <2> QED
    BY <1>2, <1>14, <2>1, <2>2, <2>3, StraysKept
<1>19. ASSUME NEW p \in 1 .. Len(objs), p # o PROVE Live(p)' <=> Live(p)
  <2>1. /\ Live(p)' => Live(p)
        /\ Live(p) => \/ Live(p)'
                      \/ objs[p].kind \in Kinds /\ objs'[p].shut
                      \/ /\ objs[p].kind \notin Kinds
                         /\ i # 0 /\ calls[i].op \in Whole /\ calls[i].obj = p
                         /\ ~(c.at # "done" /\ c.op \in Whole /\ c.obj = p)
    BY <1>6, <1>7, <1>14, Lives
  <2> QED
    BY <1>1, <1>16, <1>19, <2>1 DEF Live
<1>20. Live(o)' => Live(o)
  BY <1>6, <1>7, <1>14, <1>2, Lives
<1>21. CASE ok
  <2>1. ~Live(o)'
    BY <1>2, <1>10, <1>11, <1>16, <1>21 DEF Live
  <2>2. table' = Closed(o) /\ strays' = strays \union Uses(o, "close")
    BY <1>3, <1>21
  <2> QED
    <3>1. Owned
      BY <1>2, <1>14, <1>19, <2>1, <2>2, ClosedTable
    <3> QED
      BY <1>3, <1>5, <1>6, <1>7, <1>14, <1>17, <1>18, <3>1, Faults, ToldKept, Together
<1>22. CASE ~ok
  <2>1. table' = table
    BY <1>3, <1>22
  <2>2. Live(o) /\ table[objs[o].fd] = o => Live(o)' \/ objs'[o].leak # "no"
    BY <1>2, <1>12, <1>16, <1>22
  <2>3. \A p \in 1 .. Len(objs) : Live(p)' => Live(p)
    BY <1>19, <1>20
  <2>4. \A p \in 1 .. Len(objs) : Live(p) /\ table[objs[p].fd] = p => Live(p)' \/ objs'[p].leak # "no"
    BY <1>19, <2>2
  <2>5. Owned
    BY <1>14, <1>18, <2>1, <2>3, <2>4, SameTable
  <2> QED
    BY <1>3, <1>5, <1>6, <1>7, <1>14, <1>17, <1>18, <2>5, Faults, ToldKept, Together
<1> QED
  BY <1>21, <1>22

LEMMA DirReadTurnStep ==
    ASSUME Inv, FilesBounds, NEW i \in 1 .. Len(calls), DirReadTurn(i)
    PROVE  Inv'
<1>1. PICK o : o = calls[i].obj
  OBVIOUS
<1>2. /\ calls[i].op = "dir.read" /\ calls[i] \in AnyCall /\ calls[i].answers = <<>>
      /\ o \in 1 .. Len(objs) /\ objs[o].kind \in Kinds /\ table' = table
  BY <1>1, TheCall DEF DirReadTurn, TimeoutOf, Fits, HandleOps
<1>3. objs[o] \in Objects /\ DOMAIN objs = 1 .. Len(objs)
  BY <1>2, Lengths, LenProperties DEF Inv, Typed
<1>4. calls[i].op # "close" /\ calls[i].op \notin Whole
  BY <1>2 DEF Whole
<1>5. ASSUME faults' \in 0 .. MaxFaults, strays' = strays, Set(i, Settled(calls[i], FALSE)),
             objs' = [objs EXCEPT ![o].reading = FALSE]
      PROVE  Inv'
  <2>1. PICK new : new = [objs[o] EXCEPT !.reading = FALSE]
    OBVIOUS
  <2>2. /\ new \in Objects /\ new.kind = objs[o].kind /\ new.fd = objs[o].fd
        /\ new.shut = objs[o].shut /\ new.closing = objs[o].closing
        /\ new.overlapped = objs[o].overlapped /\ new.leak = objs[o].leak
    BY <1>3, <2>1 DEF Objects
  <2>3. Puts(o, new)
    BY <1>2, <1>3, <1>5, <2>1 DEF Puts
  <2>4. Mild
    BY <1>2, <1>5, <2>2, <2>3, MildPut
  <2>5. PICK c : c = Settled(calls[i], FALSE)
    OBVIOUS
  <2>6. Set(i, c) /\ c.at = "done" /\ Told(c)
    BY <1>2, <1>5, <2>5, Settles
  <2> QED
    BY <1>4, <2>4, <2>6, SetMild
<1>6. ASSUME ~AlreadyClosed(o), NEW used \in BOOLEAN, UNCHANGED faults,
             strays' = strays \union (IF used THEN Uses(o, "read") ELSE {}),
             NEW c, Set(i, c), c.at = "done", Told(c),
             objs' = [objs EXCEPT ![o].reading = FALSE, ![o].fin = TRUE,
                                  ![o].left = IF @ > 0 THEN @ - 1 ELSE 0]
      PROVE  Inv'
  <2>1. PICK k : k = IF objs[o].left > 0 THEN objs[o].left - 1 ELSE 0
    OBVIOUS
  <2>2. k \in Int
    <3>1. objs[o].left \in Int
      BY <1>3 DEF Objects
    <3> QED
      BY <2>1, <3>1
  <2>3. PICK new : new = [objs[o] EXCEPT !.reading = FALSE, !.fin = TRUE, !.left = k]
    OBVIOUS
  <2>4. /\ new \in Objects /\ new.kind = objs[o].kind /\ new.fd = objs[o].fd
        /\ new.shut = objs[o].shut /\ new.closing = objs[o].closing
        /\ new.overlapped = objs[o].overlapped /\ new.leak = objs[o].leak
    BY <1>3, <2>2, <2>3 DEF Objects
  <2>5. Puts(o, new)
    <3>1. objs'[o] = [objs[o] EXCEPT !.reading = FALSE, !.fin = TRUE,
                                     !.left = IF objs[o].left > 0 THEN objs[o].left - 1 ELSE 0]
      BY <1>2, <1>3, <1>6, Zenon
    <3>2. objs'[o] = new
      BY <2>1, <2>3, <3>1
    <3>3. DOMAIN objs' = 1 .. Len(objs) /\ \A p \in 1 .. Len(objs) : p # o => objs'[p] = objs[p]
      BY <1>3, <1>6
    <3>4. objs' = [p \in DOMAIN objs' |-> objs'[p]]
      BY <1>6
    <3> QED
      BY <3>2, <3>3, <3>4 DEF Puts
  <2>6. ~objs[o].shut /\ "read" \in Ops \union {"truncate"} /\ faults' \in 0 .. MaxFaults
    BY <1>6, Faults DEF AlreadyClosed, Ops, Transfers
  <2>7. Mild
    <3>1. CASE used
      <4>1. strays' = strays \union Uses(o, "read")
        BY <1>6, <3>1
      <4> QED
        BY <1>2, <2>4, <2>5, <2>6, <4>1, MildPut
    <3>2. CASE ~used
      <4>1. strays' = strays
        BY <1>6, <3>2
      <4> QED
        BY <1>2, <2>4, <2>5, <2>6, <4>1, MildPut
    <3> QED
      BY <3>1, <3>2
  <2> QED
    BY <1>4, <1>6, <2>7, SetMild
<1>7. ASSUME NEW c, c = EndOfDirectory(calls[i])
      PROVE  c.at = "done" /\ Told(c)
  <2>1. CASE calls[i].throws = "promise"
    BY <1>2, <1>7, <2>1, Tells DEF EndOfDirectory
  <2>2. CASE calls[i].throws # "promise"
    BY <1>2, <1>7, <2>2 DEF EndOfDirectory, Answered, Told, AnyCall
  <2> QED
    BY <2>1, <2>2
<1>8. ASSUME NEW c, c = Settled(calls[i], TRUE)
      PROVE  c.at = "done" /\ Told(c)
  BY <1>2, <1>8, Settles
<1>9. \/ /\ \/ AlreadyClosed(o) /\ UNCHANGED faults
            \/ /\ ~AlreadyClosed(o) /\ ~objs[o].fin
               /\ IF IsOpen(o) THEN Outcome(FALSE) ELSE UNCHANGED faults
         /\ Set(i, Settled(calls[i], FALSE))
         /\ objs' = [objs EXCEPT ![o].reading = FALSE]
         /\ UNCHANGED strays
      \/ /\ ~AlreadyClosed(o)
         /\ strays' = strays \union (IF ~objs[o].fin THEN Uses(o, "read") ELSE {})
         /\ IF objs[o].left > 0 THEN Set(i, Settled(calls[i], TRUE))
            ELSE Set(i, EndOfDirectory(calls[i]))
         /\ objs' = [objs EXCEPT ![o].reading = FALSE, ![o].fin = TRUE,
                                 ![o].left = IF @ > 0 THEN @ - 1 ELSE 0]
         /\ UNCHANGED faults
  BY <1>1 DEF DirReadTurn
<1>10. CASE /\ \/ AlreadyClosed(o) /\ UNCHANGED faults
               \/ /\ ~AlreadyClosed(o) /\ ~objs[o].fin
                  /\ IF IsOpen(o) THEN Outcome(FALSE) ELSE UNCHANGED faults
            /\ Set(i, Settled(calls[i], FALSE))
            /\ objs' = [objs EXCEPT ![o].reading = FALSE]
            /\ UNCHANGED strays
  <2>1. UNCHANGED faults \/ Outcome(FALSE)
    BY <1>10
  <2> QED
    BY <1>5, <1>10, <2>1, Faults
<1>11. CASE /\ ~AlreadyClosed(o)
            /\ strays' = strays \union (IF ~objs[o].fin THEN Uses(o, "read") ELSE {})
            /\ IF objs[o].left > 0 THEN Set(i, Settled(calls[i], TRUE))
               ELSE Set(i, EndOfDirectory(calls[i]))
            /\ objs' = [objs EXCEPT ![o].reading = FALSE, ![o].fin = TRUE,
                                    ![o].left = IF @ > 0 THEN @ - 1 ELSE 0]
            /\ UNCHANGED faults
  <2>1. PICK used \in BOOLEAN : used = ~objs[o].fin
    BY <1>3 DEF Objects
  <2>2. strays' = strays \union (IF used THEN Uses(o, "read") ELSE {})
    BY <1>11, <2>1
  <2>3. PICK c : /\ c = Settled(calls[i], TRUE) \/ c = EndOfDirectory(calls[i])
                 /\ Set(i, c)
    BY <1>11
  <2>4. c.at = "done" /\ Told(c)
    BY <1>7, <1>8, <2>3
  <2> QED
    BY <1>6, <1>11, <2>2, <2>3, <2>4
<1> QED
  BY <1>9, <1>10, <1>11

LEMMA ReadDirTurnStep ==
    ASSUME Inv, FilesBounds, NEW i \in 1 .. Len(calls), ReadDirTurn(i)
    PROVE  Inv'
<1>1. /\ calls[i].op = "readdir" /\ calls[i] \in AnyCall /\ calls[i].answers = <<>>
      /\ strays' = strays
  BY TheCall DEF ReadDirTurn, TimeoutOf
<1>2. calls[i].op \notin Whole \union {"close"}
  BY <1>1 DEF Whole
<1>3. ASSUME NEW ok \in BOOLEAN, Set(i, Settled(calls[i], ok)), UNCHANGED <<table, objs>>,
             Outcome(FALSE) \/ UNCHANGED faults
      PROVE  Inv'
  <2>1. PICK c : c = Settled(calls[i], ok)
    OBVIOUS
  <2>2. Set(i, c) /\ c.at = "done" /\ Told(c)
    BY <1>1, <1>3, <2>1, Settles
  <2>3. Mild
    BY <1>1, <1>3, Faults, Still
  <2> QED
    BY <1>2, <2>2, <2>3, SetMild
<1>4. ASSUME NEW n \in Fd, Opened(n, New), Inner(n, "close failed"), Outcome(FALSE),
             Set(i, Settled(calls[i], FALSE))
      PROVE  Inv'
  <2>1. PICK c : c = Settled(calls[i], FALSE)
    OBVIOUS
  <2>2. Set(i, c) /\ c.at = "done" /\ Told(c)
    BY <1>1, <1>4, <2>1, Settles
  <2>3. Becomes(i, c) /\ EndsWith(c)
    BY <2>2, SetBecomes DEF Inv, Set, EndsWith
  <2>4. PICK ob : ob = InnerOpen(n, "close failed")
    OBVIOUS
  <2>5. "close failed" \in Leaks
    BY DEF Leaks
  <2>6. /\ ob \in Objects /\ ob.fd = n /\ ob.closing = 0 /\ ob.leak # "no"
        /\ objs' = Append(objs, ob)
    BY <1>4, <2>4, <2>5, InnerObject
  <2>7. PICK o : o = New
    OBVIOUS
  <2>8. Opened(n, o) /\ faults' \in 0 .. MaxFaults
    BY <1>4, <2>7, Faults
  <2>9. i \in 0 .. Len(calls)
    BY Lengths DEF Inv
  <2> QED
    BY <1>1, <1>2, <2>2, <2>3, <2>6, <2>7, <2>8, <2>9, Opens
<1> QED
  BY <1>1, <1>3, <1>4 DEF ReadDirTurn

\* A file that will not be closed any more, for the reason given.
LEMMA LeftBehind ==
    ASSUME Inv, NEW o \in 1 .. Len(objs), NEW l \in Leaks, l # "no" \/ l = objs[o].leak,
           objs' = [objs EXCEPT ![o].leak = l], faults' \in 0 .. MaxFaults,
           UNCHANGED <<table, strays>>
    PROVE  Mild /\ objs'[o].leak = l
<1>1. objs[o] \in Objects /\ DOMAIN objs = 1 .. Len(objs)
  BY Lengths, LenProperties DEF Inv, Typed
<1>2. PICK new : new = [objs[o] EXCEPT !.leak = l]
  OBVIOUS
<1>3. /\ new \in Objects /\ new.kind = objs[o].kind /\ new.fd = objs[o].fd
      /\ new.shut = objs[o].shut /\ new.closing = objs[o].closing
      /\ new.overlapped = objs[o].overlapped /\ new.leak = l
  BY <1>1, <1>2 DEF Objects
<1>4. Puts(o, new)
  BY <1>1, <1>2 DEF Puts
<1>5. objs'[o].leak = l
  BY <1>3, <1>4 DEF Puts
<1> QED
  BY <1>3, <1>4, <1>5, MildPut

LEMMA ReadFileThenStep ==
    ASSUME Inv, FilesBounds, NEW i \in 1 .. Len(calls), ReadFileThen(i)
    PROVE  Inv'
<1>1. PICK o : o = calls[i].obj
  OBVIOUS
<1>2. /\ calls[i].op = "readFile" /\ calls[i] \in AnyCall /\ calls[i].answers = <<>>
      /\ o \in 1 .. Len(objs)
  BY <1>1, TheCall DEF ReadFileThen, Fits
<1>3. calls[i].op # "close" /\ calls[i].op \in Whole
  BY <1>2 DEF Whole
<1>4. ASSUME table' = Closed(o), strays' = strays \union Uses(o, "close"),
             Set(i, Answered(calls[i], "ok")), UNCHANGED <<objs, faults>>
      PROVE  Inv'
  <2>1. PICK c : c = Answered(calls[i], "ok")
    OBVIOUS
  <2>2. Set(i, c) /\ c.at = "done" /\ Told(c)
    BY <1>2, <1>4, <2>1, Tells
  <2> QED
    BY <1>1, <1>3, <1>4, <2>2, Releases
<1>5. ASSUME faults' \in 0 .. MaxFaults, objs' = [objs EXCEPT ![o].leak = "close failed"],
             Set(i, [calls[i] EXCEPT !.at = "done", !.why = "close failed"]),
             UNCHANGED <<table, strays>>
      PROVE  Inv'
  <2>1. Mild /\ objs'[o].leak = "close failed"
    BY <1>2, <1>5, LeftBehind DEF Leaks
  <2>2. PICK c : c = [calls[i] EXCEPT !.at = "done", !.why = "close failed"]
    OBVIOUS
  <2>3. c.at = "done" /\ c.why = "close failed"
    BY <1>2, <2>2 DEF AnyCall
  <2>4. Set(i, c) /\ Told(c)
    BY <1>5, <2>2, <2>3 DEF Told
  <2> QED
    BY <1>1, <1>3, <2>1, <2>3, <2>4, SetMild
<1> QED
  BY <1>1, <1>4, <1>5, Faults DEF ReadFileThen

LEMMA ReadCatchStep ==
    ASSUME Inv, FilesBounds, NEW i \in 1 .. Len(calls), ReadCatch(i)
    PROVE  Inv'
<1>1. /\ calls[i].op \in {"readFile", "read", "handle.readFile"} /\ calls[i].at = "catch"
      /\ calls[i] \in AnyCall /\ Fits(calls[i], objs) /\ faults' = faults
      /\ UNCHANGED <<table, objs, strays>>
  BY TheCall DEF ReadCatch
<1>2. PICK c : c = [calls[i] EXCEPT !.at = "done", !.why = "read failed"]
  OBVIOUS
<1>3. c.at = "done" /\ c.why = "read failed"
  BY <1>1, <1>2 DEF AnyCall
<1>4. Set(i, c) /\ Told(c)
  BY <1>2, <1>3 DEF Told, ReadCatch
<1>5. Mild
  BY <1>1, Faults, Still
<1>6. /\ calls[i].op # "close"
      /\ calls[i].op \in Whole => objs'[calls[i].obj].leak # "no"
  BY <1>1 DEF Whole, Fits
<1> QED
  BY <1>3, <1>4, <1>5, <1>6, SetMild

LEMMA WriteFileTurnStep ==
    ASSUME Inv, FilesBounds, NEW i \in 1 .. Len(calls), WriteFileTurn(i)
    PROVE  Inv'
<1>1. PICK c, o, answer, next, said :
         /\ c = calls[i] /\ o = c.obj
         /\ answer = IF c.at = "then" THEN "ok" ELSE "error"
         /\ next = IF c.at = "then" THEN "catch" ELSE "done"
         /\ said = [c EXCEPT !.answers = Append(@, answer)]
  OBVIOUS
<1>2. /\ c.op = "writeFile" /\ c.at \in {"then", "catch"} /\ c \in AnyCall /\ c \in UnderWay
      /\ Fits(c, objs) /\ o \in 1 .. Len(objs)
      /\ c.at = "then" => c.answers = <<>>
  BY <1>1, TheCall DEF WriteFileTurn, Fits
<1>3. calls[i].op # "close" /\ calls[i].op \in Whole /\ objs[o] \in Objects
  BY <1>1, <1>2, Lengths DEF Whole, Inv
<1>4. /\ said.op = c.op /\ said.obj = c.obj /\ said.at = c.at /\ said.throws = c.throws
      /\ said.why = c.why /\ said.answers = Append(c.answers, answer)
      /\ said = [op |-> c.op, obj |-> c.obj, at |-> c.at, throws |-> c.throws,
                 answers |-> Append(c.answers, answer), why |-> c.why]
  BY <1>1, <1>2 DEF AnyCall
\* What has been said, and why it is what AnsweredOnce allows.
<1>5. \/ Len(said.answers) = 1
      \/ Len(said.answers) = 2 /\ said.answers[1] = "ok" /\ (Angry(c, "ok") \/ c.why = "close failed")
  <2>1. c.answers \in {<<>>, <<"ok">>}
    BY <1>2 DEF AnyCall
  <2>2. CASE c.answers = <<>>
    BY <1>4, <2>2, Singles
  <2>3. CASE c.answers = <<"ok">>
    <3>1. c.answers # <<>>
      BY <2>3
    <3>2. Angry(c, "ok") \/ c.why = "close failed"
      BY <1>2, <3>1 DEF Fits
    <3>3. said.answers = Append(<<"ok">>, answer)
      BY <1>4, <2>3
    <3>4. Len(said.answers) = 2 /\ said.answers[1] = "ok"
      BY <3>3, Singles
    <3> QED
      BY <3>2, <3>4
  <2> QED
    BY <2>1, <2>2, <2>3
<1>6. ASSUME NEW d, d.answers = said.answers, d.throws = c.throws,
             d.why = c.why \/ d.why = "close failed"
      PROVE  Told(d)
  BY <1>5, <1>6 DEF Told, Angry
\* The call goes on to its catch, or is over.
<1>7. ASSUME NEW w \in {c.why, "close failed"}, NEW d, Set(i, d),
             d = [op |-> c.op, obj |-> c.obj, at |-> next, throws |-> c.throws,
                  answers |-> said.answers, why |-> w],
             w # "close failed" => Angry(c, answer),
             Mild, next = "done" => objs'[o].leak # "no"
      PROVE  Inv'
  <2>1. CASE next = "done"
    <3>1. d.at = "done" /\ Told(d)
      BY <1>6, <1>7, <2>1
    <3> QED
      BY <1>1, <1>3, <1>7, <2>1, <3>1, SetMild
  <2>2. CASE next # "done"
    <3>1. c.at = "then" /\ next = "catch" /\ answer = "ok"
      BY <1>1, <1>2, <2>2
    <3>2. said.answers = <<"ok">>
      BY <1>2, <1>4, <3>1, Singles
    <3>3. w \in Whys /\ c.obj \in Kinds \union Nat /\ c.throws \in Throws
      BY <1>2, <1>7 DEF AnyCall, Whys
    <3>4. d = [op |-> "writeFile", obj |-> c.obj, at |-> "catch", throws |-> c.throws,
               answers |-> <<"ok">>, why |-> w]
      BY <1>2, <1>7, <3>1, <3>2
    <3>5. /\ d.op = "writeFile" /\ d.obj = c.obj /\ d.at = "catch" /\ d.throws = c.throws
          /\ d.answers = <<"ok">> /\ d.why = w
      BY <3>4
    <3>6. d \in UnderWay
      <4>1. "writeFile" \in Ops /\ "catch" \in Places \ {"done"}
        BY DEF Ops, Places
      <4> QED
        BY <3>3, <3>4, <4>1 DEF UnderWay
    <3>7. Fits(d, objs)
      <4>1. Angry(d, "ok") \/ d.why = "close failed"
        BY <1>7, <3>1, <3>5 DEF Angry
      <4> QED
        BY <1>2, <3>5, <4>1 DEF Fits, Whole, HandleOps
    <3>8. Fits(d, objs')
      BY <1>7, <3>7, StillFits DEF Inv, Mild
    <3> QED
      BY <1>1, <1>2, <1>3, <1>7, <3>5, <3>6, <3>8, SetMild
  <2> QED
    BY <2>1, <2>2
<1>8. ASSUME Angry(c, answer), Set(i, [said EXCEPT !.at = next]),
             objs' = [objs EXCEPT ![o].leak = IF next = "done" THEN "threw" ELSE @],
             UNCHANGED <<table, faults, strays>>
      PROVE  Inv'
  <2>1. PICK l : l = IF next = "done" THEN "threw" ELSE objs[o].leak
    OBVIOUS
  <2>2. l \in Leaks /\ (l # "no" \/ l = objs[o].leak) /\ faults' \in 0 .. MaxFaults
    BY <1>3, <1>8, <2>1, Faults DEF Leaks, Objects
  <2>3. objs' = [objs EXCEPT ![o].leak = l]
    BY <1>8, <2>1
  <2>4. Mild /\ objs'[o].leak = l
    BY <1>2, <1>8, <2>2, <2>3, LeftBehind
  <2>5. PICK d : d = [said EXCEPT !.at = next]
    OBVIOUS
  <2>6. d = [op |-> c.op, obj |-> c.obj, at |-> next, throws |-> c.throws,
             answers |-> said.answers, why |-> c.why]
    BY <1>4, <2>5
  <2>7. c.why \in {c.why, "close failed"} /\ (next = "done" => objs'[o].leak # "no")
    BY <2>1, <2>4
  <2> QED
    BY <1>7, <1>8, <2>4, <2>5, <2>6, <2>7
<1>9. ASSUME table' = Closed(o), strays' = strays \union Uses(o, "close"),
             Set(i, [said EXCEPT !.at = "done"]), UNCHANGED <<objs, faults>>
      PROVE  Inv'
  <2>1. PICK d : d = [said EXCEPT !.at = "done"]
    OBVIOUS
  <2>2. d.answers = said.answers /\ d.throws = c.throws /\ d.why = c.why /\ d.at = "done"
    BY <1>4, <2>1
  <2>3. Told(d) /\ Set(i, d)
    BY <1>6, <1>9, <2>1, <2>2
  <2> QED
    BY <1>1, <1>3, <1>9, <2>2, <2>3, Releases
<1>10. ASSUME faults' \in 0 .. MaxFaults, Set(i, [said EXCEPT !.at = next, !.why = "close failed"]),
              objs' = [objs EXCEPT ![o].leak = IF next = "done" THEN "close failed" ELSE @],
              UNCHANGED <<table, strays>>
       PROVE  Inv'
  <2>1. PICK l : l = IF next = "done" THEN "close failed" ELSE objs[o].leak
    OBVIOUS
  <2>2. l \in Leaks /\ (l # "no" \/ l = objs[o].leak)
    BY <1>3, <2>1 DEF Leaks, Objects
  <2>3. objs' = [objs EXCEPT ![o].leak = l]
    BY <1>10, <2>1
  <2>4. Mild /\ objs'[o].leak = l
    BY <1>2, <1>10, <2>2, <2>3, LeftBehind
  <2>5. PICK d : d = [said EXCEPT !.at = next, !.why = "close failed"]
    OBVIOUS
  <2>6. d = [op |-> c.op, obj |-> c.obj, at |-> next, throws |-> c.throws,
             answers |-> said.answers, why |-> "close failed"]
    BY <1>4, <2>5
  <2>7. "close failed" \in {c.why, "close failed"} /\ (next = "done" => objs'[o].leak # "no")
    BY <2>1, <2>4
  <2> QED
    BY <1>7, <1>10, <2>4, <2>5, <2>6, <2>7
<1> QED
  <2>1. \/ /\ Angry(c, answer)
           /\ Set(i, [said EXCEPT !.at = next])
           /\ objs' = [objs EXCEPT ![o].leak = IF next = "done" THEN "threw" ELSE @]
           /\ UNCHANGED <<table, faults, strays>>
        \/ /\ ~Angry(c, answer) /\ IsOpen(o)
           /\ table' = Closed(o)
           /\ strays' = strays \union Uses(o, "close")
           /\ Set(i, [said EXCEPT !.at = "done"])
           /\ UNCHANGED <<objs, faults>>
        \/ /\ ~Angry(c, answer) /\ Outcome(FALSE)
           /\ objs' = [objs EXCEPT ![o].leak = IF next = "done" THEN "close failed" ELSE @]
           /\ Set(i, [said EXCEPT !.at = next, !.why = "close failed"])
           /\ UNCHANGED <<table, strays>>
    BY <1>1, Zenon DEF WriteFileTurn
  <2> QED
    BY <1>8, <1>9, <1>10, <2>1, Faults

LEMMA TransferTurnStep ==
    ASSUME Inv, FilesBounds, NEW i \in 1 .. Len(calls), TransferTurn(i)
    PROVE  Inv'
<1>1. /\ calls[i].op \in {"read", "write"} /\ calls[i] \in AnyCall /\ calls[i].answers = <<>>
      /\ UNCHANGED <<table, objs, faults, strays>>
  BY TheCall DEF TransferTurn
<1>2. PICK c : /\ c \in {Answered(calls[i], "ok"), Settled(calls[i], TRUE), Settled(calls[i], FALSE)}
               /\ Set(i, c)
  BY DEF TransferTurn
<1>3. c.at = "done" /\ Told(c)
  BY <1>1, <1>2, Tells, Settles
<1>4. Mild
  BY <1>1, Faults, Still
<1>5. calls[i].op # "close" /\ calls[i].op \notin Whole
  BY <1>1 DEF Whole
<1> QED
  BY <1>2, <1>3, <1>4, <1>5, SetMild

LEMMA HandleThenStep ==
    ASSUME Inv, FilesBounds, NEW i \in 1 .. Len(calls), HandleThen(i)
    PROVE  Inv'
<1>1. /\ calls[i].op \in HandleOps /\ calls[i] \in AnyCall /\ calls[i].answers = <<>>
      /\ UNCHANGED <<table, objs, faults, strays>>
  BY TheCall DEF HandleThen, HandleOps
<1>2. PICK c : c = Answered(calls[i], "ok")
  OBVIOUS
<1>3. Set(i, c) /\ c.at = "done" /\ Told(c)
  BY <1>1, <1>2, Tells DEF HandleThen
<1>4. Mild
  BY <1>1, Faults, Still
<1>5. calls[i].op # "close" /\ calls[i].op \notin Whole
  BY <1>1 DEF Whole, HandleOps
<1> QED
  BY <1>3, <1>4, <1>5, SetMild

LEMMA TruncateTurnStep ==
    ASSUME Inv, FilesBounds, NEW i \in 1 .. Len(calls), TruncateTurn(i)
    PROVE  Inv'
<1>1. PICK o : o = calls[i].obj
  OBVIOUS
<1>2. /\ calls[i].op = "handle.truncate" /\ calls[i] \in AnyCall /\ calls[i] \in UnderWay
      /\ calls[i].answers = <<>> /\ Fits(calls[i], objs)
      /\ o \in 1 .. Len(objs) /\ objs[o].kind \in Kinds /\ UNCHANGED <<table, objs>>
  BY <1>1, TheCall DEF TruncateTurn, TimeoutOf, Fits, HandleOps
<1>3. calls[i].op # "close" /\ calls[i].op \notin Whole
  BY <1>2 DEF Whole
<1>4. ASSUME IsOpen(o), strays' = strays \union Uses(o, "truncate"),
             Set(i, Answered(calls[i], "ok")), UNCHANGED faults
      PROVE  Inv'
  <2>1. objs[o] \in Objects /\ DOMAIN objs = 1 .. Len(objs) /\ objs' = objs
    BY <1>2, Lengths, LenProperties DEF Inv, Typed
  <2>2. objs = [p \in DOMAIN objs |-> objs[p]]
    BY LenProperties DEF Inv, Typed
  <2>3. Puts(o, objs[o])
    BY <2>1, <2>2 DEF Puts
  <2>4. ~objs[o].shut /\ faults' \in 0 .. MaxFaults /\ "truncate" \in Ops \union {"truncate"}
    BY <1>4, Faults DEF IsOpen
  <2>5. Mild
    BY <1>2, <1>4, <2>1, <2>3, <2>4, MildPut
  <2>6. PICK c : c = Answered(calls[i], "ok")
    OBVIOUS
  <2>7. Set(i, c) /\ c.at = "done" /\ Told(c)
    BY <1>2, <1>4, <2>6, Tells
  <2> QED
    BY <1>3, <2>5, <2>7, SetMild
<1>5. ASSUME faults' \in 0 .. MaxFaults, UNCHANGED strays,
             Set(i, [calls[i] EXCEPT !.at = "rejected"])
      PROVE  Inv'
  <2>1. Mild
    BY <1>2, <1>5, Still
  <2>2. PICK c : c = [calls[i] EXCEPT !.at = "rejected"]
    OBVIOUS
  <2>3. /\ c.op = calls[i].op /\ c.obj = calls[i].obj /\ c.at = "rejected"
        /\ c.answers = <<>> /\ c \in UnderWay
    BY <1>2, <2>2 DEF UnderWay, Places
  <2>4. Fits(c, objs')
    <3>1. objs' = objs
      BY <1>2
    <3>2. Fits(c, objs)
      BY <1>2, <2>3 DEF Fits
    <3> QED
      BY <3>1, <3>2
  <2>5. Set(i, c) /\ c.at # "done"
    BY <1>5, <2>2, <2>3
  <2> QED
    BY <1>3, <2>1, <2>3, <2>4, <2>5, SetMild
<1>6. \/ /\ IsOpen(o)
         /\ strays' = strays \union Uses(o, "truncate")
         /\ Set(i, Answered(calls[i], "ok"))
         /\ UNCHANGED faults
      \/ /\ IF IsOpen(o) THEN Outcome(FALSE) ELSE UNCHANGED faults
         /\ Set(i, [calls[i] EXCEPT !.at = "rejected"])
         /\ UNCHANGED strays
  BY <1>1 DEF TruncateTurn
<1>7. (IF IsOpen(o) THEN Outcome(FALSE) ELSE UNCHANGED faults) => faults' \in 0 .. MaxFaults
  BY Faults
<1> QED
  BY <1>4, <1>5, <1>6, <1>7

LEMMA HandleRejectedStep ==
    ASSUME Inv, FilesBounds, NEW i \in 1 .. Len(calls), HandleRejected(i)
    PROVE  Inv'
<1>1. PICK o : o = calls[i].obj
  OBVIOUS
<1>2. /\ calls[i].op \in HandleOps /\ calls[i] \in AnyCall /\ calls[i] \in UnderWay
      /\ calls[i].answers = <<>> /\ o \in 1 .. Len(objs) /\ objs[o].kind \in Kinds
      /\ UNCHANGED <<table, faults, strays>>
  BY <1>1, TheCall DEF HandleRejected, Fits, HandleOps
<1>3. calls[i].op # "close" /\ calls[i].op \notin Whole
  BY <1>2 DEF Whole, HandleOps
<1>4. CASE AlreadyClosed(o)
  <2>1. PICK c : c = Answered(calls[i], "error")
    OBVIOUS
  <2>2. Set(i, c) /\ c.at = "done" /\ Told(c) /\ objs' = objs
    BY <1>1, <1>2, <1>4, <2>1, Tells DEF HandleRejected
  <2>3. Mild
    BY <1>2, <2>2, Faults, Still
  <2> QED
    BY <1>3, <2>2, <2>3, SetMild
<1>5. CASE ~AlreadyClosed(o)
  <2>1. PICK c : c = [calls[i] EXCEPT !.op = "close", !.at = "timeout",
                                      !.why = "closes after an error"]
    OBVIOUS
  <2>2. /\ c.op = "close" /\ c.obj = o /\ c.at = "timeout" /\ c.answers = <<>>
        /\ c \in UnderWay
    BY <1>1, <1>2, <2>1 DEF UnderWay, Places, Ops, Whys
  <2>3. Set(i, c) /\ CloseBegins(o) /\ c.at # "done"
    BY <1>1, <1>5, <2>1, <2>2 DEF HandleRejected
  <2>4. Becomes(i, c) /\ EndsWith(c)
    BY <2>2, <2>3, SetBecomes DEF Inv, Set, EndsWith
  <2>5. ~objs[o].shut /\ i \in 0 .. Len(calls) /\ (i # 0 => calls[i].op \notin Whole \union {"close"})
    BY <1>3, <1>5, Lengths DEF AlreadyClosed, Inv
  <2> QED
    BY <1>2, <2>2, <2>3, <2>4, <2>5, ClosesBegin
<1> QED
  BY <1>4, <1>5

-----------------------------------------------------------------------------
(* Every state.                                                             *)

LEMMA Initially == ASSUME FilesBounds, FilesInit PROVE Inv
<1>1. /\ objs = <<>> /\ calls = <<>> /\ Len(objs) = 0 /\ Len(calls) = 0
      /\ table = [n \in Fd |-> 0] /\ program \in Programs /\ made = 0
      /\ ends = {} /\ faults = 0 /\ strays = {}
  BY DEF FilesInit
<1>2. objs \in Seq(Objects) /\ calls \in Seq(UnderWay)
  BY <1>1
<1>3. program.calls \in Nat /\ MaxFaults \in Nat
  BY <1>1 DEF FilesBounds, Program
<1>4. Typed
  BY <1>1, <1>2, <1>3 DEF Typed
<1>5. CallsFit /\ OneEach /\ Counted /\ Keeps
  BY <1>1 DEF CallsFit, OneEach, Counted, Keeps
<1>6. Owns /\ Leaves
  BY <1>1 DEF Owns, Leaves
<1>7. StrayNeedsOverlap /\ AnsweredOnce
  BY <1>1 DEF StrayNeedsOverlap, AnsweredOnce
<1> QED
  BY <1>4, <1>5, <1>6, <1>7 DEF Inv

LEMMA ClientSteps == ASSUME Inv, FilesBounds, Client PROVE Inv'
<1>1. ASSUME NEW t \in Callbacks, NEW kind \in Kinds, Open(kind, t) PROVE Inv'
  BY <1>1, OpenStep DEF Throws
<1>2. ASSUME NEW t \in Callbacks, ReadDir(t) PROVE Inv'
  BY <1>2, ReadDirStep DEF Throws
<1>3. ASSUME NEW t \in Callbacks, ReadFile(t) PROVE Inv'
  BY <1>3, ReadFileStep DEF Throws
<1>4. ASSUME NEW t \in Callbacks, NEW good \in BOOLEAN, WriteFile(t, good) PROVE Inv'
  BY <1>4, WriteFileStep DEF Throws
<1>5. ASSUME ReadDirSync PROVE Inv'
  BY <1>5, ReadDirSyncStep
<1>6. ASSUME NEW o \in 1 .. Len(objs), DirCloseSync(o) PROVE Inv'
  BY <1>6, DirCloseSyncStep
<1>7. ASSUME NEW o \in 1 .. Len(objs), NEW op \in HandleOps, Handle(op, o) PROVE Inv'
  BY <1>7, HandleStep
<1>8. ASSUME NEW o \in 1 .. Len(objs), NEW t \in Throws, Close(o, t) PROVE Inv'
  BY <1>8, CloseStep
<1>9. ASSUME NEW o \in 1 .. Len(objs), NEW t \in Throws, DirRead(o, t) PROVE Inv'
  BY <1>9, DirReadStep
<1>10. ASSUME NEW o \in 1 .. Len(objs), NEW t \in Callbacks, NEW op \in Transfers, Transfer(op, o, t)
       PROVE  Inv'
  BY <1>10, TransferStep DEF Throws
<1> QED
  BY <1>1, <1>2, <1>3, <1>4, <1>5, <1>6, <1>7, <1>8, <1>9, <1>10, Zenon DEF Client

LEMMA TurnSteps == ASSUME Inv, FilesBounds, Turn PROVE Inv'
<1>1. PICK i \in 1 .. Len(calls) :
         \/ OpenTurn(i) \/ CloseTurn(i) \/ DirReadTurn(i) \/ ReadDirTurn(i)
         \/ ReadFileThen(i) \/ ReadCatch(i) \/ WriteFileTurn(i)
         \/ TransferTurn(i) \/ TruncateTurn(i) \/ HandleThen(i) \/ HandleRejected(i)
  BY DEF Turn
<1>2. CASE OpenTurn(i)
  BY <1>2, OpenTurnStep
<1>3. CASE CloseTurn(i)
  BY <1>3, CloseTurnStep
<1>4. CASE DirReadTurn(i)
  BY <1>4, DirReadTurnStep
<1>5. CASE ReadDirTurn(i)
  BY <1>5, ReadDirTurnStep
<1>6. CASE ReadFileThen(i)
  BY <1>6, ReadFileThenStep
<1>7. CASE ReadCatch(i)
  BY <1>7, ReadCatchStep
<1>8. CASE WriteFileTurn(i)
  BY <1>8, WriteFileTurnStep
<1>9. CASE TransferTurn(i)
  BY <1>9, TransferTurnStep
<1>10. CASE TruncateTurn(i)
  BY <1>10, TruncateTurnStep
<1>11. CASE HandleThen(i)
  BY <1>11, HandleThenStep
<1>12. CASE HandleRejected(i)
  BY <1>12, HandleRejectedStep
<1> QED
  BY <1>1, <1>2, <1>3, <1>4, <1>5, <1>6, <1>7, <1>8, <1>9, <1>10, <1>11, <1>12

LEMMA Always == ASSUME FilesBounds PROVE FilesSpec => []Inv
<1>1. FilesInit => Inv
  BY Initially
<1>2. Inv /\ [FilesNext]_fvars => Inv'
  <2>1. ASSUME Inv, FilesNext PROVE Inv'
    BY <2>1, ClientSteps, TurnSteps DEF FilesNext
  <2>2. ASSUME Inv, UNCHANGED fvars PROVE Inv'
    <3>1. /\ table' = table /\ objs' = objs /\ calls' = calls /\ program' = program
          /\ made' = made /\ ends' = ends /\ faults' = faults /\ strays' = strays
      BY <2>2 DEF fvars
    <3>2. Typed'
      BY <2>2, <3>1 DEF Inv, Typed
    <3>3. CallsFit' /\ OneEach'
      BY <2>2, <3>1 DEF Inv, CallsFit, Fits, OneEach, Angry
    <3>4. Counted'
      BY <2>2, <3>1 DEF Inv, Counted, Closes
    <3>5. Owns'
      BY <2>2, <3>1 DEF Inv, Owns
    <3>6. \A o : (Live(o)' <=> Live(o)) /\ (Robbed(o)' <=> Robbed(o))
      BY <3>1 DEF Live, Robbed
    <3>7. Keeps' /\ Leaves'
      BY <2>2, <3>1, <3>6 DEF Inv, Keeps, Leaves
    <3>8. StrayNeedsOverlap' /\ AnsweredOnce'
      BY <2>2, <3>1 DEF Inv, StrayNeedsOverlap, AnsweredOnce, Angry
    <3> QED
      BY <3>2, <3>3, <3>4, <3>5, <3>7, <3>8 DEF Inv
  <2> QED
    BY <2>1, <2>2
<1> QED
  BY <1>1, <1>2, PTL DEF FilesSpec

(* Types: every number belongs to an open there was, an object counts no    *)
(* more closes than calls have been made (FileHandle.close and Dir.close,    *)
(* fs.js 2769 and 2429), and no call under way is one that is over.         *)
THEOREM Types == ASSUME FilesBounds PROVE FilesSpec => []FilesTypeOK
<1>1. Inv => FilesTypeOK
  <2> SUFFICES ASSUME Inv PROVE FilesTypeOK
    OBVIOUS
  <2>1. /\ Len(objs) \in Nat /\ Len(calls) \in Nat
        /\ \A o \in 1 .. Len(objs) : objs[o] \in Objects
        /\ \A i \in 1 .. Len(calls) : calls[i] \in UnderWay
    BY Lengths DEF Inv
  <2>2. program.calls \in Nat /\ made \in 0 .. program.calls /\ Len(calls) <= made
    BY DEF Inv, Typed, FilesBounds, Program
  <2>3. ASSUME NEW o \in 1 .. Len(objs) PROVE objs[o].fd \in Fd /\ objs[o].closing \in 0 .. made
    <3>1. IsFiniteSet(1 .. Len(calls)) /\ Cardinality(1 .. Len(calls)) = Len(calls)
      <4>1. /\ IsFiniteSet(1 .. Len(calls))
            /\ Cardinality(1 .. Len(calls)) = IF 1 > Len(calls) THEN 0 ELSE Len(calls) - 1 + 1
        BY <2>1, FS_Interval, 1 \in Int, Len(calls) \in Int
      <4> QED
        BY <2>1, <4>1
    <3>2. Closes(calls, o) \in SUBSET (1 .. Len(calls))
      BY DEF Closes
    <3>3. PICK s : s = Closes(calls, o)
      OBVIOUS
    <3>4. IsFiniteSet(s) /\ Cardinality(s) <= Cardinality(1 .. Len(calls))
      BY <3>1, <3>2, <3>3, FS_Subset
    <3>5. Cardinality(s) \in Nat
      BY <3>4, FS_CardinalityType
    <3>6. objs[o].closing = Cardinality(s)
      BY <3>3 DEF Inv, Counted
    <3>7. objs[o].closing \in 0 .. made
      BY <2>1, <2>2, <3>1, <3>4, <3>5, <3>6
    <3> QED
      BY <2>1, <3>7 DEF Objects
  <2>4. \A i \in 1 .. Len(calls) : calls[i].at \in Places \ {"done"}
    BY <2>1 DEF UnderWay
  <2> QED
    BY <2>3, <2>4 DEF FilesTypeOK, Inv, Typed
<1> QED
  BY <1>1, Always, PTL

(* Nobody meets a descriptor that another open was given, unless an object  *)
(* was used while a close of it was on its way: the stray use has such an   *)
(* object, or is one of an open whose number such an object closed (fs.js   *)
(* Dir.close 2429, FileHandle.close 2769, which only clear their fd in the  *)
(* timeout).                                                                *)
THEOREM Astray == ASSUME FilesBounds PROVE FilesSpec => []StrayNeedsOverlap
<1>1. Inv => StrayNeedsOverlap
  BY DEF Inv
<1> QED
  BY <1>1, Always, PTL

(* When no call is under way, a number that is not free is one a client can *)
(* close, or one the code leaves behind: readdirSync, readFile whose fstat  *)
(* or read fails, writeFile with data of the wrong type, and a close that   *)
(* failed or that a throwing callback kept from being called.               *)
THEOREM NothingStaysOpen == ASSUME FilesBounds PROVE FilesSpec => []NothingLeftOpen
<1>1. Inv => NothingLeftOpen
  <2> SUFFICES ASSUME Inv, calls = <<>>, NEW n \in Fd, table[n] # 0
               PROVE  \/ objs[table[n]].leak # "no"
                      \/ objs[table[n]].kind \in Kinds /\ ~objs[table[n]].shut
    BY DEF NothingLeftOpen
  <2>1. Len(calls) = 0
    OBVIOUS
  <2>2. objs[table[n]].leak # "no" \/ Live(table[n])
    BY DEF Inv, Leaves
  <2> QED
    BY <2>1, <2>2 DEF Live
<1> QED
  BY <1>1, Always, PTL

(* Every call that is over has been answered once, but for the exceptions   *)
(* that AnsweredOnce names: a callback that throws is called again (fs.js   *)
(* close 1347-1359), the end of a directory is told twice, and of a read or a *)
(* close that failed inside another call nobody is told.                    *)
THEOREM EveryoneIsAnswered == ASSUME FilesBounds PROVE FilesSpec => []AnsweredOnce
<1>1. Inv => AnsweredOnce
  BY DEF Inv
<1> QED
  BY <1>1, Always, PTL
=============================================================================
