------------------------------ MODULE Buffers ------------------------------
(***************************************************************************)
(* buffer.js: views of memory.  slice shares the memory of its buffer; from, *)
(* concat and alloc get memory of their own; copy, fill, write and the       *)
(* integer writers change what every other view of those bytes sees.         *)
(* A byte has Base values instead of 256.  Integer offsets and values only,  *)
(* and no noAssert.                                                          *)
(***************************************************************************)
EXTENDS Integers, Sequences, FiniteSets, FiniteSetsExt, SequencesExt

CONSTANTS Base,      \* how many values a byte has
          Contents,  \* what the first memory may hold
          Texts,     \* strings as characters, each the bytes of its encoding
          Numbers,   \* integers that are written
          Offsets,   \* integers that are given as positions
          MaxViews, MaxCalls

VARIABLES mem,    \* the memories, each a sequence of bytes
          views,  \* the Buffers made so far
          last    \* the latest call, its result and the memory before it
bvars == <<mem, views, last>>

View(of, at, length) == [of |-> of, at |-> at, length |-> length]
In(m, v) == SubSeq(m[v.of], v.at + 1, v.at + v.length)
Bytes(v) == In(mem, v)
Part(b, start, end) == SubSeq(b, start + 1, IF end < Len(b) THEN end ELSE Len(b))
Least(a, b) == IF a < b THEN a ELSE b
Most(a, b) == IF a > b THEN a ELSE b
\* The memory with the bytes from position `at` of a view.
Blit(m, v, at, bytes) ==
    [m EXCEPT ![v.of] = [k \in 1..Len(@) |-> IF k - v.at - at \in 1..Len(bytes)
                                             THEN bytes[k - v.at - at] ELSE @[k]]]

BuffersInit == /\ \E c \in Contents : mem = <<c>> /\ views = <<View(1, 0, Len(c))>>
               /\ last = [op |-> "none", n |-> 0]

Result(op, n, result) == [op |-> op, n |-> n, result |-> result, before |-> mem]
\* The properties are about one call, on buffers that others have made.
Calls == last.n < MaxCalls /\ last.op \in {"none", "slice", "from", "concat"}
Answers(op, result, more) == last' = more @@ Result(op, last.n + 1, result)
Throws == last' = Result("throws", last.n + 1, 0)

(***************************************************************************)
(* Views and copies.                                                        *)
(***************************************************************************)
Clamp(i, len) == IF i < 0 THEN Most(i + len, 0) ELSE Least(i, len)
slice(v, start, end) == LET s == Clamp(start, v.length)
                        IN  View(v.of, v.at + s, Most(Clamp(end, v.length) - s, 0))
Slice == /\ Calls /\ Len(views) < MaxViews
         /\ \E i \in DOMAIN views, s, e \in Offsets :
               /\ views' = Append(views, slice(views[i], s, e))
               /\ Answers("slice", 0, [view |-> views[i], start |-> s, end |-> e])
         /\ UNCHANGED mem

\* A buffer with memory of its own.
Owns(bytes) == /\ mem' = Append(mem, bytes)
               /\ views' = Append(views, View(Len(mem) + 1, 0, Len(bytes)))
Concat(a, b, length) ==
    LET all == Bytes(a) \o Bytes(b)
    IN  [k \in 1..length |-> IF k <= Len(all) THEN all[k] ELSE 0]
From == /\ Calls /\ Len(views) < MaxViews
        /\ \E i \in DOMAIN views : \/ /\ Owns(Bytes(views[i]))
                                      /\ Answers("from", 0, [bytes |-> Bytes(views[i])])
                                   \/ \E j \in DOMAIN views, n \in Offsets :
                                        /\ n >= 0 /\ Owns(Concat(views[i], views[j], n))
                                        /\ Answers("concat", n, [bytes |-> Concat(views[i], views[j], n)])

\* What copy changes and answers, or that it throws.  Mutant: the bytes go
\* one by one, and a later one may be a copy of an earlier one.
Ends(v, start, end) == IF end > 0 /\ end < start THEN start ELSE end
Fits(v, w, to, start, end) ==
    Least(Least(Ends(v, start, end), v.length), w.length - Least(to, w.length) + start)
CopiesOneByOne(m, v, w, to, start, end) ==
    FoldLeft(LAMBDA mm, k : Blit(mm, w, to + k - 1, <<In(mm, v)[start + k]>>),
             m, [k \in 1..Most(Fits(v, w, to, start, end) - start, 0) |-> k])
Copies(m, v, w, to, start, end) ==
    LET n == Fits(v, w, to, start, end) - start
    IN  Blit(m, w, Least(to, w.length), SubSeq(In(m, v), start + 1, start + n))
Copy ==
    /\ Calls
    /\ \E i, j \in DOMAIN views, to, start, end \in Offsets :
         LET v == views[i]
             w == views[j]
             e == Ends(v, start, end)
             args == [to |-> w, from |-> v, at |-> to, start |-> start, end |-> end]
         IN  IF e = start \/ v.length = 0 \/ w.length = 0
             THEN Answers("copy", 0, args) /\ UNCHANGED mem
             ELSE IF to < 0 \/ start < 0 \/ start >= v.length \/ e < 0
             THEN Throws /\ UNCHANGED mem
             ELSE /\ mem' = Copies(mem, v, w, to, start, end)
                  /\ Answers("copy", Fits(v, w, to, start, end) - start, args)
    /\ UNCHANGED views

\* Byte after byte, from bytes that may be among those it has filled.
Filled(m, v, val, start, end) ==
    FoldLeft(LAMBDA mm, k : Blit(mm, v, start + k - 1, <<In(mm, val)[((k - 1) % val.length) + 1]>>),
             m, [k \in 1..Most(end - start, 0) |-> k])
Fill ==
    /\ Calls
    /\ \E i, j \in DOMAIN views, start, end \in Offsets :
         LET v == views[i]
             args == [to |-> v, from |-> views[j], start |-> start, end |-> end]
         IN  IF \/ start < 0 \/ v.length < start \/ v.length < end
                \/ (end > start /\ views[j].length = 0)
             THEN Throws /\ UNCHANGED mem
             ELSE /\ mem' = Filled(mem, v, views[j], start, end)
                  /\ Answers("fill", 0, args)
    /\ UNCHANGED views

\* utf8ToBytes(string, units) keeps whole characters in the units it is
\* given, those up to the end of the buffer; blitBuffer cuts at the length.
Encoded(text, units) ==
    FlattenSeq(SubSeq(text, 1, Max({0} \cup { k \in 1..Len(text) :
                                     Len(FlattenSeq(SubSeq(text, 1, k))) <= units })))
Write ==
    /\ Calls
    /\ \E i \in DOMAIN views, text \in Texts, offset \in Offsets, length \in Offsets \cup {99} :
         LET v == views[i]
             fits == Least(IF length < 0 THEN 99 ELSE length, v.length - offset) \* >>> 0
             bytes == Encoded(text, v.length - offset)
             n == Least(Len(bytes), fits)
             args == [to |-> v, text |-> text, start |-> offset, length |-> length]
         IN  /\ offset >= 0
             /\ IF offset > v.length
                THEN Throws /\ UNCHANGED mem
                ELSE /\ mem' = Blit(mem, v, offset, SubSeq(bytes, 1, n))
                     /\ Answers("write", n, args)
    /\ UNCHANGED views

\* swap16, swap32 and swap64.
Exchanged(b, i, j) == [b EXCEPT ![i] = b[j], ![j] = b[i]]
Swapped(b, n) == \* in each group the first with the last, the second with the one before, ...
    FoldLeft(LAMBDA c, k : LET group == ((k - 1) \div (n \div 2)) * n
                               place == (k - 1) % (n \div 2)
                           IN  Exchanged(c, group + place + 1, group + n - place),
             b, [k \in 1..Len(b) \div 2 |-> k])
Swap == /\ Calls
        /\ \E i \in DOMAIN views, n \in {2, 4, 8} :
              LET v == views[i]
                  ok == v.length % n = 0
              IN  /\ mem' = IF ok THEN Blit(mem, v, 0, Swapped(Bytes(v), n)) ELSE mem
                  /\ IF ok THEN Answers("swap", 0, [to |-> v, size |-> n]) ELSE Throws
        /\ UNCHANGED views

(***************************************************************************)
(* Integers.  The general writers divide, towards zero; `sub` makes up for  *)
(* it once a lower byte of a negative value is not zero.                    *)
(***************************************************************************)
Trunc(a, b) == IF a >= 0 THEN a \div b ELSE -((-a) \div b)
IntBytes(value, n) ==
    FoldLeft(LAMBDA acc, i :
               LET sub == IF value < 0 /\ Last(acc.bytes) # 0 THEN 1 ELSE acc.sub
               IN  [sub |-> sub, bytes |-> Append(acc.bytes, (Trunc(value, Base ^ i) - sub) % Base)],
             [sub |-> 0, bytes |-> <<value % Base>>], [i \in 1..n - 1 |-> i]).bytes
UIntBytes(value, n) ==
    <<value % Base>> \o [i \in 1..n - 1 |-> (value \div Base ^ i) % Base]
\* writeInt8, writeInt16 and writeInt32.
SizedBytes(value, n) == UIntBytes(IF value < 0 THEN Base ^ n - 1 + value + 1 ELSE value, n)
\* writeBigInt64: the low and the high word.
Word == Base ^ 4
BigBytes(value) == UIntBytes(value % Word, 4) \o UIntBytes((value \div Word) % Word, 4)

Unsigned(b) == FoldLeft(LAMBDA n, k : n + b[k] * Base ^ (k - 1), 0, [k \in 1..Len(b) |-> k])
Signed(b) == LET val == Unsigned(b)
             IN  IF val >= Base ^ (Len(b) - 1) * (Base \div 2) THEN val - Base ^ Len(b) ELSE val
\* readInt8, readInt16 and readInt32 look at the highest bit.
SizedInt(b) == IF Last(b) < Base \div 2 THEN Unsigned(b)
               ELSE -((Base ^ Len(b) - 1) - Unsigned(b) + 1)
BigInt(b) == Unsigned(SubSeq(b, 1, 4)) + Signed(SubSeq(b, 5, 8)) * Word
Order(b, le) == IF le THEN b ELSE Reverse(b)

Kinds == {"UInt", "Int", "sized", "big"}
InRange(kind, value, n) == IF kind = "UInt" THEN value \in 0 .. Base ^ n - 1
                           ELSE 2 * value >= -(Base ^ n) /\ 2 * value < Base ^ n
Spelled(kind, value, n) == CASE kind = "UInt" -> UIntBytes(value, n)
                             [] kind = "Int" -> IntBytes(value, n)
                             [] kind = "sized" -> SizedBytes(value, n)
                             [] kind = "big" -> BigBytes(value)
\* A width of 0 passes the checks of writeUInt, and a byte is written: the one
\* at the offset, or the one before it when the last byte has the offset; a
\* byte before the first, or after the last, is not there to be written.
Placed(v, offset, bytes, n, le) ==
    LET at == IF n = 0 /\ ~le THEN offset - 1 ELSE offset
    IN  IF at < 0 THEN mem ELSE Blit(mem, v, at, Part(bytes, 0, v.length - at))
WriteNumber ==
    /\ Calls
    /\ \E i \in DOMAIN views, kind \in Kinds, value \in Numbers, le \in BOOLEAN :
       \E offset \in Offsets, n \in CASE kind = "UInt" -> 0..4 [] kind = "Int" -> 1..4
                                      [] kind = "sized" -> {1, 2, 4} [] kind = "big" -> {8} :
         LET v == views[i]
             ok == InRange(kind, value, n) /\ offset + n <= v.length
         IN  /\ offset >= 0
             /\ mem' = IF ok THEN Placed(v, offset, Order(Spelled(kind, value, n), le), n, le)
                       ELSE mem
             /\ IF ok THEN Answers("number", offset + n,
                                   [to |-> v, kind |-> kind, value |-> value, start |-> offset,
                                    size |-> n, le |-> le])
                ELSE Throws
    /\ UNCHANGED views

(***************************************************************************)
(* Searching and comparing.  `step` is the size of a unit; positions are     *)
(* bytes here, and in a search for 16-bit units halves of them in the code,  *)
(* whole or not.  Forward answers with the byte, backward with the half: an  *)
(* answer is counted in halves, and so are the two that are no place.        *)
(***************************************************************************)
NotFound == -2
RangeError == -4
Reads(b, i, step) == i + step <= Len(b)
UnitAt(b, i, step) == SubSeq(b, i + 1, i + step)
Forward(b, val, from, step) ==
    LET Scan[i \in Nat, found \in Int] ==
          IF i >= Len(b) THEN NotFound
          ELSE LET j == IF found = -1 THEN 0 ELSE i - found
               IN  IF ~Reads(b, i, step) \/ ~Reads(val, j, step) THEN RangeError
                   ELSE IF UnitAt(b, i, step) # UnitAt(val, j, step)
                   THEN Scan[(IF found = -1 THEN i ELSE found) + step, -1]
                   ELSE IF j + step = Len(val) THEN 2 * (i - j)
                   ELSE Scan[i + step, i - j]
    IN  Scan[from, -1]
\* The answer for units is not a byte.  A last byte that is no unit cannot be
\* read when the units before it are found.
Backward(b, val, from, step) ==
    LET begin == Least(from, Len(b) - Len(val))
        units == SubSeq(val, 1, Len(val) - (Len(val) % step))
        at == { i \in 0..begin : (begin - i) % step = 0
                                 /\ SubSeq(b, i + 1, i + Len(units)) = units }
    IN  IF at = {} THEN NotFound
        ELSE IF units # val THEN RangeError
        ELSE IF step = 1 THEN 2 * Max(at) ELSE Max(at)

indexOf(b, val, offset, step, dir) ==
    LET from == IF offset < 0 THEN Len(b) + offset ELSE offset
    IN  IF b = <<>> \/ val = <<>> \/ (dir /\ from >= Len(b)) \/ (~dir /\ from < 0) THEN NotFound
        ELSE IF step = 2 /\ (Len(b) < 2 \/ Len(val) < 2) THEN NotFound
        ELSE IF dir THEN Forward(b, val, Most(from, 0), step)
        ELSE Backward(b, val, Least(from, Len(b) - 1), step)
Search == /\ Calls
          /\ \E i, j \in DOMAIN views, offset \in Offsets, step \in {1, 2}, dir \in BOOLEAN :
               Answers("search", indexOf(Bytes(views[i]), Bytes(views[j]), offset, step, dir),
                          [to |-> views[i], from |-> views[j], at |-> offset, size |-> step, le |-> dir])
          /\ UNCHANGED <<mem, views>>

Sign(n) == IF n < 0 THEN -1 ELSE IF n > 0 THEN 1 ELSE 0
compare(a, b) ==
    LET differ == { k \in 1..Least(Len(a), Len(b)) : a[k] # b[k] }
    IN  IF differ = {} THEN Sign(Len(a) - Len(b)) ELSE Sign(a[Min(differ)] - b[Min(differ)])
\* The method, which takes parts of both.
compareParts(a, b, start, end, thisStart, thisEnd) ==
    IF thisStart >= thisEnd THEN (IF start >= end THEN 0 ELSE -1)
    ELSE IF start >= end THEN 1
    ELSE compare(Part(a, thisStart, thisEnd), Part(b, start, end))

BuffersNext == \/ Slice \/ From \/ Copy \/ Fill \/ Write \/ Swap \/ WriteNumber \/ Search
BuffersSpec == BuffersInit /\ [][BuffersNext]_bvars

(***************************************************************************)
(* Properties.                                                              *)
(***************************************************************************)
BuffersTypeOK == \A i \in DOMAIN views : /\ views[i].of \in DOMAIN mem /\ views[i].length >= 0
                                         /\ views[i].at + views[i].length <= Len(mem[views[i].of])

Was(v) == In(last.before, v)
Same(v, from, to) == \* outside of which nothing has changed
    \A m \in DOMAIN last.before : \A k \in DOMAIN last.before[m] :
       (m = v.of /\ k - v.at \in from + 1 .. to) \/ mem[m][k] = last.before[m][k]
Disjoint(v, w) == v.of # w.of \/ v.at + v.length <= w.at \/ w.at + w.length <= v.at

\* Buffer.copy: the bytes that were in the source, also where the two
\* overlap, and as many as it says, unless end is 0 before start.
CopyMoves ==
    last.op = "copy" =>
      /\ last.result < 0 => last.end = 0 /\ mem = last.before
      /\ last.result > 0 =>
           /\ Part(Bytes(last.to), last.at, last.at + last.result)
              = Part(Was(last.from), last.start, last.start + last.result)
           /\ Same(last.to, last.at, last.at + last.result)

\* Buffer.fill: what is filled repeats the value; a value that is part of the
\* buffer may change on the way.
FillRepeats ==
    last.op = "fill" =>
      /\ Disjoint(last.to, last.from) =>
           \A k \in last.start .. last.end - 1 :
              Bytes(last.to)[k + 1] = Was(last.from)[((k - last.start) % last.from.length) + 1]
      /\ Same(last.to, last.start, last.end)

\* Buffer.write: without a length only whole characters are written.
WholeCharacters ==
    last.op = "write" =>
      /\ Same(last.to, last.start, last.start + last.result)
      /\ last.length >= last.to.length - last.start =>
           \E k \in 0..Len(last.text) :
              Part(Bytes(last.to), last.start, last.start + last.result)
              = FlattenSeq(SubSeq(last.text, 1, k))

\* swap16, swap32 and swap64: each group of bytes is turned round where it
\* is, and no byte of another view changes.
SwapTurns ==
    last.op = "swap" =>
      /\ \A g \in 0 .. last.to.length \div last.size - 1 :
            Part(Bytes(last.to), g * last.size, (g + 1) * last.size)
            = Reverse(Part(Was(last.to), g * last.size, (g + 1) * last.size))
      /\ last.to.length % last.size = 0
      /\ Same(last.to, 0, last.to.length)

\* The integer methods: every reader of a width gives back what any writer
\* of that width wrote, and no other byte changes; for a width of 0 none but
\* one of the view next to the offset.
NumbersReadBack ==
    /\ last.op = "number" /\ last.size = 0 =>
         IF last.le THEN Same(last.to, last.start, Least(last.start + 1, last.to.length))
         ELSE Same(last.to, Most(last.start - 1, 0), last.start)
    /\ last.op = "number" /\ last.size > 0 =>
      LET b == Order(Part(Bytes(last.to), last.start, last.start + last.size), last.le)
      IN  /\ IF last.kind = "UInt" THEN Unsigned(b) = last.value
             ELSE /\ Signed(b) = last.value /\ SizedInt(b) = last.value
                  /\ last.size = 8 => BigInt(b) = last.value
          /\ Same(last.to, last.start, last.start + last.size)

\* indexOf and lastIndexOf: the first or the last place, of those a whole
\* number of units from where the search begins.  Backward a search for units
\* answers half of that place.  A byte that is left over may make it throw.
FindsTheFirst ==
    last.op = "search" =>
      LET b == Bytes(last.to)
          val == Bytes(last.from)
          from == IF last.at < 0 THEN Len(b) + last.at ELSE last.at
          begin == IF last.le THEN Most(from, 0)
                   ELSE Least(from, Least(Len(b) - 1, Len(b) - Len(val)))
          at == { k \in 0 .. Len(b) - 1 :
                    /\ Len(val) >= last.size /\ Part(b, k, k + Len(val)) = val
                    /\ (k - begin) % last.size = 0
                    /\ IF last.le THEN k >= begin ELSE k <= begin }
      IN  IF last.result = RangeError
          THEN last.size = 2 /\ ((Len(b) - begin) % 2 = 1 \/ Len(val) % 2 = 1)
          ELSE last.result = IF at = {} THEN NotFound
                             ELSE IF last.le THEN 2 * Min(at)
                             ELSE IF last.size = 1 THEN 2 * Max(at) ELSE Max(at)

\* compare orders, and the method agrees with it on every part.
ComparesParts ==
    last.op \in {"none", "slice"} => \A i, j \in DOMAIN views : LET a == Bytes(views[i])
                                   b == Bytes(views[j]) IN
      /\ compare(a, b) = -compare(b, a) /\ (compare(a, b) = 0) = (a = b)
      /\ \A s, e \in 0..Len(a), t, f \in 0..Len(b) :
            compareParts(a, b, t, f, s, e) = compare(Part(a, s, e), Part(b, t, f))

BuffersKept == /\ CopyMoves /\ FillRepeats /\ WholeCharacters /\ SwapTurns
               /\ NumbersReadBack /\ FindsTheFirst /\ ComparesParts
=============================================================================
