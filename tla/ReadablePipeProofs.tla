------------------------- MODULE ReadablePipeProofs -------------------------
(***************************************************************************)
(* Proofs about Readable, continued: what a destination is given by pipe    *)
(* comes in order and without a gap, for every client that neither puts     *)
(* chunks back nor has one emitted within the emission of another.          *)
(*                                                                          *)
(* The source counts the chunks it makes, and those it has pushed but that  *)
(* are not accepted yet wait on the stack: what is accepted is 1, 2, 3 and  *)
(* so on (Counted).  Of each destination it is then said what it got last:  *)
(* what was before the chunk being written to it, if there is one on the    *)
(* stack, and otherwise what the stream delivered last (FedInOrder).  That  *)
(* holds because no piece that runs while a chunk is being written emits    *)
(* another (Hush), and because who starts to listen has got nothing yet.    *)
(***************************************************************************)
EXTENDS ReadableProofs

\* Chunks that have yet to be accepted: the source counts them.
IsNew(f)      == IsChunk(f) /\ f.data # <<0>>
NewFrom(s, i) == \E j \in DOMAIN s : j >= i /\ IsNew(s[j])
NewTwice(s)   == \E i, j \in DOMAIN s : i < j /\ IsNew(s[i]) /\ IsNew(s[j])
HowMany(s)    == IF NewTwice(s) THEN 2 ELSE IF NewFrom(s, 1) THEN 1 ELSE 0
Counts(s, n) ==
    /\ \A i \in DOMAIN s : IsNew(s[i]) => s[i].data = <<n - (IF NewFrom(s, i + 1) THEN 1 ELSE 0)>>
    /\ \A i, j, k \in DOMAIN s : i < j /\ j < k => ~(IsNew(s[i]) /\ IsNew(s[j]) /\ IsNew(s[k]))
Counted ==
    /\ \A i \in DOMAIN pushed : pushed[i] = i
    /\ r.ended \/ Failed \/ (Counts(stack, source.count) /\ Len(pushed) = source.count - HowMany(stack))

\* What runs while a chunk is being written to the destinations.
Hush(may) ==
    {"ondata", "pausePipe", "pause"} \cup
    (IF "on data" \in may
     THEN {"user", "on data", "off data", "on readable", "off readable", "resume", "pipe", "piped",
           "emitReadable", "destroy"}
     ELSE {})

Feeds(f, d) == f.fn = "ondata" /\ f.who = d
Joins(f, d) == f.fn = "on data" /\ f.who = d
Fed(s, d)     == \E i \in DOMAIN s : Feeds(s[i], d)
Joining(s, d) == \E i \in DOMAIN s : Joins(s[i], d)

\* g is consecutive, and its last element, if any, is n.
Row(g)     == g \in Seq(Nat) /\ \A i \in DOMAIN g : i > 1 => g[i] = g[i - 1] + 1
UpTo(g, n) == g # <<>> => g[Len(g)] = n

FedInOrder(d) ==
    /\ Row(got[d])
    /\ \A i, j \in DOMAIN stack : Feeds(stack[i], d) /\ Feeds(stack[j], d) => i = j
    /\ Once(on.data, d)
    /\ ~pipe[d].used \/ Joining(stack, d) =>
          got[d] = <<>> /\ ~Fed(stack, d) /\ ~In(on.data, d)
    /\ dest[d].status = "open" =>
          /\ \A i \in DOMAIN stack : Feeds(stack[i], d) => UpTo(got[d], Len(delivered) - Len(stack[i].data))
          /\ ~Fed(stack, d) /\ In(on.data, d) => UpTo(got[d], Len(delivered))

Writes(f) ==
    /\ Len(f.data) <= Len(delivered)
    /\ \A j \in DOMAIN f.data : f.data[j] = Len(delivered) - Len(f.data) + j

GivenOut(s, may) ==
    \A i \in DOMAIN s :
       /\ s[i].fn = "on data" => i = 1 /\ (s[i].who = "user" => "on data" \in may)
       /\ s[i].fn = "ondata" => Writes(s[i]) /\ \A j \in 1 .. i - 1 : s[j].fn \in Hush(may)
       /\ s[i].fn = "unshift" => "unshift" \in may

Feeding ==
    /\ DOMAIN got = Dest
    /\ In(on.data, "user") => "on data" \in client.is.may
    /\ GivenOut(stack, client.is.may)
    /\ \A d \in Dest : FedInOrder(d)

Plainly == ~ReadsInData /\ "unshift" \notin client.is.may
Orderly == Counted /\ (Plainly => Feeding)

-----------------------------------------------------------------------------

\* t is s with c in the place of its first b.
Shifts(t, s, c, b) ==
    /\ Len(c) \in Nat /\ DOMAIN c = 1 .. Len(c) /\ Len(s) \in Nat /\ DOMAIN s = 1 .. Len(s) /\ b <= Len(s)
    /\ DOMAIN t = 1 .. Len(c) + Len(s) - b
    /\ \A i \in 1 .. Len(c) : t[i] = c[i]
    /\ \A i \in DOMAIN t : i > Len(c) => t[i] = s[i - Len(c) + b]

LEMMA ShiftsTail ==
    ASSUME NEW S, NEW s \in Seq(S), s # <<>>, NEW c \in Seq(S)
    PROVE  Shifts(c \o Tail(s), s, c, 1)
<1>1. PICK u, t : u = Tail(s) /\ t = c \o u
  OBVIOUS
<1>2. /\ u \in Seq(S) /\ Len(s) \in Nat \ {0} /\ DOMAIN s = 1 .. Len(s) /\ DOMAIN u = 1 .. Len(s) - 1
      /\ \A i \in 1 .. Len(s) - 1 : u[i] = s[i + 1]
  BY <1>1, Below
<1>3. /\ Len(c) \in Nat /\ Len(u) \in Nat /\ DOMAIN c = 1 .. Len(c) /\ DOMAIN u = 1 .. Len(u)
      /\ DOMAIN t = 1 .. Len(c) + Len(u) /\ Len(u) = Len(s) - 1
      /\ \A i \in 1 .. Len(c) : t[i] = c[i]
      /\ \A i \in Len(c) + 1 .. Len(c) + Len(u) : t[i] = u[i - Len(c)]
  <2>1. DOMAIN u = 1 .. Len(u) /\ Len(u) \in Nat
    BY <1>2, LenProperties
  <2>2. Len(u) = Len(s) - 1
    BY <1>1, HeadTailProperties
  <2> QED
    BY <1>1, <1>2, <2>1, <2>2, OnTop
<1>4. ASSUME NEW i \in DOMAIN t, i > Len(c) PROVE t[i] = s[i - Len(c) + 1]
  <2>1. i \in Len(c) + 1 .. Len(c) + Len(u) /\ i - Len(c) \in 1 .. Len(s) - 1
    BY <1>2, <1>3, <1>4
  <2> QED
    BY <1>2, <1>3, <2>1
<1> QED
  BY <1>1, <1>2, <1>3, <1>4 DEF Shifts

LEMMA ShiftsAll ==
    ASSUME NEW S, NEW s \in Seq(S), NEW c \in Seq(S)
    PROVE  Shifts(c \o s, s, c, 0)
<1>1. PICK t : t = c \o s
  OBVIOUS
<1>2. /\ Len(c) \in Nat /\ Len(s) \in Nat /\ DOMAIN c = 1 .. Len(c) /\ DOMAIN s = 1 .. Len(s)
      /\ DOMAIN t = 1 .. Len(c) + Len(s)
      /\ \A i \in 1 .. Len(c) : t[i] = c[i]
      /\ \A i \in Len(c) + 1 .. Len(c) + Len(s) : t[i] = s[i - Len(c)]
  BY <1>1, OnTop
<1> QED
  BY <1>1, <1>2 DEF Shifts

LEMMA ShiftsBack ==
    ASSUME NEW t, NEW s, NEW c, NEW b \in {0, 1}, Shifts(t, s, c, b)
    PROVE  /\ \A i \in DOMAIN t : i <= Len(c) => i \in DOMAIN c /\ t[i] = c[i]
           /\ \A i \in DOMAIN t : i > Len(c) =>
                 i - Len(c) + b \in DOMAIN s /\ i - Len(c) + b > b /\ t[i] = s[i - Len(c) + b]
           /\ \A j \in DOMAIN s : j > b =>
                 j - b + Len(c) \in DOMAIN t /\ j - b + Len(c) > Len(c) /\ t[j - b + Len(c)] = s[j]
  BY DEF Shifts

\* Pieces that are no new chunks leave the count alone.
LEMMA CountsShift ==
    ASSUME NEW t, NEW s, NEW c, NEW b \in {0, 1}, Shifts(t, s, c, b), NEW n,
           \A i \in DOMAIN c : ~IsNew(c[i]),
           \A i \in DOMAIN s : i <= b => ~IsNew(s[i])
    PROVE  (Counts(s, n) => Counts(t, n)) /\ HowMany(t) = HowMany(s)
<1>1. Len(c) \in Nat /\ DOMAIN t \subseteq Nat \ {0} /\ DOMAIN s \subseteq Nat \ {0}
  BY DEF Shifts
<1> DEFINE to(i) == i - Len(c) + b
           of(j) == j - b + Len(c)
<1>2. \A i \in DOMAIN t : IsNew(t[i]) => to(i) \in DOMAIN s /\ t[i] = s[to(i)] /\ i > Len(c)
  BY <1>1, ShiftsBack
<1>3. \A j \in DOMAIN s : IsNew(s[j]) => of(j) \in DOMAIN t /\ t[of(j)] = s[j] /\ j > b
  BY <1>1, ShiftsBack
<1>4. \A i, k \in DOMAIN t : (i < k <=> to(i) < to(k)) /\ to(i) \in Int
  BY <1>1
<1>5. \A j, k \in DOMAIN s : (j < k <=> of(j) < of(k)) /\ of(j) \in Int
  BY <1>1
<1>6. ASSUME NEW i \in DOMAIN t, IsNew(t[i]) PROVE NewFrom(t, i + 1) = NewFrom(s, to(i) + 1)
  <2>1. ASSUME NEW k \in DOMAIN t, k >= i + 1, IsNew(t[k]) PROVE NewFrom(s, to(i) + 1)
    <3>1. to(k) \in DOMAIN s /\ IsNew(s[to(k)]) /\ to(k) >= to(i) + 1
      BY <1>1, <1>2, <2>1
    <3> QED
      BY <3>1 DEF NewFrom
  <2>2. ASSUME NEW k \in DOMAIN s, k >= to(i) + 1, IsNew(s[k]) PROVE NewFrom(t, i + 1)
    <3>1. of(k) \in DOMAIN t /\ IsNew(t[of(k)]) /\ of(k) >= i + 1
      BY <1>1, <1>3, <2>2
    <3> QED
      BY <3>1 DEF NewFrom
  <2> QED
    BY <2>1, <2>2 DEF NewFrom
<1>7. NewFrom(t, 1) = NewFrom(s, 1)
  <2>1. ASSUME NEW k \in DOMAIN t, IsNew(t[k]) PROVE NewFrom(s, 1)
    <3>1. to(k) \in DOMAIN s /\ IsNew(s[to(k)]) /\ to(k) >= 1
      BY <1>1, <1>2, <2>1
    <3> QED
      BY <3>1 DEF NewFrom
  <2>2. ASSUME NEW k \in DOMAIN s, IsNew(s[k]) PROVE NewFrom(t, 1)
    <3>1. of(k) \in DOMAIN t /\ IsNew(t[of(k)]) /\ of(k) >= 1
      BY <1>1, <1>3, <2>2
    <3> QED
      BY <3>1 DEF NewFrom
  <2> QED
    BY <2>1, <2>2 DEF NewFrom
<1>8. NewTwice(t) = NewTwice(s)
  <2>1. ASSUME NEW i \in DOMAIN t, NEW k \in DOMAIN t, i < k, IsNew(t[i]), IsNew(t[k])
        PROVE  NewTwice(s)
    <3>1. to(i) \in DOMAIN s /\ to(k) \in DOMAIN s /\ to(i) < to(k) /\ IsNew(s[to(i)]) /\ IsNew(s[to(k)])
      BY <1>2, <1>4, <2>1
    <3> QED
      BY <3>1 DEF NewTwice
  <2>2. ASSUME NEW i \in DOMAIN s, NEW k \in DOMAIN s, i < k, IsNew(s[i]), IsNew(s[k])
        PROVE  NewTwice(t)
    <3>1. of(i) \in DOMAIN t /\ of(k) \in DOMAIN t /\ of(i) < of(k) /\ IsNew(t[of(i)]) /\ IsNew(t[of(k)])
      BY <1>3, <1>5, <2>2
    <3> QED
      BY <3>1 DEF NewTwice
  <2> QED
    BY <2>1, <2>2 DEF NewTwice
<1>9. ASSUME Counts(s, n) PROVE Counts(t, n)
  <2>1. ASSUME NEW i \in DOMAIN t, IsNew(t[i])
        PROVE  t[i].data = <<n - (IF NewFrom(t, i + 1) THEN 1 ELSE 0)>>
    <3>1. to(i) \in DOMAIN s /\ t[i] = s[to(i)] /\ NewFrom(t, i + 1) = NewFrom(s, to(i) + 1)
      BY <1>2, <1>6, <2>1
    <3> HIDE DEF to
    <3> QED
      BY <1>9, <2>1, <3>1 DEF Counts
  <2>2. ASSUME NEW i \in DOMAIN t, NEW j \in DOMAIN t, NEW k \in DOMAIN t, i < j, j < k,
               IsNew(t[i]), IsNew(t[j]), IsNew(t[k])
        PROVE  FALSE
    <3>1. /\ to(i) \in DOMAIN s /\ to(j) \in DOMAIN s /\ to(k) \in DOMAIN s
          /\ to(i) < to(j) /\ to(j) < to(k)
          /\ IsNew(s[to(i)]) /\ IsNew(s[to(j)]) /\ IsNew(s[to(k)])
      BY <1>2, <1>4, <2>2
    <3> HIDE DEF to
    <3> QED
      BY <1>9, <3>1 DEF Counts
  <2> QED
    BY <2>1, <2>2 DEF Counts
<1> QED
  BY <1>7, <1>8, <1>9 DEF HowMany

\* The source and what it has pushed are left alone.
SameSource ==
    /\ pushed' = pushed /\ source'.count = source.count
    /\ (r.ended => r'.ended) /\ (Failed => Failed')

LEMMA CountedOn ==
    ASSUME Counted, SameSource, NEW c, NEW b \in {0, 1}, Shifts(stack', stack, c, b),
           \A i \in DOMAIN c : ~IsNew(c[i]),
           \A i \in DOMAIN stack : i <= b => ~IsNew(stack[i])
    PROVE  Counted'
<1>1. /\ Counts(stack, source.count) => Counts(stack', source.count)
      /\ HowMany(stack') = HowMany(stack)
  BY CountsShift
<1>2. \A i \in DOMAIN pushed' : pushed'[i] = i
  BY DEF Counted, SameSource
<1>3. CASE r.ended \/ Failed
  BY <1>2, <1>3 DEF Counted, SameSource
<1>4. CASE ~r.ended /\ ~Failed
  <2>1. Counts(stack', source'.count) /\ Len(pushed') = source'.count - HowMany(stack')
    BY <1>1, <1>4 DEF Counted, SameSource
  <2> QED
    BY <1>2, <2>1 DEF Counted
<1> QED
  BY <1>3, <1>4

\* Nobody new listens, nothing is delivered or written.
SameFor(d) ==
    /\ got'[d] = got[d]
    /\ In(on.data, d)' => In(on.data, d)
    /\ Once(on.data, d) => Once(on.data, d)'
    /\ pipe[d].used => pipe'[d].used
    /\ dest'[d].status = "open" => dest[d].status = "open"
SameFeed ==
    /\ delivered' = delivered /\ got' = got /\ client'.is = client.is
    /\ In(on.data, "user")' => In(on.data, "user")
    /\ \A d \in Dest : SameFor(d)

\* c may take the place of the first b of s: it writes nothing, and what waits
\* to be written stays below what may run meanwhile.
MayReplace(c, s, b, may) ==
    /\ \A i \in DOMAIN c :
          /\ c[i].fn # "ondata"
          /\ c[i].fn = "on data" => i = 1 /\ (c[i].who = "user" => "on data" \in may)
          /\ c[i].fn = "unshift" => "unshift" \in may
    /\ \A i \in DOMAIN s : s[i].fn = "on data" => i <= b
    /\ \/ \A i \in DOMAIN c : c[i].fn \in Hush(may)
       \/ \A i \in DOMAIN s : i > b => s[i].fn # "ondata"

\* What waits below b in s does so in t, further down by k.
Kept(t, s, c, b, k) ==
    /\ DOMAIN t \subseteq Int
    /\ \A i \in DOMAIN t : t[i].fn = "on data" => i \in DOMAIN c /\ t[i] = c[i]
    /\ \A i \in DOMAIN t : t[i].fn = "ondata" => i + k \in DOMAIN s /\ t[i] = s[i + k] /\ i + k > b
    /\ \A j \in DOMAIN s : s[j].fn = "ondata" => j <= b \/ \E i \in DOMAIN t : t[i] = s[j]

LEMMA GivenOn ==
    ASSUME NEW t, NEW s, NEW c, NEW b \in {0, 1}, Shifts(t, s, c, b), NEW may,
           GivenOut(s, may), MayReplace(c, s, b, may)
    PROVE  GivenOut(t, may) /\ \E k \in Int : Kept(t, s, c, b, k)
<1> DEFINE to(i) == i - Len(c) + b
           of(j) == j - b + Len(c)
<1>1. /\ Len(c) \in Nat /\ DOMAIN t \subseteq Nat \ {0} /\ DOMAIN s \subseteq Nat \ {0}
      /\ DOMAIN c = 1 .. Len(c) /\ DOMAIN s = 1 .. Len(s) /\ Len(s) \in Nat
      /\ DOMAIN t = 1 .. Len(c) + Len(s) - b /\ b \in Int
  BY DEF Shifts
<1>2. \A i \in DOMAIN t : \/ i \in DOMAIN c /\ t[i] = c[i]
                          \/ i > Len(c) /\ to(i) \in DOMAIN s /\ to(i) > b /\ t[i] = s[to(i)]
  <2>1. \A i \in DOMAIN t : i <= Len(c) \/ i > Len(c)
    BY <1>1
  <2> QED
    BY <2>1, ShiftsBack
<1>3. \A j \in DOMAIN s : j <= b \/ (of(j) \in DOMAIN t /\ t[of(j)] = s[j])
  <2>1. \A j \in DOMAIN s : j <= b \/ j > b
    BY <1>1
  <2> QED
    BY <2>1, ShiftsBack
<1>4. ASSUME NEW i \in DOMAIN t, t[i].fn = "on data"
      PROVE  i \in DOMAIN c /\ t[i] = c[i]
  <2>1. CASE i > Len(c) /\ to(i) \in DOMAIN s /\ to(i) > b /\ t[i] = s[to(i)]
    <3>1. PICK n \in DOMAIN s : n > b /\ t[i] = s[n]
      BY <2>1
    <3>2. n <= b
      <4>1. \A j \in DOMAIN s : s[j].fn = "on data" => j <= b
        BY DEF MayReplace
      <4> QED
        BY <1>4, <3>1, <4>1
    <3>3. FALSE
      BY <1>1, <3>1, <3>2
    <3> QED
      BY <3>3
  <2> HIDE DEF to
  <2> QED
    BY <1>2, <2>1
<1>5. ASSUME NEW i \in DOMAIN t, t[i].fn = "ondata"
      PROVE  /\ i > Len(c) /\ to(i) \in DOMAIN s /\ t[i] = s[to(i)] /\ to(i) > b
             /\ Writes(t[i]) /\ \A j \in 1 .. i - 1 : t[j].fn \in Hush(may)
  <2>1. i > Len(c) /\ to(i) \in DOMAIN s /\ to(i) > b /\ t[i] = s[to(i)]
    <3>1. ~(i \in DOMAIN c /\ t[i] = c[i])
      BY <1>5 DEF MayReplace
    <3> HIDE DEF to
    <3> QED
      BY <1>2, <3>1
  <2>3. Writes(s[to(i)]) /\ \A j \in 1 .. to(i) - 1 : s[j].fn \in Hush(may)
    <3> HIDE DEF to
    <3> QED
      BY <1>5, <2>1 DEF GivenOut
  <2>4. \A j \in DOMAIN c : c[j].fn \in Hush(may)
    <3> HIDE DEF to
    <3> QED
      BY <1>5, <2>1 DEF MayReplace
  <2>5. ASSUME NEW j \in 1 .. i - 1 PROVE t[j].fn \in Hush(may)
    <3>1. j \in DOMAIN t
      BY <1>1, <2>5
    <3>2. CASE j \in DOMAIN c /\ t[j] = c[j]
      BY <2>4, <3>2
    <3>3. CASE j > Len(c) /\ to(j) \in DOMAIN s /\ to(j) > b /\ t[j] = s[to(j)]
      <4>1. to(j) \in 1 .. to(i) - 1
        BY <1>1, <2>5, <3>1, <3>3
      <4> QED
        BY <2>3, <3>3, <4>1
    <3> HIDE DEF to
    <3> QED
      BY <1>2, <3>1, <3>2, <3>3
  <2> QED
    BY <2>1, <2>3, <2>5
<1>6. ASSUME NEW i \in DOMAIN t, t[i].fn = "unshift" PROVE "unshift" \in may
  <2> HIDE DEF to
  <2> QED
    BY <1>2, <1>6 DEF GivenOut, MayReplace
<1>7. GivenOut(t, may)
  <2>1. ASSUME NEW i \in DOMAIN t, t[i].fn = "on data"
        PROVE  i = 1 /\ (t[i].who = "user" => "on data" \in may)
    BY <1>4, <2>1 DEF MayReplace
  <2> HIDE DEF to
  <2> QED
    BY <1>5, <1>6, <2>1 DEF GivenOut
<1>8. PICK k \in Int : k = b - Len(c)
  BY <1>1
<1>9. \A i \in DOMAIN t : to(i) = i + k
  BY <1>1, <1>8
<1>10. \A i \in DOMAIN t : t[i].fn = "ondata" => i + k \in DOMAIN s /\ t[i] = s[i + k] /\ i + k > b
  BY <1>5, <1>9
<1>11. \A j \in DOMAIN s : s[j].fn = "ondata" => j <= b \/ \E i \in DOMAIN t : t[i] = s[j]
  BY <1>3
<1>12. DOMAIN t \subseteq Int
  BY <1>1
<1>13. Kept(t, s, c, b, k)
  BY <1>4, <1>10, <1>11, <1>12 DEF Kept
<1> QED
  BY <1>7, <1>8, <1>13

\* Of what is being written to d the same is so as before.
LEMMA FedOn ==
    ASSUME NEW d \in Dest, FedInOrder(d), SameFor(d), delivered' = delivered,
           NEW c, NEW b, NEW k \in Int, Kept(stack', stack, c, b, k), ~Joining(c, d),
           \A j \in DOMAIN stack : j <= b => ~Feeds(stack[j], d)
    PROVE  FedInOrder(d)'
<1>1. Fed(stack, d) = Fed(stack', d)
  <2>1. ASSUME NEW i \in DOMAIN stack', Feeds(stack'[i], d) PROVE Fed(stack, d)
    <3>1. i + k \in DOMAIN stack /\ stack'[i] = stack[i + k]
      BY <2>1 DEF Feeds, Kept
    <3> QED
      BY <2>1, <3>1 DEF Fed
  <2>2. ASSUME NEW i \in DOMAIN stack, Feeds(stack[i], d) PROVE Fed(stack', d)
    <3>1. PICK j \in DOMAIN stack' : stack'[j] = stack[i]
      BY <2>2 DEF Feeds, Kept
    <3> QED
      BY <2>2, <3>1 DEF Fed
  <2> QED
    BY <2>1, <2>2 DEF Fed
<1>2. ~Joining(stack', d)
  BY DEF Joining, Joins, Kept
<1>3. ASSUME NEW i \in DOMAIN stack', NEW j \in DOMAIN stack', Feeds(stack'[i], d), Feeds(stack'[j], d)
      PROVE  i = j
  <2>1. PICK x, y : x = i + k /\ y = j + k
    OBVIOUS
  <2>2. x \in DOMAIN stack /\ stack'[i] = stack[x] /\ y \in DOMAIN stack /\ stack'[j] = stack[y]
    BY <1>3, <2>1 DEF Feeds, Kept
  <2>3. i \in Int /\ j \in Int
    BY DEF Kept
  <2>4. x = y
    BY <1>3, <2>2 DEF FedInOrder
  <2>5. \A m, n \in Int : m + k = n + k => m = n
    OBVIOUS
  <2> QED
    BY <2>1, <2>3, <2>4, <2>5, Zenon
<1>4. ASSUME dest'[d].status = "open", NEW i \in DOMAIN stack', Feeds(stack'[i], d)
      PROVE  UpTo(got[d], Len(delivered) - Len(stack'[i].data))
  <2>1. PICK j : j = i + k
    OBVIOUS
  <2>2. dest[d].status = "open" /\ j \in DOMAIN stack /\ stack'[i] = stack[j]
    BY <1>4, <2>1 DEF Feeds, SameFor, Kept
  <2> QED
    BY <1>4, <2>2 DEF FedInOrder
<1>5. In(on.data, d)' => In(on.data, d)
  BY DEF SameFor
<1>6. dest'[d].status = "open" /\ ~Fed(stack', d) /\ In(on.data, d)' => UpTo(got[d], Len(delivered))
  BY <1>1, <1>5 DEF FedInOrder, SameFor
<1>7. ~pipe'[d].used => got[d] = <<>> /\ ~Fed(stack', d) /\ ~In(on.data, d)'
  BY <1>1, <1>5 DEF FedInOrder, SameFor
<1>8. Once(on.data, d)' /\ Row(got[d])
  BY DEF FedInOrder, SameFor
<1>9. got'[d] = got[d]
  BY DEF SameFor
<1> QED
  BY <1>2, <1>3, <1>4, <1>6, <1>7, <1>8, <1>9 DEF FedInOrder

LEMMA FeedsOn ==
    ASSUME Feeding, SameFeed, NEW c, NEW b \in {0, 1}, Shifts(stack', stack, c, b),
           MayReplace(c, stack, b, client.is.may), \A d \in Dest : ~Joining(c, d),
           \A j \in DOMAIN stack : j <= b => stack[j].fn # "ondata"
    PROVE  Feeding'
<1>1. GivenOut(stack, client.is.may)
  BY DEF Feeding
<1>2. PICK t, s : t = stack' /\ s = stack
  OBVIOUS
<1>3. GivenOut(t, client.is.may) /\ \E k \in Int : Kept(t, s, c, b, k)
  <2>1. Shifts(t, s, c, b) /\ GivenOut(s, client.is.may) /\ MayReplace(c, s, b, client.is.may)
    BY <1>1, <1>2
  <2> QED
    BY <2>1, GivenOn
<1>4. ASSUME NEW d \in Dest PROVE FedInOrder(d)'
  <2>1. PICK k \in Int : Kept(stack', stack, c, b, k)
    BY <1>2, <1>3
  <2>2. \A j \in DOMAIN stack : j <= b => ~Feeds(stack[j], d)
    BY DEF Feeds
  <2>3. FedInOrder(d) /\ SameFor(d) /\ delivered' = delivered /\ ~Joining(c, d)
    BY DEF Feeding, SameFeed
  <2> QED
    BY <2>1, <2>2, <2>3, FedOn
<1>5. client'.is = client.is /\ delivered' = delivered /\ got' = got
  BY DEF SameFeed
<1>6. GivenOut(stack, client.is.may)'
  BY <1>2, <1>3, <1>5 DEF GivenOut, Writes
<1>7. In(on.data, "user")' => "on data" \in client'.is.may
  BY <1>5 DEF Feeding, SameFeed
<1> QED
  BY <1>4, <1>5, <1>6, <1>7 DEF Feeding

Special == {"ondata", "on data", "unshift"}
\* Pieces that bring no chunk, write none and put none back, and listen to nothing.
Placid == {f \in Frame : f.fn \notin Special \cup {"push"}}

\* The source and the pushes are left alone.
LEMMA CountedStep ==
    ASSUME Inv, Orderly, stack # <<>>, ~IsNew(Top) \/ r.ended \/ Failed,
           NEW S, NEW c \in Seq(S), Frame \subseteq S, stack' = c \o Tail(stack),
           \A i \in DOMAIN c : ~IsNew(c[i]), SameSource
    PROVE  Counted' /\ Shifts(stack', stack, c, 1)
<1>1. stack \in Seq(S) /\ Top = stack[1]
  BY Topmost, Wider
<1>2. Shifts(stack', stack, c, 1)
  BY <1>1, ShiftsTail
<1>3. CASE r.ended \/ Failed
  BY <1>2, <1>3 DEF Orderly, Counted, SameSource
<1>4. CASE ~IsNew(Top)
  <2>1. \A i \in DOMAIN stack : i <= 1 => i = 1
    BY <1>1, LenProperties
  <2>2. \A i \in DOMAIN stack : i <= 1 => ~IsNew(stack[i])
    BY <1>1, <1>4, <2>1
  <2> QED
    BY <1>2, <2>2, CountedOn DEF Orderly
<1> QED
  BY <1>3, <1>4

\* Of a stack that has such a piece on top.
LEMMA NothingFeeds ==
    ASSUME NEW s, s # <<>>, NEW S, s \in Seq(S), NEW may, GivenOut(s, may), s[1].fn \notin Hush(may)
    PROVE  \A i \in DOMAIN s : i > 1 => s[i].fn # "ondata"
<1>1. DOMAIN s \subseteq Nat
  BY LenProperties
<1>2. ASSUME NEW i \in DOMAIN s, i > 1, s[i].fn = "ondata" PROVE FALSE
  <2>1. 1 \in 1 .. i - 1
    BY <1>1, <1>2
  <2> QED
    BY <1>2, <2>1 DEF GivenOut
<1> QED
  BY <1>2

\* What may replace the top.
LEMMA TopReplaced ==
    ASSUME Inv, stack # <<>>, NEW may, GivenOut(stack, may), NEW c \in Seq(Placid),
           Top.fn \in Hush(may) => \A i \in DOMAIN c : c[i].fn \in Hush(may)
    PROVE  MayReplace(c, stack, 1, may) /\ \A d \in Dest : ~Joining(c, d)
<1>1. /\ stack \in Seq(Frame) /\ Top = stack[1] /\ 1 <= 1
  BY Topmost
<1>2. \A i \in DOMAIN c : c[i].fn \notin Special
  BY EachOf DEF Placid
<1>3. \/ \A i \in DOMAIN c : c[i].fn \in Hush(may)
      \/ \A i \in DOMAIN stack : i > 1 => stack[i].fn # "ondata"
  BY <1>1, NothingFeeds
<1>4. \A i \in DOMAIN stack : stack[i].fn = "on data" => i <= 1
  <2>1. \A i \in DOMAIN stack : stack[i].fn = "on data" => i = 1
    BY DEF GivenOut
  <2> QED
    BY <1>1, <2>1, Zenon
<1>5. \A d \in Dest : ~Joining(c, d)
  BY <1>2 DEF Joining, Joins, Special
<1> QED
  BY <1>2, <1>3, <1>4, <1>5 DEF MayReplace, Special

LEMMA PlainStays == ASSUME client'.is = client.is PROVE Plainly' = Plainly
  BY DEF Plainly, ReadsInData

LEMMA OrderStep ==
    ASSUME Inv, Orderly, stack # <<>>, Top.fn # "ondata", ~IsNew(Top) \/ r.ended \/ Failed,
           NEW c \in Seq(Placid), stack' = c \o Tail(stack),
           Top.fn \in Hush(client.is.may) =>
              \A i \in DOMAIN c : c[i].fn \in Hush(client.is.may),
           SameSource, SameFeed
    PROVE  Orderly'
<1>1. \A i \in DOMAIN c : ~IsNew(c[i])
  BY EachOf DEF Placid, IsNew, IsChunk
<1>2. c \in Seq(Frame)
  <2>1. Placid \subseteq Frame
    BY DEF Placid
  <2> QED
    BY <2>1, Wider
<1>3. Counted' /\ Shifts(stack', stack, c, 1)
  BY <1>1, <1>2, CountedStep
<1>4. ASSUME Plainly PROVE Feeding'
  <2>1. GivenOut(stack, client.is.may) /\ Feeding
    BY <1>4 DEF Orderly, Feeding
  <2>2. MayReplace(c, stack, 1, client.is.may) /\ \A d \in Dest : ~Joining(c, d)
    BY <2>1, TopReplaced
  <2>3. \A i \in DOMAIN stack : i <= 1 => stack[i].fn # "ondata"
    <3>1. \A i \in DOMAIN stack : i <= 1 => i = 1
      BY Topmost, LenProperties
    <3> QED
      BY <3>1, Topmost
  <2> QED
    BY <1>3, <2>1, <2>2, <2>3, FeedsOn
<1>5. Plainly' = Plainly
  BY PlainStays DEF SameFeed
<1> QED
  BY <1>3, <1>4, <1>5 DEF Orderly

\* Steps of the stream's own that only change its state.
Quietly ==
    /\ UNCHANGED World
    /\ (r.ended => r'.ended) /\ (r.destroyed => r'.destroyed) /\ (r.errored => r'.errored)

LEMMA QuietlyFeeds == ASSUME Quietly PROVE SameSource /\ SameFeed
  BY DEF Quietly, World, log, SameSource, SameFeed, SameFor, Failed, In, Once

\* Of these nothing runs while a chunk is being written.
Loud == Pieces \ Hush({"on data"})

LEMMA QuietStep ==
    ASSUME Inv, Orderly, stack # <<>>, Top.fn # "ondata", ~IsNew(Top) \/ r.ended \/ Failed,
           NEW c \in Seq(Placid), stack' = c \o Tail(stack), c = <<>> \/ Top.fn \in Loud, Quietly
    PROVE  Orderly'
<1>1. SameSource /\ SameFeed
  BY QuietlyFeeds
<1>2. Top.fn \in Hush(client.is.may) => c = <<>>
  BY DEF Loud, Hush
<1>3. c = <<>> => DOMAIN c = {}
  OBVIOUS
<1> QED
  BY <1>1, <1>2, <1>3, OrderStep

LEMMA Placids ==
    /\ \A f \in Pieces \ (Special \cup {"push"}) :
          Do(f) \in Placid /\ \A d \in Dest \cup {"user"} : For(f, d) \in Placid
    /\ \A n \in -1 .. 1 : Read(n) \in Placid /\ \A l \in {"flow", "onreadable"} : [Read(n) EXCEPT !.loop = l] \in Placid
    /\ \A n \in {0, 1} : [Do("destroy") EXCEPT !.n = n] \in Placid
    /\ <<>> \in Seq(Placid)
    /\ \A f \in Placid : <<f>> \in Seq(Placid)
    /\ \A f, g \in Placid : <<f, g>> \in Seq(Placid)
    /\ \A a, b \in Seq(Placid) : a \o b \in Seq(Placid)
<1>1. ASSUME NEW f \in Pieces \ (Special \cup {"push"}), NEW d \in Dest \cup {"user"}
      PROVE  Do(f) \in Placid /\ For(f, d) \in Placid
  <2>1. Do(f) \in Frame /\ Do(f).fn = f
    BY Frames
  <2>2. For(f, d) \in Frame /\ For(f, d).fn = f
    <3>1. f \in Pieces
      OBVIOUS
    <3> QED
      BY <3>1, FrameFor
  <2> QED
    BY <2>1, <2>2 DEF Placid
<1>2. ASSUME NEW n \in -1 .. 1, NEW l \in {"flow", "onreadable"}
      PROVE  Read(n) \in Placid /\ [Read(n) EXCEPT !.loop = l] \in Placid
  <2>1. Read(n) \in Frame /\ Read(n).fn = "read"
    BY Frames
  <2>2. [Read(n) EXCEPT !.loop = l] \in Frame /\ [Read(n) EXCEPT !.loop = l].fn = "read"
    BY <2>1 DEF Frame
  <2> QED
    BY <2>1, <2>2 DEF Placid, Special
<1>3. ASSUME NEW n \in {0, 1} PROVE [Do("destroy") EXCEPT !.n = n] \in Placid
  BY DestroyFrames DEF Placid, Special
<1>4. ASSUME NEW f \in Pieces \ (Special \cup {"push"}) PROVE Do(f) \in Placid
  <2>1. "user" \in Dest \cup {"user"}
    OBVIOUS
  <2> QED
    BY <1>1, <2>1
<1> HIDE DEF Placid
<1> QED
  BY <1>1, <1>2, <1>3, <1>4, EmptySeq, ConcatProperties

LEMMA LoudPieces ==
    /\ {"read", "take", "flow", "push", "addChunk", "emitReadable_", "onreadable", "readableAgain",
        "maybeReadMore_", "endReadableNT", "resume_", "resumed", "flowed", "updateReadableListening",
        "ondrain", "unpipe", "unpipe all", "cleanup", "dest closes"} \subseteq Loud
  BY DEF Loud, Hush, Pieces

LEMMA PlacidPieces ==
    {"read", "_read", "take", "data", "flow", "addChunk", "emitReadable", "emitReadable_",
     "onreadable", "readableEmitted", "readableAgain", "maybeReadMore", "maybeReadMore_",
     "endReadable", "endReadableNT", "user", "resume", "resume_", "resumed", "flowed", "pause",
     "off data", "on readable", "off readable", "updateReadableListening", "pipe", "piped",
     "pausePipe", "ondrain", "unpipe", "unpipe all", "cleanup", "onend", "dest closes", "destroy",
     "emitCloseNT"} \subseteq Pieces \ (Special \cup {"push"})
  BY DEF Pieces, Special

LEMMA NotNew == ASSUME Top.fn # "push" PROVE ~IsNew(Top)
  BY DEF IsNew, IsChunk

LEMMA OrderListenerReturns == ASSUME Inv, Orderly, ListenerReturns PROVE Orderly'
<1> USE DEF ListenerReturns, Becomes, Set, Then, World, log, Runs
<1>1. Quietly
  BY DEF Quietly
<1> QED
  BY <1>1, Placids, NotNew, QuietStep

LEMMA OrderEmitReadable == ASSUME Inv, Orderly, EmitReadable PROVE Orderly'
<1> USE DEF EmitReadable, Set, Then, World, log, Runs
<1>1. Quietly
  BY DEF Quietly, Inv, Fields
<1> QED
  BY <1>1, Placids, NotNew, QuietStep

LEMMA OrderEmitReadable_ == ASSUME Inv, Orderly, EmitReadable_ PROVE Orderly'
<1> USE DEF EmitReadable_, EmitsReadable, Becomes, Set, Then, World, log, Runs
<1>1. Quietly
  BY DEF Quietly
<1>2. \E c \in Seq(Placid) : stack' = c \o Tail(stack)
  <2>1. Do("onreadable") \in Placid /\ Do("readableEmitted") \in Placid /\ Do("readableAgain") \in Placid
    BY Placids, PlacidPieces
  <2>2. /\ <<>> \in Seq(Placid) /\ <<Do("onreadable")>> \in Seq(Placid) /\ <<Do("readableAgain")>> \in Seq(Placid)
        /\ <<Do("readableEmitted"), Do("readableAgain")>> \in Seq(Placid)
    BY <2>1, Placids
  <2>3. (IF on.readable THEN <<Do("onreadable")>> ELSE <<>>)
            \o <<Do("readableEmitted"), Do("readableAgain")>> \in Seq(Placid)
    BY <2>2, Placids
  <2> QED
    BY <2>2, <2>3
<1> QED
  BY <1>1, <1>2, LoudPieces, NotNew, QuietStep

LEMMA OrderReadableEmitted == ASSUME Inv, Orderly, ReadableEmitted PROVE Orderly'
<1> USE DEF ReadableEmitted, Becomes, Set, Then, World, log, Runs
<1>1. Quietly
  BY DEF Quietly, Inv, Fields
<1> QED
  BY <1>1, Placids, NotNew, QuietStep

LEMMA OrderReadableAgain == ASSUME Inv, Orderly, ReadableAgain PROVE Orderly'
<1> USE DEF ReadableAgain, Becomes, Set, Then, World, log, Runs
<1>1. Quietly
  BY DEF Quietly, Inv, Fields
<1>2. <<Do("flow")>> \in Seq(Placid)
  BY Placids, PlacidPieces
<1> QED
  BY <1>1, <1>2, LoudPieces, NotNew, QuietStep

LEMMA OrderMaybeReadMore == ASSUME Inv, Orderly, MaybeReadMore PROVE Orderly'
<1> USE DEF MaybeReadMore, Set, Then, World, log, Runs
<1>1. Quietly
  BY DEF Quietly, Inv, Fields
<1> QED
  BY <1>1, Placids, NotNew, QuietStep

LEMMA OrderReadMore == ASSUME Inv, Orderly, ReadMore PROVE Orderly'
<1> USE DEF ReadMore, Becomes, Set, Then, World, log, Runs
<1>1. Quietly
  BY DEF Quietly, Inv, Fields
<1>2. \E c \in Seq(Placid) : stack' = c \o Tail(stack)
  <2> DEFINE g == [Top EXCEPT !.m = Length, !.called = TRUE]
  <2>1. g \in Placid
    <3>1. Top \in Frame /\ Length \in Nat
      BY Topmost, LenProperties DEF Inv, Fields, Length
    <3>2. [Top EXCEPT !.m = Length] \in Frame
      BY <3>1, FrameKept
    <3>3. [[Top EXCEPT !.m = Length] EXCEPT !.called = TRUE] \in Frame
      BY <3>2, FrameKept
    <3>4. g = [[Top EXCEPT !.m = Length] EXCEPT !.called = TRUE] /\ g.fn = "maybeReadMore_"
      BY <3>1 DEF Frame
    <3> HIDE DEF g
    <3> QED
      BY <3>3, <3>4 DEF Placid, Special
  <2> HIDE DEF g
  <2>2. Read(0) \in Placid
    <3>1. 0 \in -1 .. 1
      OBVIOUS
    <3> QED
      BY <3>1, Placids
  <2>3. <<>> \in Seq(Placid) /\ <<Read(0), g>> \in Seq(Placid)
    BY <2>1, <2>2, Placids
  <2> QED
    BY <2>3 DEF g
<1> QED
  BY <1>1, <1>2, LoudPieces, NotNew, QuietStep

LEMMA OrderEndReadable == ASSUME Inv, Orderly, EndReadable PROVE Orderly'
<1> USE DEF EndReadable, Set, Then, World, log, Runs
<1>1. Quietly
  BY DEF Quietly, Inv, Fields
<1> QED
  BY <1>1, Placids, NotNew, QuietStep

LEMMA OrderResume == ASSUME Inv, Orderly, Resume PROVE Orderly'
<1> USE DEF Resume, Set, Then, World, log, Runs
<1>1. Quietly
  BY DEF Quietly, Inv, Fields
<1> QED
  BY <1>1, Placids, NotNew, QuietStep

LEMMA PlacidReads == <<>> \in Seq(Placid) /\ ReadZero \in Seq(Placid)
<1>1. 0 \in -1 .. 1
  OBVIOUS
<1>2. Read(0) \in Placid
  BY <1>1, Placids
<1> QED
  BY <1>2, Placids DEF ReadZero

LEMMA OrderResume_ == ASSUME Inv, Orderly, Resume_ PROVE Orderly'
<1> USE DEF Resume_, Becomes, Set, Then, World, log, Runs
<1>1. Quietly
  BY DEF Quietly
<1>2. ReadZero \o <<Do("resumed")>> \in Seq(Placid)
  <2>1. <<Do("resumed")>> \in Seq(Placid)
    BY Placids, PlacidPieces
  <2> QED
    BY <2>1, PlacidReads, Placids
<1> QED
  BY <1>1, <1>2, LoudPieces, NotNew, QuietStep

LEMMA OrderResumed == ASSUME Inv, Orderly, Resumed PROVE Orderly'
<1> USE DEF Resumed, Becomes, Set, Then, World, log, Runs
<1>1. Quietly
  BY DEF Quietly, Inv, Fields
<1>2. <<Do("flow"), Do("flowed")>> \in Seq(Placid)
  <2>1. Do("flow") \in Placid /\ Do("flowed") \in Placid
    BY Placids, PlacidPieces
  <2> QED
    BY <2>1, Placids
<1> QED
  BY <1>1, <1>2, LoudPieces, NotNew, QuietStep

LEMMA OrderFlowed == ASSUME Inv, Orderly, Flowed PROVE Orderly'
<1> USE DEF Flowed, Becomes, Set, Then, World, log, Runs
<1>1. Quietly
  BY DEF Quietly
<1> QED
  BY <1>1, PlacidReads, LoudPieces, NotNew, QuietStep

LEMMA OrderPause == ASSUME Inv, Orderly, Pause PROVE Orderly'
<1> USE DEF Pause, Becomes, Set, Then, World, log, Runs
<1>1. Quietly
  BY DEF Quietly, Inv, Fields
<1> QED
  BY <1>1, Placids, NotNew, QuietStep

LEMMA OrderDestroy == ASSUME Inv, Orderly, Destroy PROVE Orderly'
<1> USE DEF Destroy, Set, Then, World, log, Runs
<1>1. Quietly
  BY DEF Quietly, Inv, Fields
<1> QED
  BY <1>1, Placids, NotNew, QuietStep

LEMMA OrderFlow == ASSUME Inv, Orderly, Flow PROVE Orderly'
<1> USE DEF Flow, Becomes, Set, Then, World, log, Runs
<1>1. Quietly
  BY DEF Quietly
<1>2. <<>> \in Seq(Placid) /\ <<[Read(NaN) EXCEPT !.loop = "flow"]>> \in Seq(Placid)
  BY NotANumber, Placids
<1> QED
  BY <1>1, <1>2, LoudPieces, NotNew, QuietStep

LEMMA OrderOnreadable == ASSUME Inv, Orderly, Onreadable PROVE Orderly'
<1> USE DEF Onreadable, Becomes, Set, Then, World, log, Runs
<1>1. Quietly
  BY DEF Quietly
<1>2. /\ <<Do("user")>> \in Seq(Placid) /\ <<Read(NaN)>> \in Seq(Placid)
      /\ <<[Read(NaN) EXCEPT !.loop = "onreadable"]>> \in Seq(Placid)
  BY NotANumber, Placids, PlacidPieces
<1> QED
  BY <1>1, <1>2, LoudPieces, NotNew, QuietStep

LEMMA OrderUpdate == ASSUME Inv, Orderly, UpdateReadableListening PROVE Orderly'
<1> USE DEF UpdateReadableListening, Becomes, Set, Then, World, log, Runs
<1>1. Quietly
  BY DEF Quietly, Inv, Fields
<1>2. <<Do("resume")>> \in Seq(Placid) /\ <<>> \in Seq(Placid)
  BY Placids, PlacidPieces
<1> QED
  BY <1>1, <1>2, LoudPieces, NotNew, QuietStep

LEMMA OrderPipeOnDrain == ASSUME Inv, Orderly, PipeOnDrain PROVE Orderly'
<1> USE DEF PipeOnDrain, Becomes, Set, Then, World, log, Runs
<1>1. Quietly
  BY DEF Quietly, Inv, Fields
<1>2. <<Do("flow")>> \in Seq(Placid) /\ <<>> \in Seq(Placid)
  BY Placids, PlacidPieces
<1> QED
  BY <1>1, <1>2, LoudPieces, NotNew, QuietStep

LEMMA PlacidKept ==
    ASSUME NEW g \in Frame, NEW fn \in Pieces \ (Special \cup {"push"}), NEW m \in Nat
    PROVE  /\ [g EXCEPT !.fn = fn] \in Placid /\ [g EXCEPT !.fn = fn, !.m = m] \in Placid
           /\ [g EXCEPT !.fn = fn, !.m = m, !.called = TRUE] \in Placid
           /\ [g EXCEPT !.fn = fn, !.called = TRUE] \in Placid
           /\ [g EXCEPT !.fn = fn, !.loop = "flow"] \in Placid
<1>1. fn \in Pieces /\ fn \notin Special \cup {"push"} /\ "flow" \in {"", "flow", "onreadable"}
  OBVIOUS
<1>2. [g EXCEPT !.fn = fn] \in Frame /\ [g EXCEPT !.fn = fn].fn = fn
  BY <1>1, FrameKept
<1>3. [[g EXCEPT !.fn = fn] EXCEPT !.m = m] \in Frame
  BY <1>2, FrameKept
<1>4. /\ [[[g EXCEPT !.fn = fn] EXCEPT !.m = m] EXCEPT !.called = TRUE] \in Frame
      /\ [[g EXCEPT !.fn = fn] EXCEPT !.called = TRUE] \in Frame
      /\ [[g EXCEPT !.fn = fn] EXCEPT !.loop = "flow"] \in Frame
  BY <1>1, <1>2, <1>3, FrameKept
<1>5. /\ [g EXCEPT !.fn = fn, !.m = m] = [[g EXCEPT !.fn = fn] EXCEPT !.m = m]
      /\ [g EXCEPT !.fn = fn, !.m = m, !.called = TRUE]
            = [[[g EXCEPT !.fn = fn] EXCEPT !.m = m] EXCEPT !.called = TRUE]
      /\ [g EXCEPT !.fn = fn, !.called = TRUE] = [[g EXCEPT !.fn = fn] EXCEPT !.called = TRUE]
      /\ [g EXCEPT !.fn = fn, !.loop = "flow"] = [[g EXCEPT !.fn = fn] EXCEPT !.loop = "flow"]
  BY DEF Frame
<1>6. /\ [g EXCEPT !.fn = fn, !.m = m].fn = fn /\ [g EXCEPT !.fn = fn, !.m = m, !.called = TRUE].fn = fn
      /\ [g EXCEPT !.fn = fn, !.called = TRUE].fn = fn /\ [g EXCEPT !.fn = fn, !.loop = "flow"].fn = fn
  BY DEF Frame
<1> QED
  BY <1>1, <1>2, <1>3, <1>4, <1>5, <1>6 DEF Placid

LEMMA OrderStartRead == ASSUME Inv, Orderly, StartRead PROVE Orderly'
<1> DEFINE m == HowMuchToRead(Top.n)
           g == [Top EXCEPT !.fn = "take", !.m = m]
           h == [Top EXCEPT !.fn = "take", !.m = m, !.called = TRUE]
<1>1. /\ stack # <<>> /\ Top.fn = "read" /\ Top \in Frame /\ r.buffer \in Seq(Nat)
      /\ Top.n \in -1 .. 1
  BY Topmost DEF StartRead, Runs, Inv, Fields, Frame
<1>2. Quietly
  BY DEF StartRead, Becomes, Set, Quietly, World, log, Inv, Fields
<1>3. m \in Nat
  <2>1. m \in 0 .. Len(r.buffer) /\ Len(r.buffer) \in Nat
    BY <1>1, HowMuch
  <2> QED
    BY <2>1
<1>4. g \in Placid /\ h \in Placid
  BY <1>1, <1>3, PlacidPieces, PlacidKept
<1>5. \/ stack' = <<Do("endReadable")>> \o Tail(stack) \/ stack' = <<Do("emitReadable")>> \o Tail(stack)
      \/ stack' = <<>> \o Tail(stack) \/ stack' = <<g>> \o Tail(stack)
      \/ stack' = <<Do("_read"), h>> \o Tail(stack)
  BY ZenonT(40) DEF StartRead, Becomes, Then
<1> HIDE DEF m, g, h
<1>6. /\ <<>> \in Seq(Placid) /\ <<Do("endReadable")>> \in Seq(Placid)
      /\ <<Do("emitReadable")>> \in Seq(Placid) /\ <<g>> \in Seq(Placid)
      /\ <<Do("_read"), h>> \in Seq(Placid)
  BY <1>4, Placids, PlacidPieces
<1>7. \E c \in Seq(Placid) : stack' = c \o Tail(stack)
  BY <1>5, <1>6
<1> QED
  BY <1>1, <1>2, <1>7, LoudPieces, NotNew, QuietStep

LEMMA OrderTake == ASSUME Inv, Orderly, Take PROVE Orderly'
<1> DEFINE m    == IF Top.called /\ ~r.reading THEN HowMuchToRead(Top.n) ELSE Top.m
           some == Length > 0 /\ m > 0
           rest == IF some THEN SubSeq(r.buffer, m + 1, Length) ELSE r.buffer
           f    == [Do("data") EXCEPT !.data = SubSeq(r.buffer, 1, m), !.loop = Top.loop]
           l    == IF some /\ Top.loop # "" THEN <<Do(Top.loop)>> ELSE <<>>
           d    == IF some THEN <<f>> ELSE <<>>
           e    == <<Do("endReadable")>>
<1>1. /\ stack # <<>> /\ Top.fn = "take" /\ Top \in Frame /\ r.buffer \in Seq(Nat)
      /\ Top.n \in -1 .. 1 /\ Top.m \in Nat /\ Top.m <= Len(r.buffer)
      /\ Top.loop \in {"", "flow", "onreadable"}
  BY Topmost DEF Take, Runs, Inv, Fields, Frame, Fits, View
<1>2. Quietly
  <2>1. UNCHANGED World
    BY DEF Take, Becomes
  <2>2. \E sync, need, then :
           r' = [[r EXCEPT !.sync = sync, !.buffer = rest, !.needReadable = need,
                           !.awaiting = IF some THEN {} ELSE @]
                    EXCEPT !.needReadable = then]
    BY TakeSets
  <2> HIDE DEF rest, some
  <2>3. r'.ended = r.ended /\ r'.destroyed = r.destroyed /\ r'.errored = r.errored
    BY <2>2 DEF Inv, Fields
  <2> QED
    BY <2>1, <2>3 DEF Quietly
<1>3. \/ stack' = (e \o d \o l) \o Tail(stack)
      \/ stack' = (<<>> \o d \o l) \o Tail(stack)
  BY DEF Take, Becomes, Then
<1>4. m \in 0 .. Len(r.buffer) /\ Len(r.buffer) \in Nat
  <2>1. Len(r.buffer) \in Nat /\ HowMuchToRead(Top.n) \in 0 .. Len(r.buffer)
    BY <1>1, HowMuch
  <2>2. \A x, y \in Nat : x <= y => x \in 0 .. y
    OBVIOUS
  <2>3. Top.m \in 0 .. Len(r.buffer)
    BY <1>1, <2>1, <2>2
  <2> QED
    BY <2>1, <2>3
<1>5. some => f \in Placid
  <2>1. "data" \in Pieces /\ (some => SubSeq(r.buffer, 1, m) \in Seq(Nat))
    BY <1>1, <1>4, Split DEF Pieces
  <2>2. Do("data") \in Frame
    BY <2>1, Frames
  <2>3. some => [Do("data") EXCEPT !.data = SubSeq(r.buffer, 1, m)] \in Frame
    BY <2>1, <2>2, FrameKept
  <2>4. some => [[Do("data") EXCEPT !.data = SubSeq(r.buffer, 1, m)] EXCEPT !.loop = Top.loop] \in Frame
    BY <1>1, <2>3, FrameKept
  <2>5. f = [[Do("data") EXCEPT !.data = SubSeq(r.buffer, 1, m)] EXCEPT !.loop = Top.loop] /\ f.fn = "data"
    BY DEF Do
  <2> HIDE DEF f
  <2> QED
    BY <2>4, <2>5 DEF Placid, Special
<1> HIDE DEF f
<1>6. d \in Seq(Placid) /\ e \in Seq(Placid) /\ <<>> \in Seq(Placid)
  BY <1>5, Placids, PlacidPieces
<1>7. l \in Seq(Placid)
  <2>1. Do("flow") \in Placid /\ Do("onreadable") \in Placid
    BY Placids, PlacidPieces
  <2> QED
    BY <1>1, <2>1, Placids
<1> HIDE DEF some, l, d, e
<1>8. \E c \in Seq(Placid) : stack' = c \o Tail(stack)
  <2>1. (e \o d) \o l \in Seq(Placid) /\ (<<>> \o d) \o l \in Seq(Placid)
    <3>1. e \o d \in Seq(Placid) /\ <<>> \o d \in Seq(Placid)
      BY <1>6, Placids
    <3> QED
      BY <1>7, <3>1, Placids
  <2> QED
    BY <1>3, <2>1
<1> QED
  BY <1>1, <1>2, <1>8, LoudPieces, NotNew, QuietStep

LEMMA OrderAddChunk == ASSUME Inv, Orderly, AddChunk PROVE Orderly'
<1> USE DEF AddChunk, AddsChunk, Becomes, Set, Then, World, log, Runs
<1>1. Quietly
  BY DEF Quietly, Inv, Fields
<1>2. <<Do("maybeReadMore")>> \in Seq(Placid) /\ <<Do("emitReadable")>> \in Seq(Placid) /\ <<>> \in Seq(Placid)
  BY Placids, PlacidPieces
<1>3. <<[Top EXCEPT !.fn = "data", !.loop = "flow"], Do("maybeReadMore")>> \in Seq(Placid)
  <2>1. Top \in Frame /\ Do("maybeReadMore") \in Placid
    BY Topmost, Placids, PlacidPieces
  <2>2. [Top EXCEPT !.fn = "data", !.loop = "flow"] \in Placid
    BY <2>1, PlacidPieces, PlacidKept
  <2> QED
    BY <2>1, <2>2, Placids
<1>4. (IF r.needReadable THEN <<Do("emitReadable")>> ELSE <<>>) \o <<Do("maybeReadMore")>> \in Seq(Placid)
  BY <1>2, Placids
<1>5. \E c \in Seq(Placid) : stack' = c \o Tail(stack)
  BY <1>3, <1>4
<1> QED
  BY <1>1, <1>5, LoudPieces, NotNew, QuietStep

LEMMA OrderDestCloses == ASSUME Inv, Orderly, DestCloses PROVE Orderly'
<1> USE DEF DestCloses, Becomes, Set, Then, World, log, Runs
<1>1. Quietly
  BY DEF Quietly
<1>2. <<For("unpipe", Top.who)>> \in Seq(Placid)
  <2>1. Top.who \in Dest
    BY Topmost DEF Fits, OfDest
  <2> QED
    BY <2>1, Placids, PlacidPieces
<1> QED
  BY <1>1, <1>2, LoudPieces, NotNew, QuietStep

LEMMA OrderUnpipe == ASSUME Inv, Orderly, Unpipe PROVE Orderly'
<1> USE DEF Unpipe, Becomes, Set, Then, World, log, Runs
<1>1. Quietly
  BY DEF Quietly, Inv, Fields
<1>2. /\ <<>> \in Seq(Placid)
      /\ (IF RemoveFirst(r.pipes, Top.who) = <<>> THEN <<Do("pause")>> ELSE <<>>)
            \o <<For("cleanup", Top.who)>> \in Seq(Placid)
  <2>1. Top.who \in Dest
    BY Topmost DEF Fits, OfDest
  <2>2. /\ <<For("cleanup", Top.who)>> \in Seq(Placid) /\ <<Do("pause")>> \in Seq(Placid)
        /\ <<>> \in Seq(Placid)
    BY <2>1, Placids, PlacidPieces
  <2> QED
    BY <2>2, Placids
<1>3. \E c \in Seq(Placid) : stack' = c \o Tail(stack)
  BY <1>2
<1> QED
  BY <1>1, <1>3, LoudPieces, NotNew, QuietStep

LEMMA OrderUnpipeAll == ASSUME Inv, Orderly, UnpipeAll PROVE Orderly'
<1> DEFINE each == [i \in DOMAIN r.pipes |-> For("cleanup", r.pipes[i])]
<1> USE DEF UnpipeAll, Becomes, Set, Then, World, log, Runs
<1>1. Quietly
  BY DEF Quietly, Inv, Fields
<1>2. each \in Seq(Placid)
  <2>1. /\ Len(r.pipes) \in Nat /\ DOMAIN r.pipes = 1 .. Len(r.pipes)
        /\ \A i \in 1 .. Len(r.pipes) : r.pipes[i] \in Dest
    BY LenProperties, ElementOfSeq DEF Inv, Fields
  <2>2. \A i \in DOMAIN r.pipes : For("cleanup", r.pipes[i]) \in Placid
    BY <2>1, Placids, PlacidPieces
  <2>3. each \in [1 .. Len(r.pipes) -> Placid]
    BY <2>1, <2>2
  <2> HIDE DEF each
  <2> QED
    BY <2>1, <2>3, Mapped
<1>3. \/ stack' = <<>> \o Tail(stack)
      \/ stack' = (<<Do("pause")>> \o each) \o Tail(stack)
  OBVIOUS
<1> HIDE DEF each
<1>4. \E c \in Seq(Placid) : stack' = c \o Tail(stack)
  <2>1. <<>> \in Seq(Placid) /\ <<Do("pause")>> \in Seq(Placid)
    BY Placids, PlacidPieces
  <2>2. <<Do("pause")>> \o each \in Seq(Placid)
    BY <1>2, <2>1, Placids
  <2> QED
    BY <1>3, <2>1, <2>2
<1> QED
  BY <1>1, <1>4, LoudPieces, NotNew, QuietStep

LEMMA PlacidOnes ==
    /\ <<>> \in Seq(Placid) /\ DOMAIN <<>> = {}
    /\ \A f \in Placid : <<f>> \in Seq(Placid) /\ DOMAIN <<f>> = {1} /\ <<f>>[1] = f
<1>1. <<>> \in Seq(Placid) /\ \A f \in Placid : <<f>> \in Seq(Placid)
  BY Placids
<1>2. DOMAIN <<>> = {} /\ \A f : DOMAIN <<f>> = {1} /\ <<f>>[1] = f
  OBVIOUS
<1> QED
  BY <1>1, <1>2

\* Of those that listen or are piped to at most somebody is taken away.
LEMMA RemovedFeeds ==
    ASSUME Inv, NEW w, on'.data = RemoveFirst(on.data, w),
           UNCHANGED <<delivered, got, client, dest>>,
           \A d \in Dest : pipe[d].used => pipe'[d].used
    PROVE  SameFeed
<1>1. on.data \in Seq(Dest \cup {"user"})
  BY DEF Inv, Heard
<1>2. ASSUME NEW x
      PROVE  (In(on.data, x)' => In(on.data, x)) /\ (Once(on.data, x) => Once(on.data, x)')
  <2>1. /\ In(RemoveFirst(on.data, w), x) => In(on.data, x)
        /\ Once(on.data, x) => Once(RemoveFirst(on.data, w), x)
    BY <1>1, OneRemoved
  <2>2. In(on.data, x)' <=> In(RemoveFirst(on.data, w), x)
    BY DEF In
  <2>3. Once(on.data, x)' <=> Once(RemoveFirst(on.data, w), x)
    BY DEF Once
  <2> QED
    BY <2>1, <2>2, <2>3
<1> QED
  BY <1>2 DEF SameFeed, SameFor

LEMMA KeptFeeds ==
    ASSUME on'.data = on.data, UNCHANGED <<delivered, got, client>>,
           \A d \in Dest : /\ pipe[d].used => pipe'[d].used
                           /\ dest'[d].status = "open" => dest[d].status = "open"
    PROVE  SameFeed
  BY DEF SameFeed, SameFor, In, Once

LEMMA OrderOffData == ASSUME Inv, Orderly, OffData PROVE Orderly'
<1> USE DEF OffData, Then, Runs, log
<1>1. on'.data = RemoveFirst(on.data, Top.who)
  BY DEF Inv, Heard
<1>2. SameFeed
  BY <1>1, RemovedFeeds
<1>3. SameSource
  BY DEF SameSource, Failed
<1>4. <<>> \in Seq(Placid) /\ DOMAIN <<>> = {}
  BY PlacidOnes
<1> QED
  BY <1>2, <1>3, <1>4, NotNew, OrderStep

LEMMA OrderCleanup == ASSUME Inv, Orderly, Cleanup PROVE Orderly'
<1> USE DEF Cleanup, CleansUp, Then, Runs, log
<1>1. Top.who \in Dest
  BY Topmost DEF Fits, OfDest
<1>2. on'.data = RemoveFirst(on.data, Top.who)
  BY DEF Inv, Heard
<1>3. \A d \in Dest : pipe'[d].used = pipe[d].used
  BY <1>1 DEF Inv, PipesFit
<1>4. SameFeed
  BY <1>2, <1>3, RemovedFeeds
<1>5. SameSource
  BY DEF SameSource, Failed
<1>6. <<>> \in Seq(Placid) /\ <<For("ondrain", Top.who)>> \in Seq(Placid)
  BY <1>1, Placids, PlacidPieces
<1>7. Top.fn \notin Hush(client.is.may)
  BY DEF Hush
<1>8. \E c \in Seq(Placid) : stack' = c \o Tail(stack)
  BY <1>6
<1> QED
  BY <1>4, <1>5, <1>7, <1>8, NotNew, OrderStep

LEMMA OrderEndReadableNT == ASSUME Inv, Orderly, EndReadableNT PROVE Orderly'
<1> DEFINE each == [i \in DOMAIN on.end |-> For("onend", on.end[i])]
<1>1. stack # <<>> /\ Top.fn = "endReadableNT"
      /\ UNCHANGED <<ticks, on, pipe, dest, source, client, pushed, delivered, got>>
  BY DEF EndReadableNT, EmitsEnd, Runs, Becomes, World, log
<1>2. SameFeed
  BY <1>1, KeptFeeds
<1>3. SameSource
  <2>1. r' = r \/ r' = [r EXCEPT !.endEmitted = TRUE]
    BY DEF EndReadableNT, EmitsEnd, Becomes, Set
  <2> QED
    BY <1>1, <2>1 DEF SameSource, Failed, Inv, Fields
<1>4. stack' = <<>> \o Tail(stack) \/ stack' = (each \o <<Do("user"), Do("destroy")>>) \o Tail(stack)
  BY DEF EndReadableNT, EmitsEnd, Becomes, Then
<1>5. each \in Seq(Placid)
  <2>1. on.end \in Seq(Dest) /\ DOMAIN on.end = 1 .. Len(on.end) /\ Len(on.end) \in Nat
    BY LenProperties DEF Inv, Heard
  <2>2. \A i \in DOMAIN on.end : on.end[i] \in Dest
    BY <2>1, EachOf
  <2>3. \A i \in DOMAIN on.end : For("onend", on.end[i]) \in Placid
    BY <2>2, Placids, PlacidPieces
  <2>4. each \in [1 .. Len(on.end) -> Placid]
    BY <2>1, <2>3
  <2> HIDE DEF each
  <2> QED
    BY <2>1, <2>4, Mapped
<1>6. <<Do("user"), Do("destroy")>> \in Seq(Placid) /\ <<>> \in Seq(Placid)
  <2>1. Do("user") \in Placid /\ Do("destroy") \in Placid
    BY Placids, PlacidPieces
  <2> QED
    BY <2>1, Placids
<1> HIDE DEF each
<1>7. \E c \in Seq(Placid) : stack' = c \o Tail(stack)
  BY <1>4, <1>5, <1>6, Placids
<1>8. Top.fn \notin Hush(client.is.may)
  BY <1>1 DEF Hush
<1> QED
  BY <1>1, <1>2, <1>3, <1>7, <1>8, NotNew, OrderStep

LEMMA OrderEmitClose == ASSUME Inv, Orderly, EmitClose PROVE Orderly'
<1> USE DEF EmitClose, Set, Then, Runs, log
<1>1. SameFeed
  BY KeptFeeds
<1>2. SameSource
  BY DEF SameSource, Failed, Inv, Fields
<1>3. <<>> \in Seq(Placid) /\ DOMAIN <<>> = {}
  BY PlacidOnes
<1> QED
  BY <1>1, <1>2, <1>3, NotNew, OrderStep

LEMMA OrderOnend == ASSUME Inv, Orderly, Onend PROVE Orderly'
<1> USE DEF Onend, Then, Runs, log
<1>1. \A d \in Dest : dest'[d].status = "open" => dest[d].status = "open"
  <2>1. Top.who \in Dest
    BY Topmost DEF Fits, OfDest
  <2> QED
    BY <2>1
<1>2. SameFeed
  BY <1>1, KeptFeeds
<1>3. SameSource
  BY DEF SameSource, Failed
<1>4. <<>> \in Seq(Placid) /\ DOMAIN <<>> = {}
  BY PlacidOnes
<1> QED
  BY <1>2, <1>3, <1>4, NotNew, OrderStep

LEMMA OrderSourceKeeps == ASSUME Inv, Orderly, SourceKeeps PROVE Orderly'
<1> USE DEF SourceKeeps, Then, Runs, log
<1>1. SameFeed
  BY KeptFeeds
<1>2. SameSource
  BY DEF SameSource, Failed, Inv, Others
<1>3. <<>> \in Seq(Placid) /\ DOMAIN <<>> = {}
  BY PlacidOnes
<1> QED
  BY <1>1, <1>2, <1>3, NotNew, OrderStep

LEMMA OrderOffReadable == ASSUME Inv, Orderly, OffReadable PROVE Orderly'
<1> USE DEF OffReadable, Then, Runs, log
<1>1. SameFeed
  BY KeptFeeds DEF Inv, Heard
<1>2. SameSource
  BY DEF SameSource, Failed
<1>3. <<>> \in Seq(Placid) /\ DOMAIN <<>> = {}
  BY PlacidOnes
<1> QED
  BY <1>1, <1>2, <1>3, NotNew, OrderStep

\* What is hushed with the top.
LEMMA HushedBy ==
    ASSUME NEW fn \in Hush(client.is.may), NEW g, g \in Hush({"on data"}),
           fn \notin {"ondata", "pausePipe", "pause"}
    PROVE  g \in Hush(client.is.may)
  BY DEF Hush

LEMMA OrderOnReadable == ASSUME Inv, Orderly, OnReadable PROVE Orderly'
<1> USE DEF OnReadable, Then, Set, Runs, log
<1>1. SameFeed
  BY KeptFeeds DEF Inv, Heard
<1>2. SameSource
  BY DEF SameSource, Failed, Inv, Fields
<1> DEFINE f == Do("emitReadable")
<1>3. stack' = <<>> \o Tail(stack) \/ stack' = <<f>> \o Tail(stack)
  OBVIOUS
<1>4. f \in Placid /\ f.fn = "emitReadable"
  BY Placids, PlacidPieces DEF Do
<1>5. ASSUME Top.fn \in Hush(client.is.may) PROVE f.fn \in Hush(client.is.may)
  BY <1>4, <1>5, HushedBy DEF Hush
<1> HIDE DEF f
<1>6. <<>> \in Seq(Placid) /\ DOMAIN <<>> = {} /\ <<f>> \in Seq(Placid)
      /\ DOMAIN <<f>> = {1} /\ <<f>>[1] = f
  BY <1>4, PlacidOnes
<1> QED
  BY <1>1, <1>2, <1>3, <1>5, <1>6, NotNew, OrderStep

LEMMA OrderPiped == ASSUME Inv, Orderly, Piped PROVE Orderly'
<1> USE DEF Piped, Becomes, Then, Set, Runs, World, log
<1>1. Quietly
  BY DEF Quietly
<1>2. SameSource /\ SameFeed
  BY <1>1, QuietlyFeeds
<1> DEFINE f == Do("resume")
           g == For("pausePipe", Top.who)
<1>3. stack' = <<>> \o Tail(stack) \/ stack' = <<f>> \o Tail(stack) \/ stack' = <<g>> \o Tail(stack)
  OBVIOUS
<1>4. f \in Placid /\ f.fn = "resume" /\ g \in Placid /\ g.fn = "pausePipe"
  <2>1. Top.who \in Dest
    BY Topmost DEF Fits, OfDest
  <2> QED
    BY <2>1, Placids, PlacidPieces DEF For, Do
<1>5. ASSUME Top.fn \in Hush(client.is.may)
      PROVE  f.fn \in Hush(client.is.may) /\ g.fn \in Hush(client.is.may)
  BY <1>4, <1>5, HushedBy DEF Hush
<1> HIDE DEF f, g
<1>6. /\ <<>> \in Seq(Placid) /\ DOMAIN <<>> = {}
      /\ \A x \in {f, g} : <<x>> \in Seq(Placid) /\ DOMAIN <<x>> = {1} /\ <<x>>[1] = x
  BY <1>4, PlacidOnes
<1> QED
  BY <1>2, <1>3, <1>5, <1>6, NotNew, OrderStep

LEMMA OrderPausePipe == ASSUME Inv, Orderly, PausePipe PROVE Orderly'
<1> USE DEF PausePipe, Then, Set, Runs, log
<1>1. Top.who \in Dest
  BY Topmost DEF Fits, OfDest
<1>2. \A d \in Dest : pipe'[d].used = pipe[d].used
  BY <1>1 DEF Inv, PipesFit
<1>3. SameFeed
  BY <1>2, KeptFeeds
<1>4. SameSource
  BY DEF SameSource, Failed, Inv, Fields
<1> DEFINE f == Do("pause")
<1>5. stack' = <<>> \o Tail(stack) \/ stack' = <<f>> \o Tail(stack)
  OBVIOUS
<1>6. f \in Placid /\ f.fn \in Hush(client.is.may)
  BY Placids, PlacidPieces DEF Do, Hush
<1> HIDE DEF f
<1>7. <<>> \in Seq(Placid) /\ DOMAIN <<>> = {} /\ <<f>> \in Seq(Placid)
      /\ DOMAIN <<f>> = {1} /\ <<f>>[1] = f
  BY <1>6, PlacidOnes
<1> QED
  BY <1>3, <1>4, <1>5, <1>6, <1>7, NotNew, OrderStep

\* The first new chunk of two, or the only one, is taken from the stack.
LEMMA CountsPop ==
    ASSUME NEW t, NEW s, NEW c, Shifts(t, s, c, 1), NEW n \in Nat, Counts(s, n),
           IsNew(s[1]), \A i \in DOMAIN c : ~IsNew(c[i])
    PROVE  /\ Counts(t, n) /\ s[1].data = <<n - HowMany(t)>>
           /\ HowMany(t) \in {0, 1} /\ HowMany(s) = HowMany(t) + 1
<1> DEFINE to(i) == i - Len(c) + 1
           of(j) == j - 1 + Len(c)
<1>1. /\ Len(c) \in Nat /\ DOMAIN t \subseteq Nat \ {0} /\ DOMAIN s \subseteq Nat \ {0} /\ 1 \in DOMAIN s
      /\ DOMAIN s = 1 .. Len(s) /\ Len(s) \in Nat
  BY DEF Shifts
<1>2. \A i \in DOMAIN t : IsNew(t[i]) => to(i) \in DOMAIN s /\ t[i] = s[to(i)] /\ to(i) > 1
  <2>1. \A i \in DOMAIN t : i <= Len(c) \/ i > Len(c)
    BY <1>1
  <2> QED
    BY <2>1, ShiftsBack
<1>3. \A j \in DOMAIN s : j > 1 /\ IsNew(s[j]) => of(j) \in DOMAIN t /\ t[of(j)] = s[j] /\ of(j) >= 1
  <2>1. \A j \in DOMAIN s : j > 1 => of(j) \in DOMAIN t /\ t[of(j)] = s[j]
    BY ShiftsBack
  <2> QED
    BY <1>1, <2>1
<1>4. \A i, k \in DOMAIN t : i < k => to(i) < to(k)
  BY <1>1
<1>5. \A i \in DOMAIN t : to(i) \in Int
  BY <1>1
<1> HIDE DEF to, of
<1>6. NewFrom(t, 1) = NewFrom(s, 2)
  <2>1. ASSUME NEW k \in DOMAIN t, IsNew(t[k]) PROVE NewFrom(s, 2)
    <3>1. to(k) \in DOMAIN s /\ IsNew(s[to(k)]) /\ to(k) >= 2
      BY <1>1, <1>2, <2>1
    <3> QED
      BY <3>1 DEF NewFrom
  <2>2. ASSUME NEW k \in DOMAIN s, k >= 2, IsNew(s[k]) PROVE NewFrom(t, 1)
    <3>1. of(k) \in DOMAIN t /\ IsNew(t[of(k)]) /\ of(k) >= 1
      BY <1>1, <1>3, <2>2
    <3> QED
      BY <3>1 DEF NewFrom
  <2> QED
    BY <2>1, <2>2 DEF NewFrom
<1>7. \A i, k \in DOMAIN s : 1 < i /\ i < k => ~(IsNew(s[i]) /\ IsNew(s[k]))
  BY <1>1 DEF Counts
<1>8. \A i, k \in DOMAIN t : i < k => ~(IsNew(t[i]) /\ IsNew(t[k]))
  <2> SUFFICES ASSUME NEW i \in DOMAIN t, NEW k \in DOMAIN t, i < k, IsNew(t[i]), IsNew(t[k])
               PROVE  FALSE
    OBVIOUS
  <2>1. /\ to(i) \in DOMAIN s /\ to(k) \in DOMAIN s /\ 1 < to(i) /\ to(i) < to(k)
        /\ IsNew(s[to(i)]) /\ IsNew(s[to(k)])
    BY <1>1, <1>2, <1>4
  <2> QED
    BY <1>7, <2>1
<1>9. ~NewTwice(t)
  BY <1>8 DEF NewTwice
<1>10. NewFrom(s, 1) /\ (NewTwice(s) <=> NewFrom(s, 2))
  <2>1. NewFrom(s, 1)
    BY <1>1 DEF NewFrom
  <2>2. ASSUME NEW i \in DOMAIN s, NEW k \in DOMAIN s, i < k, IsNew(s[k]) PROVE NewFrom(s, 2)
    <3>1. k >= 2
      BY <1>1, <2>2
    <3> QED
      BY <2>2, <3>1 DEF NewFrom
  <2>3. ASSUME NEW k \in DOMAIN s, k >= 2, IsNew(s[k]) PROVE NewTwice(s)
    <3>1. 1 < k
      BY <1>1, <2>3
    <3> QED
      BY <1>1, <2>3, <3>1 DEF NewTwice
  <2> QED
    BY <2>1, <2>2, <2>3 DEF NewTwice, NewFrom
<1>11. s[1].data = <<n - (IF NewFrom(s, 2) THEN 1 ELSE 0)>>
  <2>1. 1 + 1 = 2
    OBVIOUS
  <2> QED
    BY <1>1, <2>1 DEF Counts
<1>12. Counts(t, n)
  <2>1. ASSUME NEW i \in DOMAIN t, IsNew(t[i])
        PROVE  t[i].data = <<n - (IF NewFrom(t, i + 1) THEN 1 ELSE 0)>>
    <3>1. to(i) \in DOMAIN s /\ t[i] = s[to(i)] /\ to(i) > 1 /\ IsNew(s[to(i)])
      BY <1>2, <2>1
    <3>2. ~NewFrom(s, to(i) + 1)
      <4> SUFFICES ASSUME NEW k \in DOMAIN s, k >= to(i) + 1, IsNew(s[k]) PROVE FALSE
        BY DEF NewFrom
      <4>1. to(i) < k
        BY <1>1, <1>5
      <4> QED
        BY <1>7, <3>1, <4>1
    <3>3. ~NewFrom(t, i + 1)
      <4> SUFFICES ASSUME NEW k \in DOMAIN t, k >= i + 1, IsNew(t[k]) PROVE FALSE
        BY DEF NewFrom
      <4>1. i < k
        BY <1>1
      <4> QED
        BY <1>8, <2>1, <4>1
    <3>4. s[to(i)].data = <<n - (IF NewFrom(s, to(i) + 1) THEN 1 ELSE 0)>>
      BY <3>1 DEF Counts
    <3> QED
      BY <3>1, <3>2, <3>3, <3>4
  <2> QED
    BY <1>8, <2>1 DEF Counts
<1> QED
  BY <1>6, <1>9, <1>10, <1>11, <1>12 DEF HowMany

LEMMA OrderPush == ASSUME Inv, Orderly, Push PROVE Orderly'
<1>1. /\ stack # <<>> /\ Top.fn = "push" /\ Top \in Frame /\ Top.data \in Seq(Nat)
      /\ UNCHANGED <<ticks, on, pipe, dest, source, client, delivered, got, emitted>>
  BY Topmost DEF Push, Runs, Becomes, World, log, Frame
<1>2. Top.fn \in Loud /\ Top.fn # "ondata" /\ Top.fn \notin Hush(client.is.may)
  BY <1>1, LoudPieces DEF Hush
<1>3. (r.ended => r'.ended) /\ (r.destroyed => r'.destroyed) /\ (r.errored => r'.errored)
  BY DEF Push, Becomes, Set, Inv, Fields
<1>4. \/ /\ pushed' = pushed /\ \E c \in Seq(Placid) : stack' = c \o Tail(stack)
         /\ ~IsNew(Top) \/ r.ended \/ Failed
      \/ /\ pushed' = pushed \o Top.data /\ stack' = <<[Top EXCEPT !.fn = "addChunk"]>> \o Tail(stack)
         /\ IsNew(Top) /\ ~r.ended /\ ~Failed
         /\ r' = [r EXCEPT !.reading = FALSE]
  <2>1. /\ <<>> \in Seq(Placid) /\ <<Do("emitReadable")>> \in Seq(Placid)
        /\ <<Do("emitReadable_")>> \in Seq(Placid) /\ <<Do("maybeReadMore")>> \in Seq(Placid)
        /\ <<[Do("destroy") EXCEPT !.n = 1]>> \in Seq(Placid)
    BY Placids, PlacidPieces
  <2>2. CASE Top.data = <<>>
    <3>1. /\ pushed' = pushed
          /\ \/ stack' = <<>> \o Tail(stack) \/ stack' = <<Do("emitReadable")>> \o Tail(stack)
             \/ stack' = <<Do("emitReadable_")>> \o Tail(stack)
      BY <2>2 DEF Push, Then, World, log
    <3>2. ~IsNew(Top)
      BY <2>2 DEF IsNew, IsChunk
    <3> QED
      BY <2>1, <3>1, <3>2
  <2>3. CASE Top.data # <<>> /\ Top.data = <<0>>
    <3>1. pushed' = pushed /\ stack' = <<Do("maybeReadMore")>> \o Tail(stack)
      BY <2>3 DEF Push, Becomes, Then, World, log
    <3>2. ~IsNew(Top)
      BY <2>3 DEF IsNew
    <3> QED
      BY <2>1, <3>1, <3>2
  <2>4. CASE Top.data # <<>> /\ Top.data # <<0>> /\ (r.ended \/ Failed)
    <3>1. /\ pushed' = pushed
          /\ \/ stack' = <<[Do("destroy") EXCEPT !.n = 1]>> \o Tail(stack)
             \/ stack' = <<>> \o Tail(stack)
      BY <2>4 DEF Push, Becomes, Then, World, log
    <3> QED
      BY <2>1, <2>4, <3>1
  <2>5. CASE Top.data # <<>> /\ Top.data # <<0>> /\ ~r.ended /\ ~Failed
    BY <1>1, <2>5 DEF Push, Then, Set, IsNew, IsChunk
  <2> QED
    BY <2>2, <2>3, <2>4, <2>5
<1>5. ASSUME pushed' = pushed, NEW c \in Seq(Placid), stack' = c \o Tail(stack),
             ~IsNew(Top) \/ r.ended \/ Failed
      PROVE  Orderly'
  <2>1. Quietly
    BY <1>1, <1>3, <1>5 DEF Quietly, World, log
  <2> QED
    BY <1>1, <1>2, <1>5, <2>1, QuietStep
<1>6. ASSUME pushed' = pushed \o Top.data, IsNew(Top), ~r.ended, ~Failed,
             stack' = <<[Top EXCEPT !.fn = "addChunk"]>> \o Tail(stack),
             r' = [r EXCEPT !.reading = FALSE]
      PROVE  Orderly'
  <2> DEFINE f == [Top EXCEPT !.fn = "addChunk"]
             c == <<f>>
  <2>1. f \in Placid
    BY <1>1, PlacidPieces, PlacidKept
  <2> HIDE DEF f
  <2>2. c \in Seq(Placid) /\ DOMAIN c = {1} /\ c[1] = f
    BY <2>1, PlacidOnes
  <2>3. stack' = c \o Tail(stack)
    BY <1>6 DEF f
  <2> HIDE DEF c
  <2>4. stack \in Seq(Frame) /\ Top = stack[1] /\ c \in Seq(Frame) /\ \A i \in DOMAIN c : ~IsNew(c[i])
    <3>1. Placid \subseteq Frame
      BY DEF Placid
    <3>2. \A i \in DOMAIN c : ~IsNew(c[i])
      BY <2>1, <2>2 DEF Placid, IsNew, IsChunk
    <3> QED
      BY <1>1, <2>2, <3>1, <3>2, Wider, Topmost
  <2>5. Shifts(stack', stack, c, 1)
    BY <1>1, <2>3, <2>4, ShiftsTail
  <2>6. source.count \in Nat /\ pushed \in Seq(Nat) /\ Len(pushed) \in Nat
    BY LenProperties DEF Inv, Others
  <2> DEFINE n == source.count
             k == HowMany(stack')
  <2>7. /\ Counts(stack, n) /\ Len(pushed) = n - HowMany(stack)
        /\ \A i \in DOMAIN pushed : pushed[i] = i
    BY <1>6 DEF Orderly, Counted
  <2>8. /\ Counts(stack', n) /\ Top.data = <<n - k>> /\ k \in {0, 1} /\ HowMany(stack) = k + 1
    <3>1. PICK t, s : t = stack' /\ s = stack
      OBVIOUS
    <3>2. Shifts(t, s, c, 1) /\ Counts(s, n) /\ IsNew(s[1]) /\ n \in Nat
      BY <1>6, <2>4, <2>5, <2>6, <2>7, <3>1
    <3>3. /\ Counts(t, n) /\ s[1].data = <<n - HowMany(t)>>
          /\ HowMany(t) \in {0, 1} /\ HowMany(s) = HowMany(t) + 1
      BY <2>4, <3>2, CountsPop
    <3> QED
      BY <2>4, <3>1, <3>3
  <2> HIDE DEF k
  <2>9. Len(pushed) + 1 = n - k
    BY <2>6, <2>7, <2>8
  <2>10. Len(pushed') = n - k /\ \A i \in DOMAIN pushed' : pushed'[i] = i
    <3>1. PICK p, q, x : p = pushed /\ q = pushed' /\ x = n - k
      OBVIOUS
    <3>2. p \in Seq(Nat) /\ q = p \o <<x>> /\ Len(p) + 1 = x /\ x \in Nat /\ \A i \in DOMAIN p : p[i] = i
      <4>1. p \in Seq(Nat) /\ Len(p) \in Nat /\ \A i \in DOMAIN p : p[i] = i
        BY <2>6, <2>7, <3>1
      <4>2. Len(p) + 1 = x
        BY <2>9, <3>1
      <4>3. q = p \o <<x>>
        BY <1>6, <2>8, <3>1
      <4>4. x \in Nat
        BY <4>1, <4>2
      <4> QED
        BY <4>1, <4>2, <4>3, <4>4
    <3>3. <<x>> \in Seq(Nat)
      BY <3>2
    <3>4. /\ DOMAIN q = 1 .. Len(p) + Len(<<x>>) /\ Len(p) \in Nat
          /\ Len(q) = Len(p) + Len(<<x>>) /\ DOMAIN p = 1 .. Len(p)
          /\ \A i \in 1 .. Len(p) : q[i] = p[i]
          /\ \A i \in Len(p) + 1 .. Len(p) + Len(<<x>>) : q[i] = <<x>>[i - Len(p)]
      BY <3>2, <3>3, OnTop
    <3>5. Len(<<x>>) = 1 /\ <<x>>[1] = x
      OBVIOUS
    <3>6. DOMAIN q = 1 .. Len(p) + 1 /\ Len(q) = Len(p) + 1 /\ q[Len(p) + 1] = x
      <4>1. Len(p) + 1 \in Len(p) + 1 .. Len(p) + 1 /\ (Len(p) + 1) - Len(p) = 1
        BY <3>4
      <4> QED
        BY <3>4, <3>5, <4>1
    <3>7. \A i \in DOMAIN q : i \in DOMAIN p \/ i = Len(p) + 1
      BY <3>4, <3>6
    <3> QED
      BY <3>1, <3>2, <3>4, <3>6, <3>7
  <2>11. Counted'
    BY <1>1, <2>8, <2>10 DEF Counted, k
  <2>12. ASSUME Plainly PROVE Feeding'
    <3>1. Feeding /\ GivenOut(stack, client.is.may)
      BY <2>12 DEF Orderly, Feeding
    <3>2. SameFeed
      BY <1>1, KeptFeeds
    <3>3. MayReplace(c, stack, 1, client.is.may) /\ \A d \in Dest : ~Joining(c, d)
      BY <1>1, <1>2, <2>2, <3>1, TopReplaced
    <3>4. \A i \in DOMAIN stack : i <= 1 => stack[i].fn # "ondata"
      <4>1. \A i \in DOMAIN stack : i <= 1 => i = 1
        BY <2>4, LenProperties
      <4> QED
        BY <1>2, <2>4, <4>1
    <3> QED
      BY <2>5, <3>1, <3>2, <3>3, <3>4, FeedsOn
  <2> QED
    BY <1>1, <2>11, <2>12, PlainStays DEF Orderly
<1> QED
  BY <1>4, <1>5, <1>6

LEMMA OrderUnshift == ASSUME Inv, Orderly, Unshift PROVE Orderly'
<1>1. /\ stack # <<>> /\ Top.fn = "unshift" /\ Top \in Frame /\ Top = stack[1] /\ 1 \in DOMAIN stack
      /\ UNCHANGED <<r, on, pipe, dest, source, client, pushed>>
  BY Topmost DEF Unshift, Runs, Becomes, Set, World, log
<1>2. ~Plainly
  BY <1>1 DEF Orderly, Feeding, GivenOut, Plainly
<1>3. \E c \in Seq(Placid) : stack' = c \o Tail(stack)
  <2>1. [Do("destroy") EXCEPT !.n = 1] \in Placid /\ [Top EXCEPT !.fn = "addChunk", !.called = TRUE] \in Placid
    BY <1>1, Placids, PlacidPieces, PlacidKept
  <2>2. \/ stack' = <<[Do("destroy") EXCEPT !.n = 1]>> \o Tail(stack)
        \/ stack' = <<[Top EXCEPT !.fn = "addChunk", !.called = TRUE]>> \o Tail(stack)
    BY DEF Unshift, Becomes, Then
  <2> QED
    BY <2>1, <2>2, PlacidOnes
<1>4. PICK c \in Seq(Placid) : stack' = c \o Tail(stack)
  BY <1>3
<1>5. c \in Seq(Frame) /\ \A i \in DOMAIN c : ~IsNew(c[i])
  <2>1. Placid \subseteq Frame
    BY DEF Placid
  <2>2. \A i \in DOMAIN c : c[i] \in Placid
    BY EachOf
  <2> QED
    BY <2>1, <2>2, Wider DEF Placid, IsNew, IsChunk
<1>6. SameSource
  BY <1>1 DEF SameSource, Failed
<1>7. Counted'
  BY <1>1, <1>4, <1>5, <1>6, NotNew, CountedStep
<1> QED
  BY <1>1, <1>2, <1>7, PlainStays DEF Orderly

\* What is so of every destination is shown for each.
LEMMA FeedsEach ==
    ASSUME Feeding, client'.is = client.is, delivered' = delivered, DOMAIN got' = Dest,
           In(on.data, "user")' => "on data" \in client.is.may,
           NEW c, NEW b \in {0, 1}, Shifts(stack', stack, c, b), MayReplace(c, stack, b, client.is.may),
           \A k \in Int : Kept(stack', stack, c, b, k) => \A d \in Dest : FedInOrder(d)'
    PROVE  Feeding'
<1>1. PICK t, s : t = stack' /\ s = stack
  OBVIOUS
<1>2. GivenOut(t, client.is.may) /\ \E k \in Int : Kept(t, s, c, b, k)
  <2>1. Shifts(t, s, c, b) /\ GivenOut(s, client.is.may) /\ MayReplace(c, s, b, client.is.may)
    BY <1>1 DEF Feeding
  <2> QED
    BY <2>1, GivenOn
<1>3. \A d \in Dest : FedInOrder(d)'
  BY <1>1, <1>2
<1>4. GivenOut(stack, client.is.may)'
  BY <1>1, <1>2 DEF GivenOut, Writes
<1> QED
  BY <1>3, <1>4 DEF Feeding

LEMMA KeptTwo ==
    ASSUME NEW t, NEW s, NEW c, NEW b, NEW k \in Int, Kept(t, s, c, b, k), NEW d
    PROVE  /\ ~Joining(c, d) => ~Joining(t, d)
           /\ (\A j \in DOMAIN s : j > b => ~Feeds(s[j], d)) => ~Fed(t, d)
<1>1. ASSUME ~Joining(c, d) PROVE ~Joining(t, d)
  BY <1>1 DEF Joining, Joins, Kept
<1>2. ASSUME \A j \in DOMAIN s : j > b => ~Feeds(s[j], d) PROVE ~Fed(t, d)
  <2>1. ASSUME NEW i \in DOMAIN t, Feeds(t[i], d) PROVE FALSE
    <3>1. PICK j : j = i + k
      OBVIOUS
    <3>2. j \in DOMAIN s /\ t[i] = s[j] /\ j > b
      BY <2>1, <3>1 DEF Feeds, Kept
    <3> QED
      BY <1>2, <2>1, <3>2
  <2> QED
    BY <2>1 DEF Fed
<1> QED
  BY <1>1, <1>2

LEMMA OrderOnData == ASSUME Inv, Waiting, Orderly, OnData PROVE Orderly'
<1> DEFINE w == Top.who
           f == Do("resume")
<1>1. /\ stack # <<>> /\ Top.fn = "on data" /\ Top = stack[1] /\ stack \in Seq(Frame) /\ 1 \in DOMAIN stack
      /\ UNCHANGED <<pipe, dest, source, client, pushed, delivered, got>>
      /\ r' = [r EXCEPT !.readableListening = on.readable]
      /\ w \in Dest \cup {"user"}
  BY Topmost DEF OnData, Runs, Set, log, Fits
<1>2. on'.data = Append(on.data, w) /\ on.data \in Seq(Dest \cup {"user"})
  BY DEF OnData, Inv, Heard
<1>3. w # "user" => pipe[w].used
  <2>1. stack \in Seq(Sit)
    BY DEF Waiting
  <2>2. Top \in Sit
    BY <1>1, <2>1, EachOf
  <2> QED
    BY <1>1, <2>2 DEF Sit, Sits
<1>4. PICK c \in Seq(Placid) : stack' = c \o Tail(stack) /\ \A i \in DOMAIN c : c[i].fn = "resume"
  <2>1. f \in Placid /\ f.fn = "resume"
    BY Placids, PlacidPieces DEF Do
  <2>2. stack' = <<f>> \o Tail(stack) \/ stack' = <<>> \o Tail(stack)
    BY DEF OnData, Then
  <2> HIDE DEF f
  <2>3. /\ <<>> \in Seq(Placid) /\ DOMAIN <<>> = {}
        /\ <<f>> \in Seq(Placid) /\ DOMAIN <<f>> = {1} /\ <<f>>[1] = f
    BY <2>1, PlacidOnes
  <2> QED
    BY <2>1, <2>2, <2>3
<1>5. SameSource
  BY <1>1 DEF SameSource, Failed, Inv, Fields
<1>6. c \in Seq(Frame) /\ \A i \in DOMAIN c : ~IsNew(c[i])
  <2>1. Placid \subseteq Frame
    BY DEF Placid
  <2> QED
    BY <1>4, <2>1, Wider DEF IsNew, IsChunk
<1>7. Counted' /\ Shifts(stack', stack, c, 1)
  BY <1>1, <1>4, <1>5, <1>6, NotNew, CountedStep
<1> HIDE DEF w
<1>8. \A x : (In(on.data, x)' <=> In(on.data, x) \/ w = x)
             /\ (Once(on.data, x) /\ (In(on.data, x) => w # x) => Once(on.data, x)')
  <2> SUFFICES ASSUME NEW x
               PROVE  /\ In(on.data, x)' <=> In(on.data, x) \/ w = x
                      /\ Once(on.data, x) /\ (In(on.data, x) => w # x) => Once(on.data, x)'
    OBVIOUS
  <2>1. /\ In(Append(on.data, w), x) <=> In(on.data, x) \/ w = x
        /\ Once(on.data, x) /\ (In(on.data, x) => w # x) => Once(Append(on.data, w), x)
    <3> DEFINE S == Dest \cup {"user"}
    <3>1. on.data \in Seq(S) /\ w \in S
      BY <1>1, <1>2
    <3> HIDE DEF S
    <3> QED
      BY <3>1, OneAdded
  <2>2. In(on.data, x)' <=> In(Append(on.data, w), x)
    BY <1>2 DEF In
  <2>3. Once(on.data, x)' <=> Once(Append(on.data, w), x)
    BY <1>2 DEF Once
  <2> QED
    BY <2>1, <2>2, <2>3
<1>9. ASSUME Plainly PROVE Feeding'
  <2>1. Feeding /\ GivenOut(stack, client.is.may)
    BY <1>9 DEF Orderly, Feeding
  <2>2. MayReplace(c, stack, 1, client.is.may) /\ \A d \in Dest : ~Joining(c, d)
    <3>1. Top.fn \in Hush(client.is.may) => "resume" \in Hush(client.is.may)
      BY <1>1 DEF Hush
    <3>2. Top.fn \in Hush(client.is.may) => \A i \in DOMAIN c : c[i].fn \in Hush(client.is.may)
      BY <1>4, <3>1
    <3> QED
      BY <1>1, <2>1, <3>2, TopReplaced
  <2>3. ASSUME In(on.data, "user")' PROVE "on data" \in client.is.may
    <3>1. stack[1].who = "user" => "on data" \in client.is.may
      BY <1>1, <2>1 DEF GivenOut
    <3>2. In(on.data, "user") \/ w = "user"
      BY <1>8, <2>3
    <3> QED
      BY <1>1, <2>1, <3>1, <3>2 DEF Feeding, w
  <2>4. ASSUME NEW k \in Int, Kept(stack', stack, c, 1, k), NEW d \in Dest PROVE FedInOrder(d)'
    <3>1. FedInOrder(d)
      BY <2>1 DEF Feeding
    <3>2. \A j \in DOMAIN stack : j <= 1 => ~Feeds(stack[j], d)
      <4>1. stack \in Seq(Frame) /\ ~Feeds(stack[1], d)
        BY <1>1 DEF Feeds
      <4>2. \A j \in DOMAIN stack : j <= 1 => j = 1
        BY <4>1, LenProperties
      <4> QED
        BY <4>1, <4>2
    <3>3. CASE w # d
      <4>1. SameFor(d)
        BY <1>1, <1>8, <3>3 DEF SameFor
      <4> QED
        BY <1>1, <2>2, <2>4, <3>1, <3>2, <4>1, FedOn
    <3>4. CASE w = d
      <4>1. Joining(stack, d)
        BY <1>1, <3>4 DEF Joining, Joins, w
      <4>2. got[d] = <<>> /\ ~Fed(stack, d) /\ ~In(on.data, d) /\ Once(on.data, d)
        BY <3>1, <4>1 DEF FedInOrder
      <4>3. ~Joining(stack', d) /\ ~Fed(stack', d)
        <5>1. PICK t, s : t = stack' /\ s = stack
          OBVIOUS
        <5>2. Kept(t, s, c, 1, k) /\ ~Joining(c, d) /\ \A j \in DOMAIN s : j > 1 => ~Feeds(s[j], d)
          BY <2>2, <2>4, <4>2, <5>1 DEF Fed
        <5> QED
          BY <5>1, <5>2, KeptTwo
      <4>4. Once(on.data, d)' /\ pipe'[d].used
        BY <1>1, <1>3, <1>8, <3>4, <4>2, NameAssumption
      <4>5. \A i \in DOMAIN stack' : ~Feeds(stack'[i], d)
        BY <4>3 DEF Fed
      <4>6. got'[d] = <<>> /\ Row(got'[d]) /\ \A n : UpTo(got'[d], n)
        BY <1>1, <3>1, <4>2 DEF FedInOrder, UpTo
      <4> QED
        BY <4>3, <4>4, <4>5, <4>6 DEF FedInOrder
    <3> QED
      BY <3>3, <3>4
  <2>5. DOMAIN got' = Dest
    BY <1>1, <2>1 DEF Feeding
  <2> QED
    BY <1>1, <1>7, <2>1, <2>2, <2>3, <2>4, <2>5, FeedsEach
<1>10. Plainly' = Plainly
  BY <1>1, PlainStays
<1> QED
  BY <1>7, <1>9, <1>10 DEF Orderly

LEMMA OrderPipe == ASSUME Inv, Waiting, Orderly, Pipe PROVE Orderly'
<1> DEFINE w == Top.who
           f == For("on data", w)
           g == For("piped", w)
           c == <<f, g>>
<1>1. /\ stack # <<>> /\ Top.fn = "pipe" /\ Top = stack[1] /\ stack \in Seq(Frame) /\ 1 \in DOMAIN stack
      /\ UNCHANGED <<dest, source, client, pushed, delivered, got>>
      /\ stack' = c \o Tail(stack) /\ w \in Dest /\ ~pipe[w].used
  BY Topmost DEF Pipe, Pipes, Runs, Then, log, Fits, OfDest, View
<1>2. /\ r'.ended = r.ended /\ r'.destroyed = r.destroyed /\ r'.errored = r.errored
      /\ on'.data = on.data
      /\ \A d \in Dest : IF d = w THEN pipe'[d].used ELSE pipe'[d] = pipe[d]
  BY <1>1 DEF Pipe, Pipes, Set, Inv, Fields, Heard, PipesFit
<1>3. /\ f \in Frame /\ f.fn = "on data" /\ f.who = w /\ w # "user"
      /\ g \in Frame /\ g.fn = "piped"
  <2>1. "on data" \in Pieces /\ "piped" \in Pieces
    BY DEF Pieces
  <2> QED
    BY <1>1, <2>1, FrameFor, NameAssumption DEF For, Do
<1> HIDE DEF f, g, w
<1>4. DOMAIN c = 1 .. 2 /\ c[1] = f /\ c[2] = g /\ c \in Seq(Frame)
  <2>1. \A a, b : DOMAIN <<a, b>> = 1 .. 2 /\ <<a, b>>[1] = a /\ <<a, b>>[2] = b
    OBVIOUS
  <2>2. \A S : \A a, b \in S : <<a, b>> \in Seq(S)
    OBVIOUS
  <2>3. <<f, g>> \in Seq(Frame)
    BY <1>3, <2>2
  <2> QED
    BY <2>1, <2>3
<1> HIDE DEF c
<1>5. \A i \in DOMAIN c : (i = 1 /\ c[i].fn = "on data" /\ c[i].who = w) \/ c[i].fn = "piped"
  <2>1. \A i \in 1 .. 2 : i = 1 \/ i = 2
    OBVIOUS
  <2> QED
    BY <1>3, <1>4, <2>1
<1>6. \A i \in DOMAIN c : ~IsNew(c[i])
  BY <1>5 DEF IsNew, IsChunk
<1>7. SameSource
  BY <1>1, <1>2 DEF SameSource, Failed
<1>8. Counted' /\ Shifts(stack', stack, c, 1)
  BY <1>1, <1>4, <1>6, <1>7, NotNew, CountedStep
<1>9. ASSUME Plainly PROVE Feeding'
  <2>1. Feeding /\ GivenOut(stack, client.is.may)
    BY <1>9 DEF Orderly, Feeding
  <2>2. MayReplace(c, stack, 1, client.is.may)
    <3>1. \A i \in DOMAIN stack : stack[i].fn = "on data" => i <= 1
      <4>1. \A i \in DOMAIN stack : stack[i].fn = "on data" => i = 1
        BY <2>1 DEF GivenOut
      <4>2. 1 <= 1
        OBVIOUS
      <4> QED
        BY <4>1, <4>2, Zenon
    <3>2. \A i \in DOMAIN c : c[i].fn \notin {"ondata", "unshift"}
      BY <1>5
    <3>3. \/ \A i \in DOMAIN c : c[i].fn \in Hush(client.is.may)
          \/ \A i \in DOMAIN stack : i > 1 => stack[i].fn # "ondata"
      <4>1. CASE "on data" \in client.is.may
        BY <1>5, <4>1 DEF Hush
      <4>2. CASE "on data" \notin client.is.may
        <5>1. Top.fn \notin Hush(client.is.may)
          BY <1>1, <4>2 DEF Hush
        <5> QED
          BY <1>1, <2>1, <5>1, NothingFeeds
      <4> QED
        BY <4>1, <4>2
    <3> QED
      BY <1>3, <1>5, <3>1, <3>2, <3>3 DEF MayReplace
  <2>3. In(on.data, "user")' => "on data" \in client.is.may
    BY <1>2, <2>1 DEF Feeding, In
  <2>4. ASSUME NEW k \in Int, Kept(stack', stack, c, 1, k), NEW d \in Dest PROVE FedInOrder(d)'
    <3>1. FedInOrder(d)
      BY <2>1 DEF Feeding
    <3>2. \A j \in DOMAIN stack : j <= 1 => ~Feeds(stack[j], d)
      <4>1. stack \in Seq(Frame) /\ ~Feeds(stack[1], d)
        BY <1>1 DEF Feeds
      <4>2. \A j \in DOMAIN stack : j <= 1 => j = 1
        BY <4>1, LenProperties
      <4> QED
        BY <4>1, <4>2
    <3>3. CASE w # d
      <4>1. ~Joining(c, d)
        BY <1>5, <3>3 DEF Joining, Joins
      <4>2. SameFor(d)
        BY <1>1, <1>2, <3>3 DEF SameFor, In, Once
      <4>3. delivered' = delivered
        BY <1>1
      <4> QED
        BY <2>4, <3>1, <3>2, <4>1, <4>2, <4>3, FedOn
    <3>4. CASE w = d
      <4>1. got[d] = <<>> /\ ~Fed(stack, d) /\ ~In(on.data, d) /\ Once(on.data, d)
        BY <1>1, <3>1, <3>4 DEF FedInOrder
      <4>2. ~Fed(stack', d)
        <5>1. PICK t, s : t = stack' /\ s = stack
          OBVIOUS
        <5>2. Kept(t, s, c, 1, k) /\ \A j \in DOMAIN s : j > 1 => ~Feeds(s[j], d)
          BY <2>4, <4>1, <5>1 DEF Fed
        <5> QED
          BY <5>1, <5>2, KeptTwo
      <4>3. \A i \in DOMAIN stack' : ~Feeds(stack'[i], d)
        BY <4>2 DEF Fed
      <4>4. got'[d] = <<>> /\ Row(got'[d]) /\ \A n : UpTo(got'[d], n)
        BY <1>1, <3>1, <4>1 DEF FedInOrder, UpTo
      <4>5. ~In(on.data, d)' /\ Once(on.data, d)'
        BY <1>2, <4>1 DEF In, Once
      <4> QED
        BY <4>2, <4>3, <4>4, <4>5 DEF FedInOrder
    <3> QED
      BY <3>3, <3>4
  <2>5. DOMAIN got' = Dest /\ client'.is = client.is /\ delivered' = delivered
    BY <1>1, <2>1 DEF Feeding
  <2> QED
    BY <1>8, <2>1, <2>2, <2>3, <2>4, <2>5, FeedsEach
<1>10. Plainly' = Plainly
  BY <1>1, PlainStays
<1> QED
  BY <1>8, <1>9, <1>10 DEF Orderly

\* Consecutive chunks after those up to the one before.
LEMMA RowOn ==
    ASSUME NEW g, Row(g), NEW x \in Seq(Nat), NEW n \in Nat, Len(x) <= n,
           \A j \in DOMAIN x : x[j] = n - Len(x) + j, UpTo(g, n - Len(x))
    PROVE  Row(g \o x) /\ UpTo(g \o x, n)
<1>1. PICK t : t = g \o x
  OBVIOUS
<1>2. g \in Seq(Nat) /\ \A i \in DOMAIN g : i > 1 => g[i] = g[i - 1] + 1
  BY DEF Row
<1>3. /\ Len(g) \in Nat /\ Len(x) \in Nat /\ DOMAIN g = 1 .. Len(g) /\ DOMAIN x = 1 .. Len(x)
      /\ DOMAIN t = 1 .. Len(g) + Len(x) /\ Len(t) = Len(g) + Len(x) /\ t \in Seq(Nat)
      /\ \A i \in 1 .. Len(g) : t[i] = g[i]
      /\ \A i \in Len(g) + 1 .. Len(g) + Len(x) : t[i] = x[i - Len(g)]
  BY <1>1, <1>2, OnTop, LenProperties, ConcatProperties
<1>4. ASSUME NEW i \in DOMAIN t, i > Len(g) PROVE t[i] = n - Len(x) + (i - Len(g))
  <2>1. i \in Len(g) + 1 .. Len(g) + Len(x) /\ i - Len(g) \in DOMAIN x
    <3>1. PICK k, l : k = Len(g) /\ l = Len(x)
      OBVIOUS
    <3>2. k \in Nat /\ l \in Nat /\ DOMAIN x = 1 .. l /\ i \in 1 .. k + l /\ i > k
      BY <1>3, <1>4, <3>1
    <3>3. i \in k + 1 .. k + l /\ i - k \in 1 .. l
      BY <3>2
    <3> QED
      BY <3>1, <3>2, <3>3
  <2> QED
    BY <1>3, <2>1
<1>5. ASSUME NEW i \in DOMAIN t, i = Len(g), i > 0 PROVE t[i] = n - Len(x)
  <2>1. g # <<>> /\ i \in 1 .. Len(g)
    BY <1>3, <1>5
  <2> QED
    BY <1>3, <1>5, <2>1 DEF UpTo
<1>6. ASSUME NEW i \in DOMAIN t, i > 1 PROVE t[i] = t[i - 1] + 1
  <2>1. i - 1 \in DOMAIN t /\ i \in Nat
    BY <1>3, <1>6
  <2>2. CASE i <= Len(g)
    <3>1. i \in DOMAIN g /\ i - 1 \in DOMAIN g
      BY <1>3, <1>6, <2>2
    <3> QED
      BY <1>2, <1>3, <1>6, <3>1
  <2>3. CASE i > Len(g)
    <3>1. t[i] = n - Len(x) + (i - Len(g))
      BY <1>4, <2>3
    <3>2. t[i - 1] = n - Len(x) + (i - 1 - Len(g))
      <4>1. CASE i - 1 > Len(g)
        BY <1>4, <2>1, <4>1
      <4>2. CASE i - 1 = Len(g)
        <5>1. t[i - 1] = n - Len(x)
          BY <1>5, <1>6, <2>1, <4>2
        <5> QED
          BY <1>3, <2>1, <4>2, <5>1
      <4> QED
        BY <1>3, <2>1, <2>3, <4>1, <4>2
    <3> QED
      BY <1>3, <2>1, <3>1, <3>2
  <2> QED
    BY <1>3, <2>1, <2>2, <2>3
<1>7. ASSUME t # <<>> PROVE t[Len(t)] = n
  <2>1. Len(t) \in DOMAIN t /\ Len(t) > 0
    BY <1>3, <1>7
  <2>2. CASE Len(x) = 0
    BY <1>3, <1>5, <2>1, <2>2
  <2>3. CASE Len(x) > 0
    <3>1. Len(t) > Len(g) /\ Len(t) - Len(g) = Len(x)
      BY <1>3, <2>3
    <3>2. t[Len(t)] = n - Len(x) + (Len(t) - Len(g))
      BY <1>4, <2>1, <3>1
    <3> QED
      BY <1>3, <3>1, <3>2
  <2> QED
    BY <1>3, <2>2, <2>3
<1> QED
  BY <1>1, <1>3, <1>6, <1>7 DEF Row, UpTo

\* What a destination answers: the chunk is written, or it takes none.
LEMMA OrderOndata == ASSUME Inv, Waiting, Orderly, OndataRefused \/ OndataTaken PROVE Orderly'
<1> DEFINE w == Top.who
           x == Top.data
           g == For("pausePipe", w)
<1>1. /\ stack # <<>> /\ Top.fn = "ondata" /\ Top = stack[1] /\ stack \in Seq(Frame) /\ 1 \in DOMAIN stack
      /\ UNCHANGED <<r, on, pipe, source, client, pushed, delivered>>
      /\ w \in Dest /\ x \in Seq(Nat)
      /\ stack' = <<>> \o Tail(stack) \/ stack' = <<g>> \o Tail(stack)
  <2>1. /\ stack # <<>> /\ Top.fn = "ondata"
        /\ UNCHANGED <<r, on, pipe, source, client, pushed, delivered>>
        /\ stack' = <<>> \o Tail(stack) \/ stack' = <<g>> \o Tail(stack)
    BY DEF OndataRefused, OndataTaken, Runs, Then
  <2>2. Top \in Frame /\ Top = stack[1] /\ stack \in Seq(Frame) /\ 1 \in DOMAIN stack /\ w \in Dest
    BY <2>1, Topmost DEF Fits, OfDest
  <2> QED
    BY <2>1, <2>2 DEF Frame
<1>2. \/ dest[w].status # "open" /\ dest' = dest /\ got' = got
      \/ dest[w].status = "open" /\ got' = [got EXCEPT ![w] = got[w] \o x]
  BY DEF OndataRefused, OndataTaken
<1>3. \A d \in Dest : dest'[d].status = "open" => dest[d].status = "open"
  <2>1. \/ dest' = dest
        \/ dest[w].status = "open" /\ dest' = [dest EXCEPT ![w].needDrain = TRUE]
    BY DEF OndataRefused, OndataTaken
  <2> QED
    BY <1>1, <2>1 DEF Waiting, Listeners
<1>4. g \in Placid /\ g.fn = "pausePipe"
  BY <1>1, Placids, PlacidPieces DEF For, Do
<1> HIDE DEF g, w, x
<1>5. PICK c \in Seq(Placid) : stack' = c \o Tail(stack) /\ \A i \in DOMAIN c : c[i].fn = "pausePipe"
  <2>1. /\ <<>> \in Seq(Placid) /\ DOMAIN <<>> = {}
        /\ <<g>> \in Seq(Placid) /\ DOMAIN <<g>> = {1} /\ <<g>>[1] = g
    BY <1>4, PlacidOnes
  <2> QED
    BY <1>1, <1>4, <2>1
<1>6. c \in Seq(Frame) /\ \A i \in DOMAIN c : ~IsNew(c[i])
  <2>1. Placid \subseteq Frame
    BY DEF Placid
  <2> QED
    BY <1>5, <2>1, Wider DEF IsNew, IsChunk
<1>7. SameSource
  BY <1>1 DEF SameSource, Failed
<1>8. Counted' /\ Shifts(stack', stack, c, 1)
  BY <1>1, <1>5, <1>6, <1>7, NotNew, CountedStep
<1>9. ASSUME Plainly PROVE Feeding'
  <2>1. Feeding /\ GivenOut(stack, client.is.may) /\ DOMAIN got = Dest
    BY <1>9 DEF Orderly, Feeding
  <2>2. MayReplace(c, stack, 1, client.is.may) /\ \A d \in Dest : ~Joining(c, d)
    <3>1. \A i \in DOMAIN c : c[i].fn \in Hush(client.is.may)
      BY <1>5 DEF Hush
    <3> QED
      BY <1>1, <2>1, <3>1, TopReplaced
  <2>3. In(on.data, "user")' => "on data" \in client.is.may
    BY <1>1, <2>1 DEF Feeding, In
  <2>4. ASSUME NEW k \in Int, Kept(stack', stack, c, 1, k), NEW d \in Dest PROVE FedInOrder(d)'
    <3>1. FedInOrder(d) /\ ~Joining(c, d) /\ delivered' = delivered
      BY <1>1, <2>1, <2>2 DEF Feeding
    <3>2. CASE w # d
      <4>1. SameFor(d)
        <5>1. got'[d] = got[d]
          BY <1>2, <2>1, <3>2
        <5>2. on' = on /\ pipe' = pipe
          BY <1>1
        <5> QED
          BY <1>3, <5>1, <5>2 DEF SameFor, In, Once
      <4>2. \A j \in DOMAIN stack : j <= 1 => ~Feeds(stack[j], d)
        <5>1. stack \in Seq(Frame) /\ ~Feeds(stack[1], d)
          BY <1>1, <3>2 DEF Feeds, w
        <5>2. \A j \in DOMAIN stack : j <= 1 => j = 1
          BY <5>1, LenProperties
        <5> QED
          BY <5>1, <5>2
      <4> QED
        BY <2>4, <3>1, <4>1, <4>2, FedOn
    <3>3. CASE w = d
      <4>1. Feeds(stack[1], d) /\ 1 \in DOMAIN stack /\ stack \in Seq(Frame)
        BY <1>1, <3>3 DEF Feeds, w
      <4>2. \A j \in DOMAIN stack : j > 1 => ~Feeds(stack[j], d)
        <5>1. \A i, j \in DOMAIN stack : Feeds(stack[i], d) /\ Feeds(stack[j], d) => i = j
          BY <3>1 DEF FedInOrder
        <5>2. \A j \in DOMAIN stack : j > 1 => j # 1
          BY <4>1, LenProperties
        <5> QED
          BY <4>1, <5>1, <5>2
      <4>3. ~Joining(stack', d) /\ ~Fed(stack', d)
        <5>1. PICK t, s : t = stack' /\ s = stack
          OBVIOUS
        <5>2. Kept(t, s, c, 1, k) /\ ~Joining(c, d) /\ \A j \in DOMAIN s : j > 1 => ~Feeds(s[j], d)
          BY <2>4, <3>1, <4>2, <5>1
        <5> QED
          BY <5>1, <5>2, KeptTwo
      <4>4. Fed(stack, d)
        BY <4>1 DEF Fed
      <4>5. pipe'[d].used /\ Once(on.data, d)'
        BY <1>1, <3>1, <4>4 DEF FedInOrder, Once
      <4>6. Row(got'[d]) /\ (dest'[d].status = "open" => UpTo(got'[d], Len(delivered')))
        <5>1. CASE dest[w].status # "open" /\ dest' = dest /\ got' = got
          BY <3>1, <3>3, <5>1 DEF FedInOrder
        <5>2. CASE dest[w].status = "open" /\ got' = [got EXCEPT ![w] = got[w] \o x]
          <6>1. PICK h, n : h = got[d] /\ n = Len(delivered)
            OBVIOUS
          <6>2. UpTo(h, n - Len(x)) /\ Row(h)
            BY <1>1, <3>1, <3>3, <4>1, <5>2, <6>1 DEF FedInOrder, x
          <6>3. Writes(stack[1])
            BY <1>1, <2>1 DEF GivenOut
          <6>4. Len(x) <= n /\ \A j \in DOMAIN x : x[j] = n - Len(x) + j
            BY <1>1, <6>1, <6>3 DEF Writes, x
          <6>5. n \in Nat
            BY <6>1, LenProperties DEF Inv, Others
          <6>6. Row(h \o x) /\ UpTo(h \o x, n)
            BY <1>1, <6>2, <6>4, <6>5, RowOn
          <6>7. got'[d] = h \o x
            BY <2>1, <3>3, <5>2, <6>1
          <6> QED
            BY <3>1, <6>1, <6>6, <6>7
        <5> QED
          BY <1>2, <5>1, <5>2
      <4>7. \A i \in DOMAIN stack' : ~Feeds(stack'[i], d)
        BY <4>3 DEF Fed
      <4> QED
        BY <4>3, <4>5, <4>6, <4>7 DEF FedInOrder
    <3> QED
      BY <3>2, <3>3
  <2>5. DOMAIN got' = Dest /\ client'.is = client.is /\ delivered' = delivered
    BY <1>1, <1>2, <2>1
  <2> QED
    BY <1>8, <2>1, <2>2, <2>3, <2>4, <2>5, FeedsEach
<1>10. Plainly' = Plainly
  BY <1>1, PlainStays
<1> QED
  BY <1>8, <1>9, <1>10 DEF Orderly

\* A chunk that leaves the stream is the next one.
LEMMA NextOut ==
    ASSUME NEW d \in Seq(Nat), NEW x \in Seq(Nat), NEW b \in Seq(Nat),
           \A i \in DOMAIN (d \o x \o b) : (d \o x \o b)[i] = i
    PROVE  /\ Len(d \o x) \in Nat /\ Len(d) \in Nat /\ Len(x) \in Nat /\ Len(d \o x) = Len(d) + Len(x)
           /\ Len(x) <= Len(d \o x)
           /\ \A j \in DOMAIN x : x[j] = Len(d \o x) - Len(x) + j
<1>1. PICK e, p : e = d \o x /\ p = e \o b
  OBVIOUS
<1>2. /\ Len(d) \in Nat /\ Len(x) \in Nat /\ DOMAIN x = 1 .. Len(x) /\ e \in Seq(Nat)
      /\ DOMAIN e = 1 .. Len(d) + Len(x) /\ Len(e) = Len(d) + Len(x)
      /\ \A i \in Len(d) + 1 .. Len(d) + Len(x) : e[i] = x[i - Len(d)]
  BY <1>1, OnTop, LenProperties, ConcatProperties
<1>3. DOMAIN p = 1 .. Len(e) + Len(b) /\ Len(b) \in Nat /\ \A i \in 1 .. Len(e) : p[i] = e[i]
  BY <1>1, <1>2, OnTop
<1>4. ASSUME NEW j \in DOMAIN x PROVE x[j] = Len(d) + j
  <2>1. /\ Len(d) + j \in Len(d) + 1 .. Len(d) + Len(x) /\ (Len(d) + j) - Len(d) = j
        /\ Len(d) + j \in DOMAIN p /\ Len(d) + j \in 1 .. Len(e)
    <3>1. j \in Nat /\ j >= 1 /\ j <= Len(x) /\ Len(d) \in Nat /\ Len(x) \in Nat
      BY <1>2
    <3>2. /\ Len(d) + j \in Len(d) + 1 .. Len(d) + Len(x) /\ (Len(d) + j) - Len(d) = j
          /\ Len(d) + j \in 1 .. Len(d) + Len(x)
      BY <3>1
    <3>3. 1 .. Len(e) \subseteq DOMAIN p /\ Len(e) = Len(d) + Len(x)
      BY <1>2, <1>3
    <3> QED
      BY <3>2, <3>3
  <2>2. p[Len(d) + j] = Len(d) + j
    BY <1>1, <2>1
  <2> QED
    BY <1>2, <1>3, <2>1, <2>2
<1>5. \A j \in DOMAIN x : j \in Nat
  BY <1>2
<1> QED
  BY <1>1, <1>2, <1>4, <1>5

\* Whoever listens at the moment of emit is given the chunk.
LEMMA OrderEmitData == ASSUME Inv, Orderly, EmitData PROVE Orderly'
<1> DEFINE G(w) == IF w = "user" THEN Do("user") ELSE [Top EXCEPT !.fn = "ondata", !.who = w]
           c == [i \in DOMAIN on.data |-> G(on.data[i])]
           x == Top.data
           may == client.is.may
<1>1. /\ stack # <<>> /\ Top.fn = "data" /\ Top = stack[1] /\ Top \in Frame /\ stack \in Seq(Frame)
      /\ UNCHANGED <<r, on, pipe, dest, source, client, pushed, got>>
      /\ delivered' = delivered \o x /\ x \in Seq(Nat)
      /\ stack' = c \o Tail(stack)
  <2>1. /\ stack # <<>> /\ Top.fn = "data"
        /\ UNCHANGED <<r, on, pipe, dest, source, client, pushed, got>>
        /\ delivered' = delivered \o x
        /\ stack' = c \o Tail(stack)
    BY DEF EmitData, Runs, Then
  <2>2. Top = stack[1] /\ Top \in Frame /\ stack \in Seq(Frame)
    BY <2>1, Topmost
  <2> HIDE DEF c
  <2> QED
    BY <2>1, <2>2 DEF Frame
<1>2. /\ on.data \in Seq(Dest \cup {"user"}) /\ Len(on.data) \in Nat /\ DOMAIN on.data = 1 .. Len(on.data)
      /\ \A i \in DOMAIN on.data : on.data[i] \in Dest \cup {"user"}
  <2>1. on.data \in Seq(Dest \cup {"user"})
    BY DEF Inv, Heard
  <2> QED
    BY <2>1, EachOf, LenProperties
<1>3. ASSUME NEW w \in Dest \cup {"user"}
      PROVE  /\ G(w) \in Frame
             /\ w = "user" => G(w).fn = "user"
             /\ w # "user" => G(w).fn = "ondata" /\ G(w).who = w /\ G(w).data = x
  <2>1. CASE w = "user"
    <3>1. "user" \in Pieces
      BY DEF Pieces
    <3> QED
      BY <2>1, <3>1, Frames DEF Do
  <2>2. CASE w # "user"
    <3>1. "ondata" \in Pieces
      BY DEF Pieces
    <3>2. [Top EXCEPT !.fn = "ondata"] \in Frame
      BY <1>1, <3>1, FrameKept
    <3>3. [[Top EXCEPT !.fn = "ondata"] EXCEPT !.who = w] \in Frame
      BY <3>1, <3>2, FrameKept
    <3>4. /\ G(w) = [[Top EXCEPT !.fn = "ondata"] EXCEPT !.who = w]
          /\ G(w).fn = "ondata" /\ G(w).who = w /\ G(w).data = x
      BY <1>1, <2>2 DEF Frame
    <3> HIDE DEF G
    <3> QED
      BY <2>2, <3>3, <3>4
  <2> QED
    BY <2>1, <2>2
<1> HIDE DEF G
<1>4. DOMAIN c = DOMAIN on.data /\ \A i \in DOMAIN c : c[i] = G(on.data[i])
  OBVIOUS
<1>5. c \in Seq(Frame)
  <2>1. c \in [1 .. Len(on.data) -> Frame]
    BY <1>2, <1>3
  <2> HIDE DEF c
  <2> QED
    BY <1>2, <2>1, Mapped
<1> HIDE DEF c, x
<1>6. \A i \in DOMAIN c :
         /\ i \in DOMAIN on.data /\ c[i].fn \in {"user", "ondata"}
         /\ c[i].fn = "user" => on.data[i] = "user"
         /\ c[i].fn = "ondata" => c[i].who = on.data[i] /\ on.data[i] \in Dest /\ c[i].data = x
         /\ on.data[i] # "user" => c[i].fn = "ondata"
  BY <1>2, <1>3, <1>4
<1>7. \A i \in DOMAIN c : ~IsNew(c[i])
  BY <1>6 DEF IsNew, IsChunk
<1>8. SameSource
  BY <1>1 DEF SameSource, Failed
<1>9. Counted' /\ Shifts(stack', stack, c, 1)
  BY <1>1, <1>5, <1>7, <1>8, NotNew, CountedStep
<1>10. PICK e, d : e = delivered' /\ d = delivered
  OBVIOUS
<1>11. /\ Len(e) \in Nat /\ Len(x) \in Nat /\ Len(d) \in Nat /\ Len(e) - Len(x) = Len(d) /\ Len(x) <= Len(e)
       /\ \A j \in DOMAIN x : x[j] = Len(e) - Len(x) + j
  <2>1. delivered \in Seq(Nat) /\ r.buffer \in Seq(Nat) /\ \A i \in DOMAIN pushed : pushed[i] = i
    BY DEF Inv, Fields, Others, Orderly, Counted
  <2>2. Ahead(stack) = x /\ Behind(stack) = <<>>
    BY <1>1 DEF Ahead, Behind, x
  <2>3. d \o x \o r.buffer \o <<>> = pushed
    BY <1>10, <2>2 DEF Inv, Ledger
  <2>4. (d \o x \o r.buffer) \o <<>> = d \o x \o r.buffer
    <3>1. d \o x \o r.buffer \in Seq(Nat)
      BY <1>1, <1>10, <2>1, ConcatProperties
    <3> QED
      BY <3>1, ConcatEmptySeq
  <2>5. d \o x \o r.buffer = pushed
    BY <2>3, <2>4
  <2>6. /\ Len(d \o x) \in Nat /\ Len(d) \in Nat /\ Len(x) \in Nat /\ Len(d \o x) = Len(d) + Len(x)
        /\ Len(x) <= Len(d \o x)
        /\ \A j \in DOMAIN x : x[j] = Len(d \o x) - Len(x) + j
    BY <1>1, <1>10, <2>1, <2>5, NextOut
  <2>7. e = d \o x
    BY <1>1, <1>10
  <2> QED
    BY <2>6, <2>7
<1>12. ASSUME Plainly PROVE Feeding'
  <2>1. /\ Feeding /\ GivenOut(stack, may) /\ DOMAIN got = Dest
        /\ In(on.data, "user") => "on data" \in may
    BY <1>12 DEF Orderly, Feeding
  <2>2. \A i \in DOMAIN stack : i > 1 => stack[i].fn # "ondata" /\ stack[i].fn # "on data"
    <3>1. Top.fn \notin Hush(may)
      BY <1>1 DEF Hush
    <3>2. \A i \in DOMAIN stack : i > 1 => stack[i].fn # "ondata"
      BY <1>1, <2>1, <3>1, NothingFeeds
    <3>3. \A i \in DOMAIN stack : i > 1 => i # 1
      BY <1>1, LenProperties
    <3> QED
      BY <2>1, <3>2, <3>3 DEF GivenOut
  <2>3. \A i \in DOMAIN stack' : \/ i \in DOMAIN c /\ stack'[i] = c[i]
                                 \/ \E j \in DOMAIN stack : j > 1 /\ stack'[i] = stack[j]
    <3>1. PICK t, s : t = stack' /\ s = stack
      OBVIOUS
    <3>2. Shifts(t, s, c, 1) /\ Len(c) \in Nat /\ DOMAIN t \subseteq Nat
      BY <1>9, <3>1 DEF Shifts
    <3>3. \A i \in DOMAIN t : i <= Len(c) \/ i > Len(c)
      BY <3>2
    <3>4. \A i \in DOMAIN t : i <= Len(c) => i \in DOMAIN c /\ t[i] = c[i]
      BY <3>2, ShiftsBack
    <3>5. \A i \in DOMAIN t : i > Len(c) => \E j \in DOMAIN s : j > 1 /\ t[i] = s[j]
      BY <3>2, ShiftsBack
    <3> QED
      BY <3>1, <3>3, <3>4, <3>5
  <2>4. \A i \in DOMAIN c : i \in DOMAIN stack' /\ stack'[i] = c[i] /\ \A j \in 1 .. i - 1 : j \in DOMAIN c
    BY <1>9 DEF Shifts
  <2>5. ASSUME NEW i \in DOMAIN stack', stack'[i].fn \in {"ondata", "on data"}
        PROVE  /\ i \in DOMAIN c /\ stack'[i] = c[i] /\ i \in DOMAIN on.data
               /\ stack'[i].fn = "ondata" /\ stack'[i].who = on.data[i] /\ stack'[i].data = x
    <3>1. ~\E j \in DOMAIN stack : j > 1 /\ stack'[i] = stack[j]
      BY <2>2, <2>5
    <3>2. i \in DOMAIN c /\ stack'[i] = c[i]
      BY <2>3, <3>1
    <3> QED
      BY <1>6, <2>5, <3>2
  <2>6. GivenOut(stack, client.is.may)'
    <3>1. ASSUME NEW i \in DOMAIN stack', stack'[i].fn = "unshift" PROVE "unshift" \in may
      <4>1. ~(i \in DOMAIN c /\ stack'[i] = c[i])
        BY <1>6, <3>1
      <4>2. PICK j \in DOMAIN stack : stack'[i] = stack[j]
        BY <2>3, <4>1
      <4> QED
        BY <2>1, <3>1, <4>2 DEF GivenOut
    <3>2. ASSUME NEW i \in DOMAIN stack', stack'[i].fn = "ondata"
          PROVE  /\ Len(stack'[i].data) <= Len(delivered')
                 /\ \A j \in DOMAIN stack'[i].data :
                       stack'[i].data[j] = Len(delivered') - Len(stack'[i].data) + j
                 /\ \A j \in 1 .. i - 1 : stack'[j].fn \in Hush(may)
      <4>1. i \in DOMAIN c /\ stack'[i].data = x
        BY <2>5, <3>2
      <4>2. /\ Len(stack'[i].data) <= Len(delivered')
            /\ \A j \in DOMAIN stack'[i].data :
                  stack'[i].data[j] = Len(delivered') - Len(stack'[i].data) + j
        BY <1>10, <1>11, <4>1
      <4>3. ASSUME NEW j \in 1 .. i - 1 PROVE stack'[j].fn \in Hush(may)
        <5>1. j \in DOMAIN c /\ stack'[j] = c[j] /\ j \in DOMAIN on.data
          BY <1>6, <2>4, <4>1
        <5>2. CASE c[j].fn = "user"
          <6>1. In(on.data, "user")
            BY <1>6, <5>1, <5>2 DEF In
          <6> QED
            BY <2>1, <5>1, <5>2, <6>1 DEF Hush
        <5>3. CASE c[j].fn = "ondata"
          BY <5>1, <5>3 DEF Hush
        <5> QED
          BY <1>6, <5>1, <5>2, <5>3
      <4> QED
        BY <4>2, <4>3
    <3>3. \A i \in DOMAIN stack' : stack'[i].fn # "on data"
      BY <2>5
    <3>4. client'.is.may = may
      BY <1>1
    <3> QED
      BY <3>1, <3>2, <3>3, <3>4 DEF GivenOut, Writes
  <2>7. ASSUME NEW w \in Dest PROVE FedInOrder(w)'
    <3>1. FedInOrder(w) /\ ~Fed(stack, w)
      <4>1. \A i \in DOMAIN stack : i = 1 \/ i > 1
        BY <1>1, LenProperties
      <4> QED
        BY <1>1, <2>1, <2>2, <4>1 DEF Feeding, Fed, Feeds
    <3>2. \A i \in DOMAIN stack' : Feeds(stack'[i], w) =>
             i \in DOMAIN on.data /\ on.data[i] = w /\ stack'[i].data = x
      BY <2>5 DEF Feeds
    <3>3. ~Joining(stack', w)
      BY <2>5 DEF Joining, Joins
    <3>4. In(on.data, w) => Fed(stack', w)
      <4>1. ASSUME NEW i \in DOMAIN on.data, on.data[i] = w PROVE Fed(stack', w)
        <5>1. w # "user" /\ i \in DOMAIN c
          BY <1>4, NameAssumption
        <5> QED
          BY <1>6, <2>4, <4>1, <5>1 DEF Fed, Feeds
      <4> QED
        BY <4>1 DEF In
    <3>5. Fed(stack', w) => In(on.data, w)
      BY <3>2 DEF Fed, In
    <3>6. on' = on /\ got' = got /\ pipe' = pipe /\ dest' = dest
      BY <1>1
    <3>7. \A i, j \in DOMAIN stack' : Feeds(stack'[i], w) /\ Feeds(stack'[j], w) => i = j
      BY <3>1, <3>2 DEF FedInOrder, Once
    <3>8. ASSUME dest[w].status = "open", NEW i \in DOMAIN stack', Feeds(stack'[i], w)
          PROVE  UpTo(got[w], Len(delivered') - Len(stack'[i].data))
      <4>1. In(on.data, w) /\ stack'[i].data = x
        BY <3>2, <3>8 DEF In
      <4>2. UpTo(got[w], Len(delivered))
        BY <3>1, <3>8, <4>1 DEF FedInOrder
      <4> QED
        BY <1>10, <1>11, <4>1, <4>2
    <3>9. Row(got[w]) /\ Once(on.data, w)
          /\ (~pipe[w].used => got[w] = <<>> /\ ~In(on.data, w))
      BY <3>1 DEF FedInOrder
    <3>10. Once(on.data, w)' /\ (In(on.data, w)' <=> In(on.data, w))
      BY <3>6, <3>9 DEF In, Once
    <3> QED
      BY <3>3, <3>4, <3>5, <3>6, <3>7, <3>8, <3>9, <3>10 DEF FedInOrder
  <2>8. DOMAIN got' = Dest /\ (In(on.data, "user")' => "on data" \in client'.is.may)
    BY <1>1, <2>1 DEF In
  <2> QED
    BY <2>6, <2>7, <2>8 DEF Feeding
<1>13. Plainly' = Plainly
  BY <1>1, PlainStays
<1> QED
  BY <1>9, <1>12, <1>13 DEF Orderly

\* k new chunks after n, and then pushes of none.
Chunks(s, n, k) ==
    /\ s \in Seq(Frame) /\ 1 .. k \subseteq DOMAIN s
    /\ \A i \in DOMAIN s : s[i].fn = "push" /\ (IsNew(s[i]) <=> i <= k)
    /\ \A i \in 1 .. k : s[i].data = <<n + i>>

LEMMA ChunksOn ==
    ASSUME NEW s, NEW n, NEW k \in 0 .. 2, Chunks(s, n, k), NEW z \in Seq(Frame),
           \A i \in DOMAIN z : z[i].fn = "push" /\ ~IsNew(z[i])
    PROVE  Chunks(s \o z, n, k)
<1>1. PICK t : t = s \o z
  OBVIOUS
<1>2. s \in Seq(Frame) /\ 1 .. k \subseteq DOMAIN s
  BY DEF Chunks
<1>3. /\ Len(s) \in Nat /\ Len(z) \in Nat /\ DOMAIN s = 1 .. Len(s) /\ DOMAIN z = 1 .. Len(z)
      /\ DOMAIN t = 1 .. Len(s) + Len(z) /\ t \in Seq(Frame)
      /\ \A i \in 1 .. Len(s) : t[i] = s[i]
      /\ \A i \in Len(s) + 1 .. Len(s) + Len(z) : t[i] = z[i - Len(s)]
  BY <1>1, <1>2, OnTop, LenProperties, ConcatProperties
<1>4. k <= Len(s)
  <2>1. k = 0 \/ k \in 1 .. k
    OBVIOUS
  <2>2. CASE k = 0
    BY <1>3, <2>2
  <2>3. CASE k \in 1 .. k
    <3>1. k \in 1 .. Len(s)
      BY <1>2, <1>3, <2>3
    <3> QED
      BY <3>1
  <2> QED
    BY <2>1, <2>2, <2>3
<1>5. ASSUME NEW i \in DOMAIN t PROVE t[i].fn = "push" /\ (IsNew(t[i]) <=> i <= k)
  <2>1. CASE i \in 1 .. Len(s)
    BY <1>3, <2>1 DEF Chunks
  <2>2. CASE i \in Len(s) + 1 .. Len(s) + Len(z)
    <3>1. i - Len(s) \in DOMAIN z /\ t[i] = z[i - Len(s)] /\ ~(i <= k)
      BY <1>3, <1>4, <2>2
    <3> QED
      BY <3>1
  <2> QED
    BY <1>3, <2>1, <2>2
<1>6. \A i \in 1 .. k : i \in DOMAIN t /\ t[i].data = <<n + i>>
  <2>1. \A i \in 1 .. k : i \in 1 .. Len(s)
    BY <1>2, <1>3
  <2>2. \A i \in 1 .. Len(s) : i \in DOMAIN t
    BY <1>3
  <2> QED
    BY <1>3, <2>1, <2>2 DEF Chunks
<1> QED
  BY <1>1, <1>3, <1>5, <1>6 DEF Chunks

LEMMA PushesChunks ==
    ASSUME source.count \in Nat, NEW k \in 0 .. 2, NEW end \in BOOLEAN
    PROVE  Chunks(Pushes(k, end), source.count, k)
<1> DEFINE n == source.count
           a == [i \in 1 .. k |-> PushOf(<<n + i>>)]
           b == IF end THEN <<PushOf(<<>>)>> ELSE <<>>
           z == IF k = 0 /\ ~end THEN <<PushOf(<<0>>)>> ELSE <<>>
<1>1. k \in Nat /\ Pushes(k, end) = (a \o b) \o z
  BY DEF Pushes
<1>2. \A d \in Seq(Nat) : PushOf(d) \in Frame /\ PushOf(d).fn = "push" /\ PushOf(d).data = d
  BY PushFrame
<1>3. \A i \in 1 .. k : <<n + i>> \in Seq(Nat) /\ <<n + i>> # <<>> /\ <<n + i>> # <<0>>
  <2> SUFFICES ASSUME NEW i \in 1 .. k PROVE <<n + i>> \in Seq(Nat) /\ <<n + i>> # <<>> /\ <<n + i>> # <<0>>
    OBVIOUS
  <2>1. n + i \in Nat /\ n + i # 0
    BY <1>1
  <2>2. \A m \in Nat : m # 0 => <<m>> \in Seq(Nat) /\ <<m>> # <<>> /\ <<m>> # <<0>>
    OBVIOUS
  <2> QED
    BY <2>1, <2>2
<1>4. Chunks(a, n, k)
  <2>1. DOMAIN a = 1 .. k /\ \A i \in 1 .. k : a[i] = PushOf(<<n + i>>)
    OBVIOUS
  <2>2. a \in [1 .. k -> Frame]
    BY <1>2, <1>3, <2>1
  <2> HIDE DEF a
  <2>3. a \in Seq(Frame)
    BY <1>1, <2>2, Mapped
  <2>4. \A i \in 1 .. k : a[i].fn = "push" /\ a[i].data = <<n + i>>
    <3> SUFFICES ASSUME NEW i \in 1 .. k PROVE a[i].fn = "push" /\ a[i].data = <<n + i>>
      OBVIOUS
    <3>1. PICK d : d = <<n + i>>
      OBVIOUS
    <3>2. d \in Seq(Nat) /\ a[i] = PushOf(d)
      BY <1>3, <2>1, <3>1
    <3>3. PushOf(d).fn = "push" /\ PushOf(d).data = d
      BY <1>2, <3>2
    <3> QED
      BY <3>1, <3>2, <3>3
  <2>5. \A i \in 1 .. k : IsNew(a[i])
    BY <1>3, <2>4 DEF IsNew, IsChunk
  <2>6. \A i \in 1 .. k : i <= k
    BY <1>1
  <2> QED
    BY <2>1, <2>3, <2>4, <2>5, <2>6 DEF Chunks
<1>5. /\ <<>> \in Seq(Frame) /\ DOMAIN <<>> = {}
      /\ \A f \in Frame : <<f>> \in Seq(Frame) /\ DOMAIN <<f>> = {1} /\ <<f>>[1] = f
  BY EmptySeq, OneOf
<1>6. <<>> \in Seq(Nat) /\ <<0>> \in Seq(Nat)
  BY EmptySeq
<1>7. \A d \in {<<>>, <<0>>} : PushOf(d) \in Frame /\ PushOf(d).fn = "push" /\ ~IsNew(PushOf(d))
  BY <1>2, <1>6 DEF IsNew, IsChunk
<1>8. /\ b \in Seq(Frame) /\ \A i \in DOMAIN b : b[i].fn = "push" /\ ~IsNew(b[i])
      /\ z \in Seq(Frame) /\ \A i \in DOMAIN z : z[i].fn = "push" /\ ~IsNew(z[i])
  <2>1. \A f \in Frame : f.fn = "push" /\ ~IsNew(f) =>
           <<f>> \in Seq(Frame) /\ \A i \in DOMAIN <<f>> : <<f>>[i].fn = "push" /\ ~IsNew(<<f>>[i])
    BY <1>5
  <2>2. b = <<>> \/ b = <<PushOf(<<>>)>>
    OBVIOUS
  <2>3. z = <<>> \/ z = <<PushOf(<<0>>)>>
    OBVIOUS
  <2> HIDE DEF b, z
  <2> QED
    BY <1>5, <1>7, <2>1, <2>2, <2>3
<1> HIDE DEF a, b, z, n
<1>9. Chunks(a \o b, n, k)
  BY <1>4, <1>8, ChunksOn
<1>10. Chunks((a \o b) \o z, n, k)
  BY <1>8, <1>9, ChunksOn
<1> QED
  BY <1>1, <1>10 DEF n

LEMMA CountsNew ==
    ASSUME NEW t, NEW n \in Nat, NEW k \in 0 .. 2, DOMAIN t \subseteq Nat \ {0}, 1 .. k \subseteq DOMAIN t,
           \A i \in DOMAIN t : IsNew(t[i]) <=> i <= k,
           \A i \in 1 .. k : t[i].data = <<n + i>>
    PROVE  Counts(t, n + k) /\ HowMany(t) = k
<1>1. \A i \in DOMAIN t : IsNew(t[i]) => i \in 1 .. k
  <2> SUFFICES ASSUME NEW i \in DOMAIN t, IsNew(t[i]) PROVE i \in 1 .. k
    OBVIOUS
  <2>1. i \in Nat \ {0} /\ i <= k
    OBVIOUS
  <2> QED
    BY <2>1
<1>2. \A i \in 1 .. k : i \in DOMAIN t /\ IsNew(t[i])
  <2>1. \A i \in 1 .. k : i <= k
    OBVIOUS
  <2> QED
    BY <2>1
<1>3. k = 0 \/ k = 1 \/ k = 2
  OBVIOUS
<1>4. 1 .. 0 = {} /\ 1 .. 1 = {1} /\ 1 .. 2 = {1, 2}
  OBVIOUS
<1>5. ASSUME NEW i \in DOMAIN t, IsNew(t[i])
      PROVE  t[i].data = <<n + k - (IF NewFrom(t, i + 1) THEN 1 ELSE 0)>>
  <2>1. i \in 1 .. k /\ t[i].data = <<n + i>>
    BY <1>1, <1>5
  <2>2. CASE k = 1
    <3>1. i = 1 /\ ~NewFrom(t, 2)
      BY <1>1, <1>4, <2>1, <2>2 DEF NewFrom
    <3> QED
      BY <2>1, <2>2, <3>1
  <2>3. CASE k = 2 /\ i = 1
    <3>1. 2 \in DOMAIN t /\ IsNew(t[2]) /\ 2 >= 1 + 1
      BY <1>2, <1>4, <2>3
    <3>2. NewFrom(t, i + 1) /\ n + k - 1 = n + i
      BY <2>3, <3>1 DEF NewFrom
    <3> QED
      BY <2>1, <3>2
  <2>4. CASE k = 2 /\ i = 2
    <3>1. ~NewFrom(t, 3)
      BY <1>1, <1>4, <2>4 DEF NewFrom
    <3> QED
      BY <2>1, <2>4, <3>1
  <2> QED
    BY <1>3, <1>4, <2>1, <2>2, <2>3, <2>4
<1>6. ASSUME NEW i \in DOMAIN t, NEW j \in DOMAIN t, NEW l \in DOMAIN t, i < j, j < l,
             IsNew(t[i]), IsNew(t[j]), IsNew(t[l])
      PROVE  FALSE
  <2>1. i \in 1 .. k /\ j \in 1 .. k /\ l \in 1 .. k
    BY <1>1, <1>6
  <2> QED
    BY <1>3, <1>6, <2>1
<1>7. HowMany(t) = k
  <2>1. CASE k = 0
    BY <1>1, <1>4, <2>1 DEF HowMany, NewTwice, NewFrom
  <2>2. CASE k = 1
    <3>1. NewFrom(t, 1)
      BY <1>2, <1>4, <2>2 DEF NewFrom
    <3>2. ~NewTwice(t)
      BY <1>1, <1>4, <2>2 DEF NewTwice
    <3> QED
      BY <2>2, <3>1, <3>2 DEF HowMany
  <2>3. CASE k = 2
    <3>1. NewTwice(t)
      BY <1>2, <1>4, <2>3 DEF NewTwice
    <3> QED
      BY <2>3, <3>1 DEF HowMany
  <2> QED
    BY <1>3, <2>1, <2>2, <2>3
<1> QED
  BY <1>5, <1>6, <1>7 DEF Counts

\* There is no new chunk in s; what its first b give way to writes nothing
\* and is above nothing that does.
NoneNew(s) == \A i \in DOMAIN s : ~IsNew(s[i])
GivesWay(s, b) == \A i \in DOMAIN s : i <= b => s[i].fn # "ondata"
Clear(s, b) == \A i \in DOMAIN s : /\ i > b => s[i].fn # "ondata"
                                   /\ s[i].fn = "on data" => i <= b

\* The source answers, with what was below or on its own.
LEMMA OrderGives ==
    ASSUME Inv, Orderly, NEW k \in 0 .. 2, NEW end \in BOOLEAN, Gives(k, end), NEW b \in {0, 1},
           Shifts(stack', stack, Pushes(k, end), b), NoneNew(stack), GivesWay(stack, b), Plainly => Clear(stack, b)
    PROVE  Orderly'
<1> DEFINE c == Pushes(k, end)
           n == source.count
<1>1. n \in Nat /\ UNCHANGED <<r, on, pipe, dest, client, pushed, delivered, got>>
  BY Given
<1>2. source'.count = n + k
  BY DEF Gives, Inv, Others
<1>3. Chunks(c, n, k) /\ Shifts(stack', stack, c, b)
  BY <1>1, PushesChunks
<1> HIDE DEF c, n
<1>4. \A i \in DOMAIN c : c[i].fn = "push"
  BY <1>3 DEF Chunks
<1>5. PICK t, s : t = stack' /\ s = stack
  OBVIOUS
<1>6. Shifts(t, s, c, b) /\ \A i \in DOMAIN s : ~IsNew(s[i])
  BY <1>3, <1>5 DEF NoneNew
<1>7. /\ DOMAIN t \subseteq Nat \ {0} /\ Len(c) \in Nat /\ DOMAIN c = 1 .. Len(c)
      /\ \A i \in DOMAIN c : i \in DOMAIN t /\ t[i] = c[i]
  <2>1. /\ Len(c) \in Nat /\ DOMAIN c = 1 .. Len(c) /\ Len(s) \in Nat /\ b <= Len(s)
        /\ DOMAIN t = 1 .. Len(c) + Len(s) - b /\ b \in {0, 1}
        /\ \A i \in 1 .. Len(c) : t[i] = c[i]
    BY <1>6 DEF Shifts
  <2>2. 1 .. Len(c) \subseteq 1 .. Len(c) + Len(s) - b /\ 1 .. Len(c) + Len(s) - b \subseteq Nat \ {0}
    BY <2>1
  <2> QED
    BY <2>1, <2>2
<1>8. 1 .. k \subseteq DOMAIN t /\ \A i \in 1 .. k : t[i].data = <<n + i>>
  BY <1>3, <1>7 DEF Chunks
<1>9. ASSUME NEW i \in DOMAIN t PROVE IsNew(t[i]) <=> i <= k
  <2>1. CASE i \in DOMAIN c
    BY <1>3, <1>7, <2>1 DEF Chunks
  <2>2. CASE i \notin DOMAIN c
    <3>1. i > Len(c)
      <4>1. i \in Nat \ {0} /\ i \notin 1 .. Len(c) /\ Len(c) \in Nat
        BY <1>7, <2>2
      <4> QED
        BY <4>1
    <3>2. ~IsNew(t[i])
      <4>1. \E j \in DOMAIN s : t[i] = s[j]
        BY <1>6, <3>1, ShiftsBack
      <4> QED
        BY <1>6, <4>1
    <3>3. ~(i <= k)
      <4>1. i \notin 1 .. k
        BY <1>3, <2>2 DEF Chunks
      <4>2. i \in Nat \ {0} /\ k \in Nat
        BY <1>7
      <4> QED
        BY <4>1, <4>2
    <3> QED
      BY <3>2, <3>3
  <2> QED
    BY <2>1, <2>2
<1>10. Counts(t, n + k) /\ HowMany(t) = k
  BY <1>1, <1>7, <1>8, <1>9, CountsNew
<1>11. HowMany(s) = 0
  BY <1>6 DEF HowMany, NewTwice, NewFrom
<1>12. Counted'
  <2>1. CASE r.ended \/ Failed
    BY <1>1, <2>1 DEF Orderly, Counted, Failed
  <2>2. CASE ~r.ended /\ ~Failed
    <3>1. Len(pushed) = n - 0 /\ \A i \in DOMAIN pushed : pushed[i] = i
      BY <1>5, <1>11, <2>2 DEF Orderly, Counted, n
    <3>2. n - 0 = (n + k) - k
      <4>1. n \in Int /\ k \in Int
        BY <1>1
      <4> QED
        BY <4>1
    <3>3. Len(pushed') = source'.count - HowMany(stack') /\ Counts(stack', source'.count)
      BY <1>1, <1>2, <1>5, <1>10, <3>1, <3>2
    <3> QED
      BY <1>1, <3>1, <3>3 DEF Counted
  <2> QED
    BY <2>1, <2>2
<1>13. ASSUME Plainly PROVE Feeding'
  <2>1. Feeding /\ SameFeed
    BY <1>1, <1>13, KeptFeeds DEF Orderly
  <2>2. MayReplace(c, stack, b, client.is.may) /\ \A d \in Dest : ~Joining(c, d)
    BY <1>4, <1>13 DEF MayReplace, Joining, Joins, Clear
  <2>3. \A i \in DOMAIN stack : i <= b => stack[i].fn # "ondata"
    BY DEF GivesWay
  <2> QED
    BY <1>3, <2>1, <2>2, <2>3, FeedsOn
<1>14. Plainly' = Plainly
  BY <1>1, PlainStays
<1> QED
  BY <1>12, <1>13, <1>14 DEF Orderly

LEMMA RestShifts ==
    ASSUME stack = <<>>, NEW S, NEW c \in Seq(S), stack' = c
    PROVE  Shifts(stack', stack, c, 0) /\ \A i \in DOMAIN stack : FALSE
<1>1. <<>> \in Seq(S) /\ c \o <<>> = c /\ DOMAIN <<>> = {}
  BY EmptySeq, ConcatEmptySeq
<1>2. Shifts(c \o <<>>, <<>>, c, 0)
  BY <1>1, ShiftsAll
<1> QED
  BY <1>1, <1>2

LEMMA RestFeeds ==
    ASSUME Feeding, SameFeed, stack = <<>>, NEW S, NEW c \in Seq(S), stack' = c,
           \A i \in DOMAIN c : c[i].fn \notin Special
    PROVE  Feeding'
<1>1. Shifts(stack', stack, c, 0) /\ \A i \in DOMAIN stack : FALSE
  BY RestShifts
<1>2. MayReplace(c, stack, 0, client.is.may) /\ \A d \in Dest : ~Joining(c, d)
  BY <1>1 DEF MayReplace, Joining, Joins, Special
<1> QED
  BY <1>1, <1>2, FeedsOn

LEMMA OrderRest ==
    ASSUME Orderly, stack = <<>>, SameSource, SameFeed, NEW c \in Seq(Placid), stack' = c
    PROVE  Orderly'
<1>1. \A i \in DOMAIN c : c[i].fn \notin Special /\ ~IsNew(c[i])
  BY EachOf DEF Placid, IsNew, IsChunk
<1>2. Shifts(stack', stack, c, 0) /\ \A i \in DOMAIN stack : FALSE
  BY RestShifts
<1>3. Counted'
  BY <1>1, <1>2, CountedOn DEF Orderly
<1>4. Plainly => Feeding'
  BY <1>1, RestFeeds DEF Orderly
<1>5. Plainly' = Plainly
  BY PlainStays DEF SameFeed
<1> QED
  BY <1>3, <1>4, <1>5 DEF Orderly

LEMMA OrderRunTick == ASSUME Inv, Orderly, RunTick PROVE Orderly'
<1> DEFINE f == Head(ticks)
<1>1. /\ stack = <<>> /\ ticks # <<>> /\ stack' = <<f>>
      /\ UNCHANGED <<r, on, pipe, dest, source, client, pushed, delivered, got>>
  BY DEF RunTick, World, log
<1>2. SameSource
  BY <1>1 DEF SameSource, Failed
<1>3. SameFeed
  BY <1>1, KeptFeeds
<1>4. f \in Placid
  <2>1. ticks \in Seq(Frame) /\ \A i \in DOMAIN ticks : ticks[i].fn \in InTicks
    BY DEF Inv, TicksFit, TickFits
  <2>2. f = ticks[1] /\ f \in Frame /\ 1 \in DOMAIN ticks
    <3>1. Head(ticks) = ticks[1] /\ Len(ticks) \in Nat \ {0} /\ DOMAIN ticks = 1 .. Len(ticks)
      BY <1>1, <2>1, Below
    <3>2. 1 \in DOMAIN ticks
      BY <3>1
    <3> QED
      BY <2>1, <3>1, <3>2, EachOf
  <2>3. f.fn \in InTicks
    BY <2>1, <2>2
  <2> QED
    BY <2>2, <2>3 DEF Placid, InTicks, Special
<1> HIDE DEF f
<1> QED
  BY <1>1, <1>2, <1>3, <1>4, PlacidOnes, OrderRest

LEMMA OrderDest == ASSUME Inv, Waiting, Orderly, NEW d \in Dest, DestDrains(d) \/ DestFinishes(d) PROVE Orderly'
<1>1. /\ stack = <<>>
      /\ stack' = <<>> \/ stack' = <<For("ondrain", d)>> \/ stack' = <<For("unpipe", d)>>
      /\ UNCHANGED <<r, on, pipe, source, client, pushed, delivered, got>>
  BY DEF DestDrains, DestFinishes, Elsewhere, log
<1>2. \A e \in Dest : dest'[e].status = "open" => dest[e].status = "open"
  <2>1. \/ dest' = [dest EXCEPT ![d].needDrain = FALSE]
        \/ dest' = [dest EXCEPT ![d].status = "finished"]
    BY DEF DestDrains, DestFinishes
  <2>2. DOMAIN dest = Dest /\ {"status", "needDrain"} \subseteq DOMAIN dest[d]
    BY DEF Waiting, Listeners
  <2> QED
    BY <2>1, <2>2
<1>3. SameSource
  BY <1>1 DEF SameSource, Failed
<1>4. SameFeed
  BY <1>1, <1>2, KeptFeeds
<1>5. For("ondrain", d) \in Placid /\ For("unpipe", d) \in Placid
  BY Placids, PlacidPieces
<1> QED
  BY <1>1, <1>3, <1>4, <1>5, PlacidOnes, OrderRest

LEMMA OrderAtOnce == ASSUME Inv, Orderly, SourceAnswersAtOnce PROVE Orderly'
<1>1. PICK k \in 0 .. 2, end \in BOOLEAN : Gives(k, end) /\ stack' = Pushes(k, end) \o Tail(stack)
  BY DEF SourceAnswersAtOnce, Then
<1>2. /\ stack # <<>> /\ Top.fn = "_read" /\ Top = stack[1] /\ stack \in Seq(Frame)
      /\ DOMAIN stack = 1 .. Len(stack) /\ Len(stack) \in Nat
  BY Topmost, LenProperties DEF SourceAnswersAtOnce, Runs
<1>3. Shifts(stack', stack, Pushes(k, end), 1)
  <2>1. Pushes(k, end) \in Seq(Frame)
    <3>1. source.count \in Nat
      BY DEF Inv, Others
    <3> QED
      BY <3>1, PushesChunks DEF Chunks
  <2> QED
    BY <1>1, <1>2, <2>1, ShiftsTail
<1>4. NoneNew(stack)
  <2> SUFFICES ASSUME NEW i \in DOMAIN stack, IsNew(stack[i]) PROVE FALSE
    BY DEF NoneNew
  <2>1. i # 1
    BY <1>2 DEF IsNew, IsChunk
  <2>2. 1 \in 1 .. i - 1
    BY <1>2, <2>1
  <2>3. \A j \in 1 .. i - 1 : stack[j].fn \in Quick \ {"_read"}
    BY <2>1 DEF Inv, Stacked, Shape, IsNew
  <2> QED
    BY <1>2, <2>2, <2>3
<1>5. GivesWay(stack, 1)
  <2>1. \A i \in DOMAIN stack : i <= 1 => i = 1
    BY <1>2
  <2> QED
    BY <1>2, <2>1 DEF GivesWay
<1>6. ASSUME Plainly PROVE Clear(stack, 1)
  <2>1. GivenOut(stack, client.is.may)
    BY <1>6 DEF Orderly, Feeding
  <2>2. Top.fn \notin Hush(client.is.may)
    BY <1>2 DEF Hush
  <2>3. \A i \in DOMAIN stack : i > 1 => stack[i].fn # "ondata"
    BY <1>2, <2>1, <2>2, NothingFeeds
  <2>4. \A i \in DOMAIN stack : stack[i].fn = "on data" => i = 1
    BY <2>1 DEF GivenOut
  <2>5. 1 <= 1
    OBVIOUS
  <2> QED
    BY <2>3, <2>4, <2>5, Zenon DEF Clear
<1> QED
  BY <1>1, <1>3, <1>4, <1>5, <1>6, OrderGives

LEMMA OrderLater == ASSUME Inv, Orderly, SourceAnswersLater \/ SourcePushesUnasked PROVE Orderly'
<1>1. stack = <<>> /\ \E k \in 0 .. 2, end \in BOOLEAN : Gives(k, end) /\ stack' = Pushes(k, end)
  <2>1. CASE SourceAnswersLater
    <3>1. 0 .. 1 \subseteq 0 .. 2
      OBVIOUS
    <3> QED
      BY <2>1, <3>1 DEF SourceAnswersLater
  <2>2. CASE SourcePushesUnasked
    <3>1. stack = <<>> /\ \E end \in BOOLEAN : /\ Gives(IF end THEN 0 ELSE 1, end)
                                               /\ stack' = Pushes(IF end THEN 0 ELSE 1, end)
      BY <2>2 DEF SourcePushesUnasked
    <3>2. \A end \in BOOLEAN : (IF end THEN 0 ELSE 1) \in 0 .. 2
      OBVIOUS
    <3> QED
      BY <3>1, <3>2
  <2> QED
    BY <2>1, <2>2
<1>2. PICK k \in 0 .. 2, end \in BOOLEAN : Gives(k, end) /\ stack' = Pushes(k, end)
  BY <1>1
<1>3. Pushes(k, end) \in Seq(Frame)
  <2>1. source.count \in Nat
    BY DEF Inv, Others
  <2> QED
    BY <2>1, PushesChunks DEF Chunks
<1>4. Shifts(stack', stack, Pushes(k, end), 0) /\ \A i \in DOMAIN stack : FALSE
  BY <1>1, <1>2, <1>3, RestShifts
<1>5. NoneNew(stack) /\ GivesWay(stack, 0) /\ Clear(stack, 0)
  BY <1>4 DEF NoneNew, GivesWay, Clear
<1> QED
  BY <1>2, <1>4, <1>5, OrderGives

LEMMA OrderLate == ASSUME Inv, Orderly, SourcePushesLate PROVE Orderly'
<1> DEFINE f == PushOf(<<source.count + 1>>)
<1>1. /\ stack = <<>> /\ source.eof /\ stack' = <<f>>
      /\ UNCHANGED <<r, on, pipe, dest, client, pushed, delivered, got>>
  BY DEF SourcePushesLate, log
<1>2. r.ended
  BY <1>1, Still
<1>3. Counted'
  BY <1>1, <1>2 DEF Orderly, Counted
<1>4. f.fn = "push"
  BY DEF PushOf, Do
<1> HIDE DEF f
<1>5. ASSUME Plainly PROVE Feeding'
  <2>1. <<f>> \in Seq({f}) /\ \A i \in DOMAIN <<f>> : <<f>>[i].fn \notin Special
    <3>1. <<f>> \in Seq({f}) /\ DOMAIN <<f>> = {1} /\ <<f>>[1] = f
      BY OneOf
    <3> QED
      BY <1>4, <3>1 DEF Special
  <2>2. SameFeed
    BY <1>1, KeptFeeds
  <2> QED
    BY <1>1, <1>5, <2>1, <2>2, RestFeeds DEF Orderly
<1>6. Plainly' = Plainly
  BY <1>1, PlainStays
<1> QED
  BY <1>3, <1>5, <1>6 DEF Orderly

LEMMA OneIs == \A f : DOMAIN <<f>> = {1} /\ <<f>>[1] = f
  OBVIOUS

LEMMA NoneBefore ==
    ASSUME NEW S, NEW s \in Seq(S)
    PROVE  \A i \in DOMAIN s : ~(i <= 0) /\ s # <<>> /\ (i # 1 => 1 \in 1 .. i - 1)
<1>1. DOMAIN s = 1 .. Len(s) /\ Len(s) \in Nat
  BY LenProperties
<1>2. \A i \in 1 .. Len(s) : ~(i <= 0) /\ (i # 1 => 1 \in 1 .. i - 1)
  BY <1>1
<1>3. s = <<>> => DOMAIN s = {}
  OBVIOUS
<1> QED
  BY <1>1, <1>2, <1>3

\* Calls a client that listens to 'data' does not make, when it does not make
\* chunks come within the emission of another and puts none back.
Barred == {"read()", "read(1)", "unpipe", "unpipe all", "unshift"}

LEMMA OrderCalls ==
    ASSUME Inv, Orderly, NEW call, NEW f \in Frame, Calls(call, f), dest' = dest,
           f.fn \notin {"ondata", "push"},
           f.fn = "on data" => call = "on data" /\ f.who \notin Dest,
           f.fn = "unshift" => call = "unshift",
           call \in Barred \/ f.fn \in Hush({"on data"})
    PROVE  Orderly'
<1>1. /\ stack = <<>> \/ (stack # <<>> /\ Top.fn = "user" /\ Top = stack[1])
      /\ stack \in Seq(Frame) /\ DOMAIN stack = 1 .. Len(stack) /\ Len(stack) \in Nat
      /\ call \in client.is.may /\ stack' = <<f>> \o stack
      /\ UNCHANGED <<r, on, pipe, dest, source, pushed, delivered, got>>
  <2>1. stack \in Seq(Frame)
    BY DEF Inv, Stacked, Shape
  <2>2. stack = <<>> \/ (stack # <<>> /\ Top.fn = "user" /\ Top = stack[1])
    BY Topmost DEF Calls, MayCall, Runs
  <2> QED
    BY <2>1, <2>2, LenProperties DEF Calls, MayCall, log
<1>2. client'.is = client.is
  BY DEF Calls, Inv, Others
<1> DEFINE c == <<f>>
<1>3. c \in Seq(Frame) /\ DOMAIN c = {1} /\ c[1] = f
  BY OneIs, OneOf
<1>4. Shifts(stack', stack, c, 0)
  BY <1>1, <1>3, ShiftsAll
<1> HIDE DEF c
<1>5. SameSource
  BY <1>1 DEF SameSource, Failed
<1>6. SameFeed
  BY <1>1, <1>2 DEF SameFeed, SameFor, In, Once
<1>7. Counted'
  <2>1. \A i \in DOMAIN c : ~IsNew(c[i])
    BY <1>3 DEF IsNew, IsChunk
  <2>2. \A i \in DOMAIN stack : ~(i <= 0)
    BY <1>1, NoneBefore
  <2>3. Counted
    BY DEF Orderly
  <2> QED
    BY <1>4, <1>5, <2>1, <2>2, <2>3, CountedOn
<1>8. ASSUME Plainly PROVE Feeding'
  <2>1. Feeding /\ GivenOut(stack, client.is.may)
    BY <1>8 DEF Orderly, Feeding
  <2>2. \A i \in DOMAIN stack : stack[i].fn # "on data"
    <3>1. \A i \in DOMAIN stack : stack[i].fn = "on data" => i = 1
      BY <2>1 DEF GivenOut
    <3>2. stack # <<>> => stack[1].fn = "user"
      BY <1>1
    <3>3. \A i \in DOMAIN stack : stack # <<>>
      BY <1>1, NoneBefore
    <3> QED
      BY <3>1, <3>2, <3>3
  <2>3. ASSUME NEW i \in DOMAIN stack, stack[i].fn = "ondata" PROVE f.fn \in Hush(client.is.may)
    <3>1. stack # <<>> /\ stack[1].fn = "user"
      <4>1. stack # <<>>
        BY <1>1, NoneBefore
      <4> QED
        BY <1>1, <4>1
    <3>2. i # 1
      BY <2>3, <3>1
    <3>3. 1 \in 1 .. i - 1
      BY <1>1, <3>2, NoneBefore
    <3>4. "user" \in Hush(client.is.may)
      BY <2>1, <2>3, <3>1, <3>3 DEF GivenOut
    <3>5. "on data" \in client.is.may
      BY <3>4 DEF Hush
    <3>6. call \notin Barred
      BY <1>1, <1>8, <3>5 DEF Plainly, ReadsInData, Barred
    <3> QED
      BY <3>5, <3>6 DEF Hush
  <2>4. \A i \in DOMAIN c :
           /\ c[i].fn # "ondata"
           /\ c[i].fn = "on data" => i = 1 /\ (c[i].who = "user" => "on data" \in client.is.may)
           /\ c[i].fn = "unshift" => "unshift" \in client.is.may
    BY <1>1, <1>3
  <2>5. \/ \A i \in DOMAIN c : c[i].fn \in Hush(client.is.may)
        \/ \A i \in DOMAIN stack : stack[i].fn # "ondata"
    BY <1>3, <2>3
  <2>6. MayReplace(c, stack, 0, client.is.may)
    BY <2>2, <2>4, <2>5 DEF MayReplace
  <2>7. \A d \in Dest : ~Joining(c, d)
    BY <1>3 DEF Joining, Joins
  <2>8. \A j \in DOMAIN stack : j <= 0 => stack[j].fn # "ondata"
    BY <1>1, NoneBefore
  <2> QED
    BY <1>4, <1>6, <2>1, <2>6, <2>7, <2>8, FeedsOn
<1>9. Plainly' = Plainly
  BY <1>2, PlainStays
<1> QED
  BY <1>7, <1>8, <1>9 DEF Orderly

LEMMA OrderListens == ASSUME Inv, Orderly, ClientListens PROVE Orderly'
<1>1. \A f \in {"on data", "off data"} :
         For(f, "user") \in Frame /\ For(f, "user").fn = f /\ For(f, "user").who = "user"
  <2>1. {"on data", "off data"} \subseteq Pieces /\ "user" \in Dest \cup {"user"}
    BY DEF Pieces
  <2> QED
    BY <2>1, FrameFor
<1>2. \A f \in {"on readable", "off readable"} : Do(f) \in Frame /\ Do(f).fn = f
  <2>1. {"on readable", "off readable"} \subseteq Pieces
    BY DEF Pieces
  <2> QED
    BY <2>1, Frames
<1>3. {"on data", "off data", "on readable", "off readable"} \subseteq Hush({"on data"})
  BY DEF Hush
<1>4. CASE Calls("on data", For("on data", "user")) /\ dest' = dest
  BY <1>1, <1>3, <1>4, NameAssumption, OrderCalls
<1>5. CASE Calls("off data", For("off data", "user")) /\ dest' = dest
  BY <1>1, <1>3, <1>5, OrderCalls
<1>6. CASE Calls("on readable", Do("on readable")) /\ dest' = dest
  BY <1>2, <1>3, <1>6, OrderCalls
<1>7. CASE Calls("off readable", Do("off readable")) /\ dest' = dest
  BY <1>2, <1>3, <1>7, OrderCalls
<1> QED
  BY <1>4, <1>5, <1>6, <1>7 DEF ClientListens

LEMMA OrderReads == ASSUME Inv, Orderly, ClientReads PROVE Orderly'
<1>1. Read(NaN) \in Frame /\ Read(NaN).fn = "read" /\ Read(1) \in Frame /\ Read(1).fn = "read"
  <2>1. NaN \in -1 .. 1 /\ 1 \in -1 .. 1
    BY NotANumber
  <2> QED
    BY <2>1, Frames
<1>2. ASSUME delivered # <<>>
      PROVE  \E f \in Frame : f.fn = "unshift" /\ f = [Do("unshift") EXCEPT !.data = <<Last(delivered)>>]
  <2> DEFINE b == <<Last(delivered)>>
  <2>1. delivered \in Seq(Nat)
    BY DEF Inv, Others
  <2>2. Last(delivered) \in Nat
    BY <1>2, <2>1, LastBack
  <2>3. b \in Seq(Nat) /\ "unshift" \in Pieces
    BY <2>2 DEF Pieces
  <2> HIDE DEF b
  <2>4. [Do("unshift") EXCEPT !.data = b] \in Frame
    BY <2>3, Frames
  <2>5. [Do("unshift") EXCEPT !.data = b].fn = "unshift"
    BY DEF Do
  <2> QED
    BY <2>4, <2>5 DEF b
<1>3. CASE Calls("read()", Read(NaN)) /\ dest' = dest
  BY <1>1, <1>3, OrderCalls DEF Barred
<1>4. CASE Calls("read(1)", Read(1)) /\ dest' = dest
  BY <1>1, <1>4, OrderCalls DEF Barred
<1>5. CASE /\ delivered # <<>> /\ Calls("unshift", [Do("unshift") EXCEPT !.data = <<Last(delivered)>>])
           /\ dest' = dest
  <2>1. PICK f \in Frame : f.fn = "unshift" /\ Calls("unshift", f)
    BY <1>2, <1>5
  <2> QED
    BY <1>5, <2>1, OrderCalls DEF Barred
<1> QED
  BY <1>3, <1>4, <1>5 DEF ClientReads

LEMMA OrderPauses == ASSUME Inv, Orderly, ClientPauses PROVE Orderly'
<1>1. PICK call \in {"pause", "resume"} : Calls(call, Do(call)) /\ dest' = dest
  BY DEF ClientPauses
<1>2. Do(call) \in Frame /\ Do(call).fn = call
  <2>1. call \in Pieces
    BY DEF Pieces
  <2> QED
    BY <2>1, Frames
<1>3. call \in Hush({"on data"})
  BY DEF Hush
<1> QED
  BY <1>1, <1>2, <1>3, OrderCalls

LEMMA OrderPipes == ASSUME Inv, Orderly, ClientPipes PROVE Orderly'
<1>1. \A d \in Dest : \A f \in {"pipe", "unpipe"} : For(f, d) \in Frame /\ For(f, d).fn = f
  <2>1. {"pipe", "unpipe"} \subseteq Pieces
    BY DEF Pieces
  <2> QED
    BY <2>1, FrameFor
<1>2. Do("unpipe all") \in Frame /\ Do("unpipe all").fn = "unpipe all"
  <2>1. "unpipe all" \in Pieces
    BY DEF Pieces
  <2> QED
    BY <2>1, Frames
<1>3. "pipe" \in Hush({"on data"})
  BY DEF Hush
<1>4. ASSUME NEW d \in Dest, Calls("pipe", For("pipe", d)), dest' = dest PROVE Orderly'
  BY <1>1, <1>3, <1>4, OrderCalls
<1>5. ASSUME NEW d \in Dest, Calls("unpipe", For("unpipe", d)), dest' = dest PROVE Orderly'
  BY <1>1, <1>5, OrderCalls DEF Barred
<1>6. ASSUME Calls("unpipe all", Do("unpipe all")), dest' = dest PROVE Orderly'
  BY <1>2, <1>6, OrderCalls DEF Barred
<1> QED
  BY <1>4, <1>5, <1>6 DEF ClientPipes

LEMMA OrderDestroys == ASSUME Inv, Orderly, ClientDestroys PROVE Orderly'
<1>1. PICK n \in {0, 1} : Calls("destroy", [Do("destroy") EXCEPT !.n = n]) /\ dest' = dest
  BY DEF ClientDestroys
<1>2. [Do("destroy") EXCEPT !.n = n] \in Frame /\ [Do("destroy") EXCEPT !.n = n].fn = "destroy"
  BY DestroyFrames
<1>3. "destroy" \in Hush({"on data"})
  BY DEF Hush
<1> QED
  BY <1>1, <1>2, <1>3, OrderCalls

LEMMA OrderDestroysDest == ASSUME Inv, Waiting, Orderly, ClientDestroysDest PROVE Orderly'
<1>1. /\ stack = <<>> \/ (stack # <<>> /\ Top.fn = "user" /\ Top = stack[1])
      /\ stack \in Seq(Frame) /\ stack' = stack
      /\ UNCHANGED <<r, on, pipe, source, pushed, delivered, got>>
  BY Topmost DEF ClientDestroysDest, MayCall, Runs, log, Inv, Stacked, Shape
<1>2. client'.is = client.is
  BY DEF ClientDestroysDest, Inv, Others
<1>3. \A e \in Dest : dest'[e].status = "open" => dest[e].status = "open"
  <2>1. PICK d \in Dest : dest' = [dest EXCEPT ![d].status = "destroyed"]
    BY DEF ClientDestroysDest
  <2>2. DOMAIN dest = Dest /\ {"status", "needDrain"} \subseteq DOMAIN dest[d]
    BY DEF Waiting, Listeners
  <2> QED
    BY <2>1, <2>2
<1>4. SameFeed
  BY <1>1, <1>2, <1>3 DEF SameFeed, SameFor, In, Once
<1>5. Counted'
  BY <1>1 DEF Orderly, Counted, Failed
<1>6. ASSUME Plainly PROVE Feeding'
  <2>1. Feeding /\ GivenOut(stack, client.is.may)
    BY <1>6 DEF Orderly, Feeding
  <2>2. <<>> \in Seq(Frame) /\ DOMAIN <<>> = {} /\ <<>> \o stack = stack
    BY <1>1, EmptySeq, ConcatEmptySeq
  <2>3. Shifts(<<>> \o stack, stack, <<>>, 0)
    BY <1>1, <2>2, ShiftsAll
  <2>4. \A i \in DOMAIN stack : stack[i].fn # "on data" /\ ~(i <= 0)
    <3>1. \A i \in DOMAIN stack : stack[i].fn = "on data" => i = 1
      BY <2>1 DEF GivenOut
    <3>2. stack # <<>> => stack[1].fn = "user"
      BY <1>1
    <3>3. \A i \in DOMAIN stack : stack # <<>> /\ ~(i <= 0)
      BY <1>1, NoneBefore
    <3> QED
      BY <3>1, <3>2, <3>3
  <2>5. MayReplace(<<>>, stack, 0, client.is.may) /\ \A d \in Dest : ~Joining(<<>>, d)
    BY <2>2, <2>4 DEF MayReplace, Joining
  <2>6. Shifts(stack', stack, <<>>, 0)
    BY <1>1, <2>2, <2>3
  <2> QED
    BY <1>4, <2>1, <2>4, <2>5, <2>6, FeedsOn
<1>7. Plainly' = Plainly
  BY <1>2, PlainStays
<1> QED
  BY <1>5, <1>6, <1>7 DEF Orderly

LEMMA OrderInit == ASSUME Init PROVE Orderly
<1>1. /\ r.ended = FALSE /\ on.data = <<>> /\ stack = <<>> /\ source.count = 0 /\ pushed = <<>>
      /\ DOMAIN got = Dest
      /\ \A d \in Dest : got[d] = <<>> /\ ~pipe[d].used
  BY DEF Init
<1>2. DOMAIN <<>> = {} /\ Len(<<>>) = 0 /\ <<>> \in Seq(Nat)
  BY EmptySeq
<1>3. Counted
  <2>1. Counts(<<>>, 0) /\ HowMany(<<>>) = 0
    BY <1>2 DEF Counts, HowMany, NewTwice, NewFrom
  <2>2. Len(pushed) = source.count - HowMany(stack)
    BY <1>1, <1>2, <2>1
  <2> QED
    BY <1>1, <1>2, <2>1, <2>2 DEF Counted
<1>4. Feeding
  <2>1. ASSUME NEW d \in Dest PROVE FedInOrder(d)
    BY <1>1, <1>2 DEF FedInOrder, Row, Once, In, Fed, Joining, UpTo
  <2> QED
    BY <1>1, <1>2, <2>1 DEF Feeding, In, GivenOut
<1> QED
  BY <1>3, <1>4 DEF Orderly

LEMMA OrderSame == ASSUME Orderly, UNCHANGED vars PROVE Orderly'
<1>1. UNCHANGED <<r, on, pipe, dest, stack, source, client, pushed, delivered, got>>
  BY DEF vars, log
<1>2. Counted' = Counted
  BY <1>1 DEF Counted, Failed
<1>3. \A d \in Dest : FedInOrder(d)' = FedInOrder(d)
  BY <1>1 DEF FedInOrder, In, Once
<1>4. Feeding' = Feeding
  BY <1>1, <1>3 DEF Feeding, In, GivenOut, Writes
<1>5. Plainly' = Plainly
  BY <1>1, PlainStays
<1> QED
  BY <1>2, <1>4, <1>5 DEF Orderly

LEMMA OrderSteps == ASSUME Inv, Waiting, Orderly, [Next]_vars PROVE Orderly'
<1>1. CASE StreamStep
  <2>1. CASE \/ RunTick \/ ListenerReturns \/ Onreadable \/ StartRead \/ Take \/ EmitData \/ Flow
             \/ Push \/ Unshift \/ AddChunk
    BY <2>1, OrderRunTick, OrderListenerReturns, OrderOnreadable, OrderStartRead, OrderTake,
       OrderEmitData, OrderFlow, OrderPush, OrderUnshift, OrderAddChunk
  <2>2. CASE \/ EmitReadable \/ EmitReadable_ \/ ReadableEmitted \/ ReadableAgain
             \/ MaybeReadMore \/ ReadMore \/ EndReadable \/ EndReadableNT
             \/ Resume \/ Resume_ \/ Resumed \/ Flowed \/ Pause
    BY <2>2, OrderEmitReadable, OrderEmitReadable_, OrderReadableEmitted, OrderReadableAgain,
       OrderMaybeReadMore, OrderReadMore, OrderEndReadable, OrderEndReadableNT,
       OrderResume, OrderResume_, OrderResumed, OrderFlowed, OrderPause
  <2>3. CASE \/ OnData \/ OffData \/ OnReadable \/ OffReadable \/ UpdateReadableListening
             \/ Pipe \/ Piped \/ PausePipe \/ OndataRefused \/ OndataTaken \/ PipeOnDrain
    BY <2>3, OrderOnData, OrderOffData, OrderOnReadable, OrderOffReadable, OrderUpdate,
       OrderPipe, OrderPiped, OrderPausePipe, OrderOndata, OrderPipeOnDrain
  <2>4. CASE \/ Unpipe \/ UnpipeAll \/ Cleanup \/ Onend \/ Destroy \/ EmitClose \/ DestCloses
             \/ SourceAnswersAtOnce \/ SourceKeeps
    BY <2>4, OrderUnpipe, OrderUnpipeAll, OrderCleanup, OrderOnend, OrderDestroy, OrderEmitClose,
       OrderDestCloses, OrderAtOnce, OrderSourceKeeps
  <2> QED
    BY <1>1, <2>1, <2>2, <2>3, <2>4 DEF StreamStep
<1>2. CASE Outside
  BY <1>2, OrderLater, OrderLate, OrderDest DEF Outside
<1>3. CASE ClientStep
  BY <1>3, OrderListens, OrderReads, OrderPauses, OrderPipes, OrderDestroys, OrderDestroysDest
  DEF ClientStep
<1>4. CASE UNCHANGED vars
  BY <1>4, OrderSame
<1> QED
  BY <1>1, <1>2, <1>3, <1>4 DEF Next, Rest

\* A destination gets consecutive chunks from the moment it is piped to, if no
\* chunk is put back and none is emitted within the emission of another: none
\* is left out, written twice or written late, whoever else listens, is piped
\* to, pauses, resumes or fails meanwhile (emit('data') in addChunk and read of
\* readable.js; ondata and cleanup in its pipe).
THEOREM PipesInOrder == Spec => []PipedInOrder
<1>1. Init => Inv /\ Waiting /\ Orderly
  BY Initially, WaitInit, OrderInit
<1>2. Inv /\ Waiting /\ Orderly /\ [Next]_vars => (Inv /\ Waiting /\ Orderly)'
  BY Steps, WaitSteps, OrderSteps
<1>3. Orderly => PipedInOrder
  BY DEF Orderly, Plainly, Feeding, FedInOrder, Row, PipedInOrder
<1> QED
  BY <1>1, <1>2, <1>3, PTL DEF Spec
=============================================================================
