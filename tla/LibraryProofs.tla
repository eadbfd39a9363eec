---------------------------- MODULE LibraryProofs ----------------------------
(***************************************************************************)
(* Proofs about three of the parts that MCLibrary checks.                   *)
(*                                                                          *)
(* FileStreams: no file is closed more often than it is opened, a           *)
(* ReadStream pushes the range it was asked for once, and a WriteStream     *)
(* answers its one chunk once and closes its file, for files, buffers and   *)
(* ranges of any size.  A ReadStream of a range inside the file needs one   *)
(* read: what the second asks for is nothing, and so it does not matter     *)
(* that it begins elsewhere.                                                *)
(*                                                                          *)
(* Runner: process.argv comes back to the host's value, for any number of   *)
(* runs and executions.                                                     *)
(*                                                                          *)
(* Launcher: a node starts itself again once at most, and success is told   *)
(* only of the command, for chains of any length.                           *)
(***************************************************************************)
EXTENDS FileStreams, Runner, Launcher, SequenceTheorems, TLAPS

StreamsBounds == /\ Size \in Nat /\ BufferSize \in Nat
                 /\ Ranges \subseteq [start : Nat, end : Nat \union {-1, -2}]

-----------------------------------------------------------------------------
(* The ReadStream.                                                          *)

\* How many bytes are to be pushed.
Wanted == Least(rs.end + 1, Size) - rs.start

ReadFields ==
    /\ {"start", "end", "text", "file", "opening", "opened", "closed", "own", "offset", "curPos",
        "reading", "n", "chunk", "pushed", "ends", "tail", "destroyed"} = DOMAIN rs
    /\ rs.start \in Nat /\ rs.end \in Nat /\ rs.opened \in Nat /\ rs.closed \in Nat
    /\ rs.curPos \in Int /\ rs.n \in Int /\ rs.offset \in Int /\ rs.ends \in Nat
    /\ rs.destroyed \in BOOLEAN /\ rs.own \in BOOLEAN
    /\ rs.reading \in {"no", "then", "never"}

ClosesOwn ==
    /\ rs.closed <= 1 /\ (rs.closed = 1 => rs.destroyed /\ rs.own)
    /\ rs.own => rs.opened > 0

\* Until it has ended or is destroyed, nothing has been read or everything.
Progress ==
    InFile =>
    /\ rs.pushed = <<>> \/ rs.pushed = Bytes(rs.start, Wanted)
    /\ rs.ends = 0 /\ ~rs.destroyed =>
          /\ \/ rs.curPos = 0 /\ rs.pushed = <<>>
             \/ rs.curPos = Wanted /\ rs.pushed = Bytes(rs.start, Wanted) /\ rs.end < Size
          /\ rs.reading = "then" =>
                \/ rs.n = Wanted /\ rs.curPos = 0 /\ rs.chunk = Bytes(rs.start, Wanted)
                \/ rs.n = 0 /\ rs.curPos = Wanted /\ rs.chunk = <<>>
    /\ rs.ends > 0 /\ ~rs.destroyed => rs.pushed = Bytes(rs.start, Wanted)

ReadInv == ReadFields /\ ClosesOwn /\ Progress

LEMMA NoBytes == ASSUME NEW from PROVE Bytes(from, 0) = <<>>
  BY DEF Bytes

LEMMA Leasts == ASSUME NEW a \in Int, NEW b \in Int
                PROVE  Least(a, b) \in Int /\ Least(a, b) <= a /\ Least(a, b) <= b
                       /\ (Least(a, b) = a \/ Least(a, b) = b)
  BY DEF Least

\* Of a range in the file the first read takes all, and the second nothing.
LEMMA AllAtOnce ==
    ASSUME StreamsBounds, ReadFields, InFile
    PROVE  /\ Wanted \in Nat /\ Wanted <= Size /\ rs.start <= Size
           /\ Least(rs.end - rs.start + 1, Size - rs.start) = Wanted
           /\ rs.end < Size => rs.end - rs.start - Wanted + 1 = 0
           /\ ~(rs.end < Size) => Wanted >= rs.end
           /\ rs.end - rs.start + 1 = 0 => Wanted = 0
  BY DEF StreamsBounds, ReadFields, InFile, Wanted, Least

LEMMA ReadBegins == ASSUME StreamsBounds, StreamsInit PROVE ReadInv
<1>1. PICK range \in Ranges : rs = ReadStream(range)
  BY DEF StreamsInit
<1>2. range.start \in Nat /\ range.end \in Nat \union {-1, -2} /\ Size \in Nat
  BY <1>1 DEF StreamsBounds
<1>3. /\ rs.start = range.start /\ rs.end = IF range.end < 0 THEN Size ELSE range.end
      /\ rs.opened = 0 /\ rs.closed = 0 /\ rs.own = FALSE /\ rs.curPos = 0 /\ rs.n = 0
      /\ rs.ends = 0 /\ rs.destroyed = FALSE /\ rs.reading = "no" /\ rs.pushed = <<>>
  BY <1>1 DEF ReadStream
<1>4. rs.end \in Nat
  BY <1>2, <1>3
<1>5. ReadFields
  BY <1>1, <1>2, <1>3, <1>4 DEF ReadFields, ReadStream
<1> QED
  BY <1>3, <1>5 DEF ReadInv, ClosesOwn, Progress

\* What the properties speak of stays, but for opens and closes.
Unread == /\ ReadFields' /\ rs'.start = rs.start /\ rs'.end = rs.end
          /\ rs'.curPos = rs.curPos /\ rs'.pushed = rs.pushed /\ rs'.ends = rs.ends
      /\ rs'.offset = rs.offset
LEMMA UnreadKeeps ==
    ASSUME ReadInv, Unread,
           \/ rs'.destroyed
           \/ rs'.destroyed = rs.destroyed /\ (rs'.reading = "then" => FALSE)
           \/ /\ rs'.destroyed = rs.destroyed /\ rs'.reading = rs.reading
              /\ rs'.n = rs.n /\ rs'.chunk = rs.chunk
    PROVE  Progress'
<1>1. Wanted' = Wanted /\ InFile' = InFile
  BY DEF Unread, Wanted, InFile
<1>2. rs'.ends \in Nat /\ rs'.destroyed \in BOOLEAN /\ rs.destroyed \in BOOLEAN
  BY DEF Unread, ReadFields, ReadInv
<1> QED
  BY <1>1, <1>2 DEF Unread, ReadInv, Progress

LEMMA OpenAnswersStep == ASSUME StreamsBounds, ReadInv, OpenAnswers PROVE ReadInv'
<1>0. PICK own \in BOOLEAN : own = (rs.own \/ ~rs.file)
  OBVIOUS
<1>1. rs' = [rs EXCEPT !.opening = FALSE, !.opened = @ + 1, !.file = TRUE, !.own = own]
  BY <1>0 DEF OpenAnswers
<1>2. /\ rs'.opened = rs.opened + 1 /\ rs'.own = own
      /\ rs'.closed = rs.closed /\ rs'.destroyed = rs.destroyed /\ rs'.reading = rs.reading
      /\ rs'.n = rs.n /\ rs'.chunk = rs.chunk /\ rs'.start = rs.start /\ rs'.end = rs.end
      /\ rs'.curPos = rs.curPos /\ rs'.pushed = rs.pushed /\ rs'.ends = rs.ends
      /\ rs'.offset = rs.offset
      /\ DOMAIN rs' = DOMAIN rs
  BY <1>1 DEF ReadInv, ReadFields
<1>3. rs.own => own
  BY <1>0
<1>a. ReadFields'
  BY <1>2 DEF ReadInv, ReadFields
<1>b. ClosesOwn'
  BY <1>2, <1>3 DEF ReadInv, ReadFields, ClosesOwn
<1>4. Unread
  BY <1>2, <1>a DEF Unread
<1> QED
  BY <1>2, <1>a, <1>b, <1>4, UnreadKeeps DEF ReadInv

\* destroy.
LEMMA DestroyedKeeps ==
    ASSUME ReadInv, NEW d \in {"then", "never"},
           rs'.destroyed = TRUE, rs'.reading = d, rs'.closed = IF rs'.own THEN rs.closed + 1 ELSE rs.closed,
           ~rs.destroyed, rs'.own \in BOOLEAN, rs'.opened \in Nat, rs'.own => rs'.opened > 0,
           DOMAIN rs' = DOMAIN rs, rs'.start = rs.start, rs'.end = rs.end, rs'.n = rs.n,
           rs'.curPos = rs.curPos, rs'.pushed = rs.pushed, rs'.ends = rs.ends,
           rs'.offset = rs.offset
    PROVE  ReadInv'
<1>1. rs.closed = 0 /\ rs'.closed \in {0, 1} /\ (rs'.closed = 1 => rs'.own)
  BY DEF ReadInv, ReadFields, ClosesOwn
<1>2. ReadFields'
  <2>1. {"start", "end", "text", "file", "opening", "opened", "closed", "own", "offset", "curPos",
         "reading", "n", "chunk", "pushed", "ends", "tail", "destroyed"} = DOMAIN rs'
    BY Zenon DEF ReadInv, ReadFields
  <2>2. /\ rs'.start \in Nat /\ rs'.end \in Nat /\ rs'.opened \in Nat /\ rs'.closed \in Nat
        /\ rs'.curPos \in Int /\ rs'.n \in Int /\ rs'.offset \in Int /\ rs'.ends \in Nat
    BY <1>1 DEF ReadInv, ReadFields
  <2>3. rs'.destroyed \in BOOLEAN /\ rs'.own \in BOOLEAN /\ rs'.reading \in {"no", "then", "never"}
    BY Zenon
  <2> QED
    BY <2>1, <2>2, <2>3, Zenon DEF ReadFields
<1>3. ClosesOwn'
  BY <1>1 DEF ClosesOwn
<1>4. Unread
  BY <1>2 DEF Unread
<1>5. Progress'
  BY <1>4, UnreadKeeps
<1> QED
  BY <1>2, <1>3, <1>5 DEF ReadInv

LEMMA DestroyReadStep == ASSUME StreamsBounds, ReadInv, DestroyRead PROVE ReadInv'
<1>1. PICK d : d = IF rs.reading = "then" THEN "then" ELSE "never"
  OBVIOUS
<1>2. rs' = [[rs EXCEPT !.destroyed = TRUE, !.reading = "never",
                        !.closed = IF rs.own THEN rs.closed + 1 ELSE rs.closed]
             EXCEPT !.reading = d]
  BY <1>1 DEF DestroyRead, Destroyed, ReadInv, ReadFields
<1>3. /\ rs'.destroyed = TRUE /\ rs'.reading = d
      /\ rs'.closed = (IF rs.own THEN rs.closed + 1 ELSE rs.closed)
      /\ rs'.own = rs.own /\ rs'.opened = rs.opened
      /\ DOMAIN rs' = DOMAIN rs /\ rs'.start = rs.start /\ rs'.end = rs.end /\ rs'.n = rs.n
      /\ rs'.curPos = rs.curPos /\ rs'.pushed = rs.pushed /\ rs'.ends = rs.ends
      /\ rs'.offset = rs.offset
  BY <1>2 DEF ReadInv, ReadFields
<1>4. d \in {"then", "never"} /\ ~rs.destroyed /\ rs.opened \in Nat /\ rs.own \in BOOLEAN
  BY <1>1 DEF DestroyRead, ReadInv, ReadFields
<1>5. rs.own => rs.opened > 0
  BY DEF ReadInv, ClosesOwn
<1> QED
  BY <1>3, <1>4, <1>5, DestroyedKeeps

LEMMA ReadStep == ASSUME StreamsBounds, ReadInv, Read PROVE ReadInv'
<1>1. PICK from, n, r :
         /\ from = Position
         /\ n = IF Length = 0 \/ from > Size THEN 0 ELSE Least(Length, Size - from)
         /\ r = IF rs.file THEN rs
                ELSE [rs EXCEPT !.file = TRUE, !.own = TRUE, !.opened = @ + 1]
  OBVIOUS
<1>2. /\ rs.reading = "no" /\ ~rs.destroyed
      /\ rs' = IF Throws(from)
               THEN Destroyed(r)
               ELSE [r EXCEPT !.reading = "then", !.n = n, !.chunk = Bytes(from, n),
                              !.offset = IF r.curPos = 0 THEN @ ELSE @ + n]
  BY <1>1 DEF Read
<1>3. /\ DOMAIN r = DOMAIN rs /\ r.start = rs.start /\ r.end = rs.end /\ r.n = rs.n
      /\ r.curPos = rs.curPos /\ r.pushed = rs.pushed /\ r.ends = rs.ends
      /\ r.closed = rs.closed /\ r.destroyed = rs.destroyed /\ r.offset = rs.offset
      /\ r.opened \in Nat /\ r.own \in BOOLEAN /\ (r.own => r.opened > 0)
  <2>1. CASE rs.file
    BY <1>1, <2>1 DEF ReadInv, ReadFields, ClosesOwn
  <2>2. CASE ~rs.file
    <3>1. r = [rs EXCEPT !.file = TRUE, !.own = TRUE, !.opened = @ + 1]
      BY <1>1, <2>2
    <3>2. /\ DOMAIN r = DOMAIN rs /\ r.start = rs.start /\ r.end = rs.end /\ r.n = rs.n
          /\ r.curPos = rs.curPos /\ r.pushed = rs.pushed /\ r.ends = rs.ends
          /\ r.closed = rs.closed /\ r.destroyed = rs.destroyed /\ r.offset = rs.offset
          /\ r.opened = rs.opened + 1 /\ r.own = TRUE
      BY <3>1 DEF ReadInv, ReadFields
    <3>3. r.opened \in Nat /\ r.opened > 0
      BY <3>2 DEF ReadInv, ReadFields
    <3>4. r.own \in BOOLEAN
      BY <3>2
    <3> QED
      BY <3>2, <3>3, <3>4
  <2> QED
    BY <2>1, <2>2
<1>4. DOMAIN r = {"start", "end", "text", "file", "opening", "opened", "closed", "own", "offset",
                  "curPos", "reading", "n", "chunk", "pushed", "ends", "tail", "destroyed"}
  BY <1>3 DEF ReadInv, ReadFields
<1>5. CASE Throws(from)
  <2>1. rs' = [r EXCEPT !.destroyed = TRUE, !.reading = "never",
                        !.closed = IF r.own THEN @ + 1 ELSE @]
    BY <1>2, <1>5 DEF Destroyed
  <2>2. /\ rs'.destroyed = TRUE /\ rs'.reading = "never"
        /\ rs'.closed = (IF r.own THEN r.closed + 1 ELSE r.closed)
        /\ rs'.own = r.own /\ rs'.opened = r.opened
        /\ DOMAIN rs' = DOMAIN r /\ rs'.start = r.start /\ rs'.end = r.end /\ rs'.n = r.n
        /\ rs'.curPos = r.curPos /\ rs'.pushed = r.pushed /\ rs'.ends = r.ends
        /\ rs'.offset = r.offset
    BY <1>4, <2>1
  <2> QED
    BY <1>2, <1>3, <2>2, DestroyedKeeps
<1>6. CASE ~Throws(from)
  <2>1. rs' = [r EXCEPT !.reading = "then", !.n = n, !.chunk = Bytes(from, n),
                        !.offset = IF r.curPos = 0 THEN @ ELSE @ + n]
    BY <1>2, <1>6
  <2>2. /\ rs'.reading = "then" /\ rs'.n = n /\ rs'.chunk = Bytes(from, n)
        /\ rs'.destroyed = r.destroyed /\ rs'.closed = r.closed
        /\ rs'.own = r.own /\ rs'.opened = r.opened
        /\ rs'.offset = (IF r.curPos = 0 THEN r.offset ELSE r.offset + n)
        /\ DOMAIN rs' = DOMAIN r /\ rs'.start = r.start /\ rs'.end = r.end
        /\ rs'.curPos = r.curPos /\ rs'.pushed = r.pushed /\ rs'.ends = r.ends
    BY <1>4, <2>1
  <2>3. Wanted' = Wanted /\ InFile' = InFile
    BY <1>3, <2>2 DEF Wanted, InFile
  <2>4. ASSUME InFile, rs.ends = 0
        PROVE  \/ n = Wanted /\ rs.curPos = 0 /\ Bytes(from, n) = Bytes(rs.start, Wanted)
               \/ n = 0 /\ rs.curPos = Wanted /\ Bytes(from, n) = <<>>
    <3>1. /\ Wanted \in Nat /\ Wanted <= Size /\ rs.start <= Size
          /\ Least(rs.end - rs.start + 1, Size - rs.start) = Wanted
          /\ rs.end < Size => rs.end - rs.start - Wanted + 1 = 0
          /\ rs.end - rs.start + 1 = 0 => Wanted = 0
      BY <2>4, AllAtOnce DEF ReadInv
    <3>2. CASE rs.curPos = 0
      <4>1. from = rs.start /\ Length = rs.end - rs.start + 1
        BY <1>1, <3>2 DEF Position, Length, ReadInv, ReadFields
      <4>2. n = Wanted
        BY <1>1, <3>1, <4>1 DEF ReadInv, ReadFields, StreamsBounds
      <4> QED
        BY <3>2, <4>1, <4>2
    <3>3. CASE rs.curPos # 0
      <4>1. rs.curPos = Wanted /\ rs.end < Size
        BY <1>2, <2>4, <3>3 DEF ReadInv, Progress
      <4>2. Length = 0
        BY <3>1, <4>1 DEF Length
      <4>3. n = 0
        BY <1>1, <4>2
      <4> QED
        BY <4>1, <4>3, NoBytes
    <3> QED
      BY <3>2, <3>3
  <2>5. n \in Int
    <3>1. from \in Int /\ Length \in Int /\ Size \in Int
      BY <1>1 DEF Position, Length, ReadInv, ReadFields, StreamsBounds
    <3>2. Least(Length, Size - from) \in Int
      BY <3>1, Leasts
    <3> QED
      BY <1>1, <3>2
  <2>6. ReadFields'
    BY <1>3, <2>2, <2>5 DEF ReadInv, ReadFields
  <2>7. ClosesOwn'
    <3>1. rs.closed <= 1 /\ rs.closed # 1
      BY <1>2 DEF ReadInv, ClosesOwn
    <3>2. rs'.closed = rs.closed /\ rs'.own = r.own /\ rs'.opened = r.opened
      BY <1>3, <2>2
    <3> QED
      BY <1>3, <3>1, <3>2 DEF ClosesOwn
  <2>8. Progress'
    BY <1>2, <1>3, <2>2, <2>3, <2>4 DEF ReadInv, Progress
  <2> QED
    BY <2>6, <2>7, <2>8 DEF ReadInv
<1> QED
  BY <1>5, <1>6

LEMMA ReadThenStep == ASSUME StreamsBounds, ReadInv, ReadThen PROVE ReadInv'
<1>1. PICK pos, end :
         /\ pos = rs.curPos + rs.n
         /\ end = IF rs.n = 0 \/ pos >= rs.end THEN 1 ELSE 0
  OBVIOUS
<1>2. PICK reading, pushed, tail :
         /\ reading = IF rs.n = 0 \/ rs.destroyed THEN "never" ELSE "no"
         /\ pushed = IF rs.ends = 0 /\ ~rs.destroyed THEN rs.pushed \o rs.chunk ELSE rs.pushed
         /\ tail = IF rs.ends > 0 /\ ~rs.destroyed THEN rs.tail \o rs.chunk ELSE rs.tail
  OBVIOUS
<1>3. rs.reading = "then" /\ rs' = [rs EXCEPT !.curPos = pos, !.ends = @ + end, !.reading = reading,
                                              !.pushed = pushed, !.tail = tail]
  BY <1>1, <1>2 DEF ReadThen
<1>4. /\ rs'.curPos = pos /\ rs'.ends = rs.ends + end /\ rs'.reading = reading
      /\ rs'.pushed = pushed
      /\ rs'.destroyed = rs.destroyed /\ rs'.closed = rs.closed /\ rs'.own = rs.own
      /\ rs'.opened = rs.opened /\ rs'.offset = rs.offset /\ rs'.n = rs.n
      /\ DOMAIN rs' = DOMAIN rs /\ rs'.start = rs.start /\ rs'.end = rs.end
  BY <1>3 DEF ReadInv, ReadFields
<1>5. end \in {0, 1} /\ pos \in Int /\ reading \in {"no", "never"}
  BY <1>1, <1>2 DEF ReadInv, ReadFields
<1>6. ReadFields' /\ ClosesOwn'
  BY <1>4, <1>5 DEF ReadInv, ReadFields, ClosesOwn
<1>7. Wanted' = Wanted /\ InFile' = InFile
  BY <1>4 DEF Wanted, InFile
<1>8. Progress'
  <2>1. CASE rs.destroyed \/ rs.ends > 0 \/ ~InFile
    <3>1. pushed = rs.pushed \/ ~InFile
      BY <1>2, <2>1 DEF ReadInv, ReadFields
    <3>2. rs'.ends > 0 \/ rs'.destroyed \/ ~InFile
      BY <1>4, <1>5, <2>1 DEF ReadInv, ReadFields
    <3>3. rs.ends > 0 \/ rs.destroyed \/ ~InFile
      BY <2>1
    <3>4. rs.ends \in Nat /\ rs'.ends \in Nat /\ rs'.destroyed = rs.destroyed
      BY <1>4, <1>6 DEF ReadInv, ReadFields
    <3> QED
      BY <1>4, <1>7, <3>1, <3>2, <3>3, <3>4 DEF ReadInv, Progress
  <2>2. CASE ~rs.destroyed /\ rs.ends = 0 /\ InFile
    <3>1. /\ Wanted \in Nat
          /\ ~(rs.end < Size) => Wanted >= rs.end
      BY <2>2, AllAtOnce DEF ReadInv
    <3>2. \/ rs.n = Wanted /\ rs.curPos = 0 /\ rs.chunk = Bytes(rs.start, Wanted)
          \/ rs.n = 0 /\ rs.curPos = Wanted /\ rs.chunk = <<>>
      BY <1>3, <2>2 DEF ReadInv, Progress
    <3>3. pos = Wanted
      BY <1>1, <3>1, <3>2
    <3>4. Bytes(rs.start, Wanted) \in Seq(Int)
      BY <3>1 DEF Bytes, ReadInv, ReadFields
    <3>5. pushed = Bytes(rs.start, Wanted)
      <4>1. pushed = rs.pushed \o rs.chunk
        BY <1>2, <2>2
      <4>2. \/ rs.curPos = 0 /\ rs.pushed = <<>>
            \/ rs.curPos = Wanted /\ rs.pushed = Bytes(rs.start, Wanted)
        BY <2>2 DEF ReadInv, Progress
      <4>3. \A s \in Seq(Int) : s \o <<>> = s /\ <<>> \o s = s
        BY ConcatEmptySeq
      <4>4. CASE Wanted = 0
        <5>1. Bytes(rs.start, Wanted) = <<>>
          BY <4>4, NoBytes
        <5> QED
          BY <3>2, <3>4, <4>1, <4>2, <4>3, <5>1
      <4>5. CASE Wanted # 0
        BY <3>2, <3>4, <4>1, <4>2, <4>3, <4>5
      <4> QED
        BY <4>4, <4>5
    <3>6. end = 0 => rs.end < Size
      BY <1>1, <3>1, <3>3 DEF ReadInv, ReadFields, StreamsBounds
    <3>7. rs'.ends = end /\ rs'.reading # "then" /\ ~rs'.destroyed
      BY <1>4, <1>5, <2>2
    <3> QED
      BY <1>4, <1>5, <1>7, <3>3, <3>5, <3>6, <3>7 DEF Progress
  <2>3. rs.ends \in Nat /\ rs.destroyed \in BOOLEAN
    BY DEF ReadInv, ReadFields
  <2> QED
    BY <2>1, <2>2, <2>3
<1> QED
  BY <1>6, <1>8 DEF ReadInv

-----------------------------------------------------------------------------
(* The WriteStream.                                                         *)

WriteFields ==
    /\ {"fd", "opening", "opened", "closed", "writing", "written", "callbacks", "asked",
        "destroyed", "overlapped"} \subseteq DOMAIN ws
    /\ ws.fd \in BOOLEAN /\ ws.opening \in BOOLEAN /\ ws.destroyed \in BOOLEAN
    /\ ws.overlapped \in BOOLEAN
    /\ ws.writing \in {"no", "then", "catch", "failed"}
    /\ ws.callbacks \in Int

WriteInv ==
    /\ WriteFields
    /\ ws.written = IF ws.writing = "no" THEN 0 ELSE 1
    /\ ws.opened = IF ws.opening THEN 0 ELSE 1
    /\ ws.overlapped => ws.destroyed
    /\ ws.destroyed => ~ws.opening
    /\ ws.fd => ~ws.opening
    /\ ~ws.destroyed => ws.closed = 0 /\ (ws.fd \/ ws.opening)
    /\ ws.destroyed => ws.closed = 1 \/ (ws.closed = 0 /\ ws.overlapped)
    /\ ws.writing = "then" /\ ws.destroyed => ws.overlapped
    /\ ws.writing \in {"no", "then"} => ws.callbacks = 0
    /\ ws.writing = "catch" => ws.callbacks = 0 \/ (ws.callbacks = 1 /\ ws.overlapped)
    /\ ws.callbacks <= 1 \/ ws.overlapped

LEMMA WriteBegins == ASSUME StreamsInit PROVE WriteInv
  BY DEF StreamsInit, WriteStream, WriteInv, WriteFields

LEMMA ConstructStep == ASSUME WriteInv, Construct PROVE WriteInv'
<1>1. ws' = [ws EXCEPT !.opening = FALSE, !.fd = TRUE, !.opened = @ + 1] /\ ws.opening
  BY DEF Construct
<1>2. /\ ws'.opening = FALSE /\ ws'.fd = TRUE /\ ws'.opened = ws.opened + 1
      /\ ws'.closed = ws.closed /\ ws'.writing = ws.writing /\ ws'.written = ws.written
      /\ ws'.callbacks = ws.callbacks /\ ws'.destroyed = ws.destroyed
      /\ ws'.overlapped = ws.overlapped /\ DOMAIN ws' = DOMAIN ws
  BY <1>1 DEF WriteInv, WriteFields
<1> QED
  BY <1>1, <1>2 DEF WriteInv, WriteFields

LEMMA WriteStep == ASSUME WriteInv, Write PROVE WriteInv'
<1>1. /\ ws' = [ws EXCEPT !.writing = "then", !.asked = @ + 1, !.written = @ + 1]
      /\ ws.fd /\ ~ws.destroyed /\ ws.writing = "no"
  BY DEF Write
<1>2. /\ ws'.writing = "then" /\ ws'.written = ws.written + 1
      /\ ws'.opening = ws.opening /\ ws'.fd = ws.fd /\ ws'.opened = ws.opened
      /\ ws'.closed = ws.closed /\ ws'.callbacks = ws.callbacks
      /\ ws'.destroyed = ws.destroyed /\ ws'.overlapped = ws.overlapped /\ DOMAIN ws' = DOMAIN ws
  BY <1>1 DEF WriteInv, WriteFields
<1>3. ws.written = 0 /\ ws.callbacks = 0 /\ ws.closed = 0 /\ ws.opening = FALSE /\ ws.opened = 1
  BY <1>1 DEF WriteInv, WriteFields
<1>4. ws.overlapped = FALSE /\ ws.destroyed = FALSE /\ ws.fd = TRUE
  BY <1>1 DEF WriteInv, WriteFields
<1>5. /\ ws'.writing = "then" /\ ws'.written = 1 /\ ws'.callbacks = 0 /\ ws'.closed = 0
      /\ ws'.opening = FALSE /\ ws'.opened = 1 /\ ws'.overlapped = FALSE
      /\ ws'.destroyed = FALSE /\ ws'.fd = TRUE
  BY <1>2, <1>3, <1>4
<1>6. {"fd", "opening", "opened", "closed", "writing", "written", "callbacks", "asked",
       "destroyed", "overlapped"} \subseteq DOMAIN ws'
  <2>1. DOMAIN ws' = DOMAIN ws
    BY <1>2
  <2> QED
    BY <2>1, Zenon DEF WriteInv, WriteFields
<1>7. WriteFields'
  <2>1. ws'.callbacks \in Int /\ ws'.writing \in {"no", "then", "catch", "failed"}
    BY <1>5
  <2>2. /\ ws'.fd \in BOOLEAN /\ ws'.opening \in BOOLEAN
        /\ ws'.destroyed \in BOOLEAN /\ ws'.overlapped \in BOOLEAN
    BY <1>5, Zenon
  <2> QED
    BY <1>6, <2>1, <2>2, Zenon DEF WriteFields
<1> QED
  BY <1>5, <1>7 DEF WriteInv

LEMMA WriteThenStep == ASSUME WriteInv, WriteThen PROVE WriteInv'
<1>1. PICK next, more :
         /\ next = IF ws.writing = "then" THEN "catch" ELSE "failed"
         /\ more = IF ws.writing = "catch" \/ ws.destroyed THEN ws.callbacks + 1 ELSE ws.callbacks
  OBVIOUS
<1>2. ws.writing \in {"then", "catch"} /\ ws' = [ws EXCEPT !.writing = next, !.callbacks = more]
  BY <1>1 DEF WriteThen
<1>3. /\ ws'.writing = next /\ ws'.callbacks = more
      /\ ws'.written = ws.written /\ ws'.opening = ws.opening /\ ws'.fd = ws.fd
      /\ ws'.opened = ws.opened /\ ws'.closed = ws.closed
      /\ ws'.destroyed = ws.destroyed /\ ws'.overlapped = ws.overlapped /\ DOMAIN ws' = DOMAIN ws
  BY <1>2 DEF WriteInv, WriteFields
<1>4. CASE ws.writing = "then"
  <2>1. next = "catch" /\ (more = 0 \/ (more = 1 /\ ws.overlapped))
    BY <1>1, <1>4 DEF WriteInv, WriteFields
  <2> QED
    BY <1>3, <1>4, <2>1 DEF WriteInv, WriteFields
<1>5. CASE ws.writing = "catch"
  <2>1. next = "failed" /\ (more = 1 \/ (more = 2 /\ ws.overlapped))
    BY <1>1, <1>5 DEF WriteInv, WriteFields
  <2> QED
    BY <1>3, <1>5, <2>1 DEF WriteInv, WriteFields
<1> QED
  BY <1>2, <1>4, <1>5

LEMMA DestroyWriteStep == ASSUME WriteInv, DestroyWrite PROVE WriteInv'
<1>1. PICK busy \in BOOLEAN : busy = (ws.writing = "then")
  OBVIOUS
<1>2. PICK closed, fd : closed = (IF ws.fd /\ ~busy THEN ws.closed + 1 ELSE ws.closed) /\ fd = (ws.fd /\ busy)
  OBVIOUS
<1>3. /\ ~ws.opening /\ ~ws.destroyed
      /\ ws' = [ws EXCEPT !.destroyed = TRUE, !.overlapped = busy, !.closed = closed, !.fd = fd]
  BY <1>1, <1>2 DEF DestroyWrite
<1>4. /\ ws'.destroyed = TRUE /\ ws'.overlapped = busy /\ ws'.closed = closed /\ ws'.fd = fd
      /\ ws'.writing = ws.writing /\ ws'.callbacks = ws.callbacks /\ ws'.written = ws.written
      /\ ws'.opening = ws.opening /\ ws'.opened = ws.opened /\ DOMAIN ws' = DOMAIN ws
  BY <1>3 DEF WriteInv, WriteFields
<1>5. ws.closed = 0 /\ ws.fd /\ (closed = IF busy THEN 0 ELSE 1) /\ fd = busy /\ ~ws.overlapped
  BY <1>2, <1>3 DEF WriteInv, WriteFields
<1> QED
  BY <1>1, <1>3, <1>4, <1>5 DEF WriteInv, WriteFields

-----------------------------------------------------------------------------
(* Both.                                                                    *)

LEMMA Always == ASSUME StreamsBounds PROVE StreamsSpec => [](ReadInv /\ WriteInv)
<1>1. StreamsInit => ReadInv /\ WriteInv
  BY ReadBegins, WriteBegins
<1>2. ReadInv /\ WriteInv /\ [StreamsNext]_svars => (ReadInv /\ WriteInv)'
  <2> SUFFICES ASSUME ReadInv, WriteInv, [StreamsNext]_svars PROVE ReadInv' /\ WriteInv'
    OBVIOUS
  <2>1. ASSUME rs' = rs PROVE ReadInv'
    BY <2>1 DEF ReadInv, ReadFields, ClosesOwn, Progress, InFile, Wanted
  <2>2. ASSUME ws' = ws PROVE WriteInv'
    BY <2>2 DEF WriteInv, WriteFields
  <2>3. CASE OpenAnswers
    BY <2>2, <2>3, OpenAnswersStep DEF OpenAnswers
  <2>4. CASE Read
    BY <2>2, <2>4, ReadStep DEF Read
  <2>5. CASE ReadThen
    BY <2>2, <2>5, ReadThenStep DEF ReadThen
  <2>6. CASE DestroyRead
    BY <2>2, <2>6, DestroyReadStep DEF DestroyRead
  <2>7. CASE Construct
    BY <2>1, <2>7, ConstructStep DEF Construct
  <2>8. CASE Write
    BY <2>1, <2>8, WriteStep DEF Write
  <2>9. CASE WriteThen
    BY <2>1, <2>9, WriteThenStep DEF WriteThen
  <2>10. CASE DestroyWrite
    BY <2>1, <2>10, DestroyWriteStep DEF DestroyWrite
  <2>11. CASE UNCHANGED svars
    BY <2>1, <2>2, <2>11 DEF svars
  <2> QED
    BY <2>3, <2>4, <2>5, <2>6, <2>7, <2>8, <2>9, <2>10, <2>11 DEF StreamsNext
<1> QED
  BY <1>1, <1>2, PTL DEF StreamsSpec

(* Types, and that neither stream closes a file it has not opened (stream.js *)
(* closeStream and the two destroy methods).                                *)
THEOREM Types == ASSUME StreamsBounds PROVE StreamsSpec => []StreamsTypeOK
<1>1. ReadInv /\ WriteInv => StreamsTypeOK
  BY DEF ReadInv, ReadFields, ClosesOwn, WriteInv, WriteFields, StreamsTypeOK
<1> QED
  BY <1>1, Always, PTL

(* A ReadStream of a range inside the file pushes before its first 'end' a  *)
(* beginning of the range, and all of it when it has not been destroyed     *)
(* (stream.js 186-204), whatever the sizes of file and buffer.              *)
THEOREM ReadsTheRange == ASSUME StreamsBounds PROVE StreamsSpec => []UpToTheEnd
<1>1. ReadInv => UpToTheEnd
  <2> SUFFICES ASSUME ReadInv, InFile
               PROVE  /\ IsPrefix(rs.pushed, Bytes(rs.start, Size))
                      /\ rs.ends > 0 /\ ~rs.destroyed => Len(rs.pushed) = Wanted
    BY DEF UpToTheEnd, Wanted
  <2>1. Wanted \in Nat /\ Wanted <= Size /\ Size \in Nat /\ rs.start \in Nat
    BY AllAtOnce DEF ReadInv, StreamsBounds, ReadFields
  <2>2. ASSUME NEW n \in Nat
        PROVE  /\ Bytes(rs.start, n) \in Seq(Int) /\ Len(Bytes(rs.start, n)) = n
               /\ \A k \in 1 .. n : Bytes(rs.start, n)[k] = rs.start + k - 1
    BY <2>1 DEF Bytes
  <2>3. /\ Bytes(rs.start, Size) \in Seq(Int) /\ Len(Bytes(rs.start, Size)) = Size
        /\ \A k \in 1 .. Size : Bytes(rs.start, Size)[k] = rs.start + k - 1
    BY <2>1, <2>2
  <2>4. ASSUME NEW n \in Nat, n <= Size
        PROVE  IsPrefix(Bytes(rs.start, n), Bytes(rs.start, Size))
    <3>1. /\ Bytes(rs.start, n) \in Seq(Int) /\ Len(Bytes(rs.start, n)) = n
          /\ \A k \in 1 .. n : Bytes(rs.start, n)[k] = rs.start + k - 1
      BY <2>2
    <3>2. PICK a, b : a = Bytes(rs.start, n) /\ b = Bytes(rs.start, Size)
      OBVIOUS
    <3>3. /\ SubSeq(a, 1, n) \in Seq(Int) /\ Len(SubSeq(a, 1, n)) = n
          /\ \A k \in 1 .. n : SubSeq(a, 1, n)[k] = a[k]
      BY <3>1, <3>2, SubSeqProperties
    <3>4. /\ SubSeq(b, 1, n) \in Seq(Int) /\ Len(SubSeq(b, 1, n)) = n
          /\ \A k \in 1 .. n : SubSeq(b, 1, n)[k] = b[k]
      BY <2>1, <2>3, <2>4, <3>2, SubSeqProperties
    <3>5. \A k \in 1 .. n : a[k] = b[k]
      BY <2>1, <2>3, <2>4, <3>1, <3>2
    <3>6. SubSeq(a, 1, n) = SubSeq(b, 1, n)
      BY <3>3, <3>4, <3>5, SeqEqual
    <3> QED
      BY <2>1, <2>3, <2>4, <3>1, <3>2, <3>6 DEF IsPrefix
  <2>5. Bytes(rs.start, 0) = <<>>
    BY NoBytes
  <2>6. IsPrefix(rs.pushed, Bytes(rs.start, Size))
    BY <2>1, <2>4, <2>5 DEF ReadInv, Progress
  <2>7. rs.ends > 0 /\ ~rs.destroyed => Len(rs.pushed) = Wanted
    BY <2>1, <2>2 DEF ReadInv, Progress
  <2> QED
    BY <2>6, <2>7
<1> QED
  BY <1>1, Always, PTL

(* A WriteStream writes one chunk, answers it once and, destroyed, has      *)
(* closed the file it opened, unless it was destroyed while the write was   *)
(* on its way (stream.js 70-100).                                           *)
THEOREM WritesOne == ASSUME StreamsBounds PROVE StreamsSpec => []OneChunk
<1>1. WriteInv => OneChunk
  BY DEF WriteInv, WriteFields, OneChunk
<1> QED
  BY <1>1, Always, PTL

-----------------------------------------------------------------------------
(* The npm package.                                                         *)

Runs == [kind : {"busy", "drop"}, at : {"loading", "ready", "failed"}, oldProcArgv : Nat,
         outer : SUBSET Nat, execs : Nat, promises : Nat, restored : BOOLEAN]

\* Until runs cross, argv and what a run will put back are the host's value or
\* that of a run that was open.
Nested ==
    /\ argv \in {0} \cup {i \in 1..Len(runs) : Open(i)}
    /\ \A i \in 1..Len(runs) : /\ runs[i].oldProcArgv \in {0} \cup runs[i].outer
                               /\ runs[i].outer \subseteq 1..(i - 1)

RunnerInv == runs \in Seq(Runs) /\ argv \in Nat /\ crossed \in BOOLEAN /\ (~crossed => Nested)

-----------------------------------------------------------------------------

\* A run begins; runBusy sets argv to its own value.
LEMMA BeginStep ==
    ASSUME RunnerInv, NEW kind \in {"busy", "drop"}, runs' = Append(runs, Run(kind)), UNCHANGED crossed,
           argv' = IF kind = "busy" THEN Len(runs) + 1 ELSE argv
    PROVE  RunnerInv'
<1> DEFINE n == Len(runs)
           r == Run(kind)
<1>1. n \in Nat /\ runs \in Seq(Runs)
  BY LenProperties DEF RunnerInv
<1>2. /\ r.kind = kind /\ r.restored = FALSE /\ r.oldProcArgv = argv
      /\ r.outer = {i \in 1..n : Open(i)}
  BY DEF Run, OldProcArgv
<1>3. r \in Runs
  BY DEF Run, OldProcArgv, Runs, RunnerInv
<1> HIDE DEF r
<1>4. /\ runs' \in Seq(Runs) /\ Len(runs') = n + 1 /\ runs'[n + 1] = r
      /\ \A i \in 1..n : runs'[i] = runs[i]
  BY <1>1, <1>3, AppendProperties DEF r
<1>5. argv' \in Nat
  BY <1>1 DEF RunnerInv
<1>6. ASSUME ~crossed PROVE Nested'
  <2>1. Nested
    BY <1>6 DEF RunnerInv
  <2>2. \A i \in 1..n : Open(i)' = Open(i)
    BY <1>4 DEF Open
  <2>3. ASSUME NEW i, i = n + 1, kind = "busy" PROVE Open(i)'
    <3>1. runs'[i].kind = kind /\ runs'[i].restored = FALSE
      BY <1>2, <1>4, <2>3
    <3>2. ~runs'[i].restored
      BY <3>1
    <3> QED
      BY <2>3, <3>1, <3>2 DEF Open
  <2>4. argv' \in {0} \cup {i \in 1..n + 1 : Open(i)'}
    <3>1. CASE kind = "busy"
      <4>1. argv' = n + 1 /\ n + 1 \in 1..n + 1
        BY <1>1, <3>1
      <4> QED
        BY <2>3, <3>1, <4>1
    <3>2. CASE kind # "busy"
      <4>1. argv' = argv
        BY <3>2
      <4>2. argv \in {0} \cup {i \in 1..n : Open(i)}
        BY <2>1 DEF Nested
      <4>3. \A i \in 1..n : i \in 1..n + 1
        BY <1>1
      <4> QED
        BY <2>2, <4>1, <4>2, <4>3
    <3> QED
      BY <3>1, <3>2
  <2>5. ASSUME NEW i \in 1..n + 1
        PROVE  /\ runs'[i].oldProcArgv \in {0} \cup runs'[i].outer
               /\ runs'[i].outer \subseteq 1..(i - 1)
    <3>1. CASE i \in 1..n
      BY <1>4, <2>1, <3>1 DEF Nested
    <3>2. CASE i = n + 1
      BY <1>1, <1>2, <1>4, <2>1, <3>2 DEF Nested
    <3> QED
      BY <1>1, <3>1, <3>2
  <2> QED
    BY <1>4, <2>4, <2>5 DEF Nested
<1> QED
  BY <1>4, <1>5, <1>6 DEF RunnerInv

\* A run goes on as x, and may put its value back.
LEMMA GoesOn ==
    ASSUME RunnerInv, NEW i \in 1..Len(runs), NEW x \in Runs, runs' = [runs EXCEPT ![i] = x],
           x.kind = runs[i].kind, x.oldProcArgv = runs[i].oldProcArgv, x.outer = runs[i].outer,
           \/ x.restored = runs[i].restored /\ UNCHANGED <<argv, crossed>>
           \/ PutsBack(i)
    PROVE  RunnerInv'
<1>1. /\ Len(runs) \in Nat /\ runs \in Seq(Runs) /\ DOMAIN runs = 1..Len(runs)
      /\ \A k \in 1..Len(runs) : runs[k] \in Runs
  BY LenProperties, ElementOfSeq DEF RunnerInv
<1>2. /\ runs' \in Seq(Runs) /\ Len(runs') = Len(runs) /\ runs'[i] = x
      /\ \A k \in 1..Len(runs) \ {i} : runs'[k] = runs[k]
  BY <1>1, ExceptSeq
<1>3. argv' \in Nat /\ crossed' \in BOOLEAN
  BY <1>1 DEF RunnerInv, PutsBack, Runs
<1>4. ASSUME ~crossed' PROVE Nested'
  <2>1. Nested
    BY <1>4 DEF RunnerInv, PutsBack
  <2>2. \A k \in 1..Len(runs) \ {i} : Open(k)' = Open(k)
    BY <1>2 DEF Open
  <2>3. argv' \in {0} \cup {k \in 1..Len(runs) : Open(k)'}
    <3>1. CASE x.restored = runs[i].restored /\ UNCHANGED <<argv, crossed>>
      <4>1. Open(i)' = Open(i)
        BY <1>2, <3>1 DEF Open
      <4> QED
        BY <2>1, <2>2, <3>1, <4>1 DEF Nested
    <3>2. CASE PutsBack(i)
      <4>1. argv' = runs[i].oldProcArgv /\ \A k \in runs[i].outer : Open(k)
        BY <1>4, <3>2 DEF PutsBack
      <4>2. runs[i].oldProcArgv \in {0} \cup runs[i].outer /\ runs[i].outer \subseteq 1..(i - 1)
        BY <2>1 DEF Nested
      <4>3. ASSUME NEW k \in runs[i].outer PROVE k \in 1..Len(runs) \ {i}
        BY <1>1, <4>2
      <4> QED
        BY <2>2, <4>1, <4>2, <4>3
    <3> QED
      BY <3>1, <3>2
  <2> QED
    BY <1>2, <2>1, <2>3 DEF Nested
<1> QED
  BY <1>2, <1>3, <1>4 DEF RunnerInv

\* Records of runs, as Exec and Settles change them.
LEMMA Changed ==
    ASSUME NEW r \in Runs
    PROVE  /\ LET y == [r EXCEPT !.execs = @ + 1, !.restored = TRUE]
              IN  /\ y \in Runs /\ y.kind = r.kind /\ y.oldProcArgv = r.oldProcArgv
                  /\ y.outer = r.outer
           /\ LET y == [r EXCEPT !.execs = @ + 1, !.promises = @ + 1]
              IN  /\ y \in Runs /\ y.kind = r.kind /\ y.oldProcArgv = r.oldProcArgv
                  /\ y.outer = r.outer /\ y.restored = r.restored
           /\ r.promises > 0 =>
              LET y == [r EXCEPT !.promises = @ - 1, !.restored = TRUE]
              IN  /\ y \in Runs /\ y.kind = r.kind /\ y.oldProcArgv = r.oldProcArgv
                  /\ y.outer = r.outer
<1>1. /\ r.execs + 1 \in Nat /\ r.promises + 1 \in Nat /\ TRUE \in BOOLEAN
      /\ r.promises > 0 => r.promises - 1 \in Nat
  BY DEF Runs
<1>2. ASSUME NEW n \in Nat, NEW m \in Nat
      PROVE  /\ [r EXCEPT !.execs = n, !.restored = TRUE] \in Runs
             /\ [r EXCEPT !.execs = n, !.promises = m] \in Runs
             /\ [r EXCEPT !.promises = m, !.restored = TRUE] \in Runs
  BY Zenon DEF Runs
<1>3. \A n, m :
         /\ LET y == [r EXCEPT !.execs = n, !.restored = TRUE]
            IN  y.kind = r.kind /\ y.oldProcArgv = r.oldProcArgv /\ y.outer = r.outer
         /\ LET y == [r EXCEPT !.execs = n, !.promises = m]
            IN  /\ y.kind = r.kind /\ y.oldProcArgv = r.oldProcArgv /\ y.outer = r.outer
                /\ y.restored = r.restored
         /\ LET y == [r EXCEPT !.promises = m, !.restored = TRUE]
            IN  y.kind = r.kind /\ y.oldProcArgv = r.oldProcArgv /\ y.outer = r.outer
  BY DEF Runs
<1> QED
  BY <1>1, <1>2, <1>3

LEMMA RunStep == ASSUME RunnerInv, NEW i \in 1..Len(runs), Loads(i) \/ Exec(i) \/ Settles(i) PROVE RunnerInv'
<1>1. runs[i] \in Runs
  BY ElementOfSeq DEF RunnerInv
<1>2. CASE Loads(i)
  <2>1. PICK at \in {"ready", "failed"} : runs' = [runs EXCEPT ![i].at = at]
    BY <1>2 DEF Loads
  <2> DEFINE x == [runs[i] EXCEPT !.at = at]
  <2>2. /\ x \in Runs /\ runs' = [runs EXCEPT ![i] = x] /\ x.kind = runs[i].kind
        /\ x.oldProcArgv = runs[i].oldProcArgv /\ x.outer = runs[i].outer
        /\ x.restored = runs[i].restored
    BY <1>1, <2>1 DEF Runs
  <2> HIDE DEF x
  <2> QED
    BY <1>2, <2>2, GoesOn DEF Loads
<1>3. CASE Exec(i)
  <2> DEFINE x == [runs[i] EXCEPT !.execs = @ + 1]
             y == [runs[i] EXCEPT !.execs = @ + 1, !.restored = TRUE]
             z == [runs[i] EXCEPT !.execs = @ + 1, !.promises = @ + 1]
  <2>1. \/ runs' = [runs EXCEPT ![i] = x] /\ UNCHANGED <<argv, crossed>>
        \/ runs' = [runs EXCEPT ![i] = y] /\ PutsBack(i)
        \/ runs' = [runs EXCEPT ![i] = z] /\ UNCHANGED <<argv, crossed>>
    BY <1>3 DEF Exec
  <2>2. /\ x \in Runs /\ x.kind = runs[i].kind /\ x.oldProcArgv = runs[i].oldProcArgv
        /\ x.outer = runs[i].outer /\ x.restored = runs[i].restored
    BY <1>1 DEF Runs
  <2>3. /\ y \in Runs /\ y.kind = runs[i].kind /\ y.oldProcArgv = runs[i].oldProcArgv
        /\ y.outer = runs[i].outer
    BY <1>1, Changed
  <2>4. /\ z \in Runs /\ z.kind = runs[i].kind /\ z.oldProcArgv = runs[i].oldProcArgv
        /\ z.outer = runs[i].outer /\ z.restored = runs[i].restored
    BY <1>1, Changed
  <2> HIDE DEF x, y, z
  <2> QED
    BY <2>1, <2>2, <2>3, <2>4, GoesOn
<1>4. CASE Settles(i)
  <2> DEFINE x == [runs[i] EXCEPT !.promises = @ - 1, !.restored = TRUE]
  <2>1. runs' = [runs EXCEPT ![i] = x] /\ PutsBack(i) /\ runs[i].promises > 0
    BY <1>4 DEF Settles
  <2>2. /\ x \in Runs /\ x.kind = runs[i].kind /\ x.oldProcArgv = runs[i].oldProcArgv
        /\ x.outer = runs[i].outer
    BY <1>1, <2>1, Changed
  <2> HIDE DEF x
  <2> QED
    BY <2>1, <2>2, GoesOn
<1> QED
  BY <1>2, <1>3, <1>4

(* However the calls of runBusy overlap, fail and repeat, process.argv is   *)
(* the host's value again when no run is open, unless one was put back      *)
(* after a run it began in had ended.                                       *)
THEOREM ArgvIsKept == RunnerSpec => []ArgvComesBack
<1>1. RunnerInit => RunnerInv
  <2> SUFFICES ASSUME RunnerInit PROVE RunnerInv
    OBVIOUS
  <2>1. runs \in Seq(Runs) /\ Len(runs) = 0
    BY EmptySeq DEF RunnerInit
  <2>2. Nested
    BY <2>1 DEF RunnerInit, Nested
  <2> QED
    BY <2>1, <2>2 DEF RunnerInit, RunnerInv
<1>2. RunnerInv /\ [RunnerNext]_runnerVars => RunnerInv'
  <2> SUFFICES ASSUME RunnerInv, [RunnerNext]_runnerVars PROVE RunnerInv'
    OBVIOUS
  <2>1. CASE RunBusy
    BY <2>1, BeginStep DEF RunBusy
  <2>2. CASE RunDrop
    BY <2>2, BeginStep DEF RunDrop
  <2>3. CASE \E i \in 1..Len(runs) : Loads(i) \/ Exec(i) \/ Settles(i)
    BY <2>3, RunStep
  <2>4. CASE UNCHANGED runnerVars
    BY <2>4 DEF runnerVars, RunnerInv, Nested, Open
  <2> QED
    BY <2>1, <2>2, <2>3, <2>4 DEF RunnerNext
<1>3. RunnerInv => ArgvComesBack
  BY DEF RunnerInv, Nested, ArgvComesBack
<1> QED
  BY <1>1, <1>2, <1>3, PTL DEF RunnerSpec

-----------------------------------------------------------------------------
(* The launcher.                                                            *)

\* A node whose version passes, as every node there is does.
LauncherBounds ==
    /\ Hosts \subseteq Host
    /\ \A h \in Hosts : (h.version[1] * 100 + h.version[2]) * 100 + h.version[3] >= 16000

Processes == [execArgv : SUBSET Flags, at : {"main", "waiting", "started", "over"},
              status : {"running", "0", "1", "null"}]

\* Only the last process runs, and it ends first; from the second on a process
\* has every flag, and a third was started because that was of no use.
LauncherInv ==
    /\ host \in Hosts
    /\ chain \in Seq(Processes) /\ Len(chain) > 0
    /\ \A i \in 1..Len(chain) - 1 : chain[i].at \in {"waiting", "over"}
    /\ \A i \in 1..Len(chain) : chain[i].at # "over" => chain[i].status = "running"
    /\ \A i \in 2..Len(chain) : chain[i].execArgv = Flags
    /\ LauncherKept

\* What a step that changes one process leaves.
LEMMA OneChanged ==
    ASSUME NEW c \in Seq(Processes), NEW i \in 1..Len(c), NEW p \in Processes,
           NEW d, d = [c EXCEPT ![i] = p]
    PROVE  /\ d \in Seq(Processes) /\ Len(d) = Len(c) /\ d[i] = p
           /\ \A j \in 1..Len(c) : j # i => d[j] = c[j]
<1>1. PICK x : x = [c EXCEPT ![i] = p]
  OBVIOUS
<1>2. x \in Seq(Processes) /\ Len(x) = Len(c) /\ \A j \in 1..Len(c) : x[j] = IF j = i THEN p ELSE c[j]
  BY <1>1, ExceptSeq
<1> QED
  BY <1>1, <1>2

LEMMA LauncherSteps == ASSUME LauncherBounds, LauncherInv, LauncherNext PROVE LauncherInv'
<1> DEFINE n == Len(chain)
<1> USE DEF LauncherKept
<1>1. /\ n \in Nat /\ n > 0 /\ n \in 1..n /\ host' = host
      /\ chain \in Seq(Processes) /\ \A i \in 1..n : chain[i] \in Processes
  <2>1. host' = host
    BY DEF LauncherNext, Restart, Start, Ends, Exit
  <2>2. chain \in Seq(Processes) /\ n > 0
    BY DEF LauncherInv
  <2>3. n \in Nat /\ \A i \in 1..n : chain[i] \in Processes
    BY <2>2, ElementOfSeq, LenProperties
  <2> QED
    BY <2>1, <2>2, <2>3
\* The last process goes on.
<1>2. ASSUME NEW p \in Processes, p.execArgv = chain[n].execArgv, p.at = "over" \/ p.status = "running",
             chain[n].status = "running", chain' = [chain EXCEPT ![n] = p]
      PROVE  LauncherInv'
  <2>1. PICK d : d = chain'
    OBVIOUS
  <2>2. /\ d \in Seq(Processes) /\ Len(d) = n /\ d[n] = p
        /\ \A j \in 1..n : j # n => d[j] = chain[j]
    BY <1>1, <1>2, <2>1, OneChanged
  <2>3. \A j \in 1..n : chain[j].status # "0"
    BY <1>1, <1>2 DEF LauncherInv, SuccessIsReal, Current
  <2>4. SuccessIsReal' /\ RestartsOnce'
    BY <1>1, <2>1, <2>2, <2>3 DEF SuccessIsReal, Current, RestartsOnce, LauncherInv
  <2>5. \A j \in 1..n : d[j].execArgv = chain[j].execArgv
    BY <1>2, <2>2
  <2>6. \A j \in 1..n : d[j].at # "over" => d[j].status = "running"
    BY <1>2, <2>2 DEF LauncherInv
  <2>7. \A j \in 1..n - 1 : d[j].at \in {"waiting", "over"}
    BY <1>1, <2>2 DEF LauncherInv
  <2>8. \A j \in 2..n : d[j].execArgv = Flags
    BY <1>1, <2>5 DEF LauncherInv
  <2> QED
    BY <1>1, <2>1, <2>2, <2>4, <2>6, <2>7, <2>8 DEF LauncherInv
<1>3. CASE Start
  <2> DEFINE p == [chain[n] EXCEPT !.at = "started"]
  <2>1. p \in Processes /\ p.execArgv = chain[n].execArgv /\ p.status = chain[n].status
    BY <1>1 DEF Processes
  <2>2. chain[n].status = "running" /\ chain' = [chain EXCEPT ![n] = p]
    BY <1>1, <1>3 DEF Start, Begins, Current, LauncherInv
  <2> HIDE DEF p
  <2> QED
    BY <1>2, <2>1, <2>2
<1>4. CASE Ends
  <2>1. PICK status \in {"0", "1", "null"} :
           chain' = [chain EXCEPT ![n].at = "over", ![n].status = status]
    BY <1>4 DEF Ends
  <2> DEFINE p == [chain[n] EXCEPT !.at = "over", !.status = status]
  <2>2. p \in Processes /\ p.execArgv = chain[n].execArgv /\ p.at = "over"
    BY <1>1 DEF Processes
  <2>3. chain[n].status = "running" /\ chain' = [chain EXCEPT ![n] = p]
    BY <1>1, <1>4, <2>1 DEF Ends, Current, LauncherInv
  <2> HIDE DEF p
  <2> QED
    BY <1>2, <2>2, <2>3
\* A process that waits is told how its child ended.
<1>5. ASSUME NEW i \in 1..n - 1, Exit(i) PROVE LauncherInv'
  <2> DEFINE p == [chain[i] EXCEPT !.at = "over", !.status = ExitStatus(chain[i + 1].status)]
  <2>1. i \in 1..n /\ i + 1 \in 1..n /\ i # n
    BY <1>1
  <2>2. /\ p \in Processes /\ p.at = "over" /\ p.execArgv = chain[i].execArgv
        /\ p.status = "0" => chain[i + 1].status = "0"
    BY <1>1, <2>1 DEF Processes, ExitStatus
  <2>3. chain' = [chain EXCEPT ![i] = p]
    BY <1>1, <1>5, <2>1 DEF Exit
  <2> HIDE DEF p
  <2>4. PICK d : d = chain'
    OBVIOUS
  <2>5. /\ d \in Seq(Processes) /\ Len(d) = n /\ d[i] = p
        /\ \A j \in 1..n : j # i => d[j] = chain[j]
    BY <1>1, <2>1, <2>2, <2>3, <2>4, OneChanged
  <2>6. \A j \in 1..n : d[j].status = "0" => d[n].status = "0"
    BY <2>1, <2>2, <2>5 DEF LauncherInv, SuccessIsReal, Current
  <2>7. SuccessIsReal' /\ RestartsOnce'
    BY <1>1, <2>4, <2>5, <2>6 DEF SuccessIsReal, Current, RestartsOnce, LauncherInv
  <2>8. /\ \A j \in 1..n : d[j].at # "over" => d[j].status = "running"
        /\ \A j \in 1..n - 1 : d[j].at \in {"waiting", "over"}
        /\ \A j \in 2..n : d[j].execArgv = Flags
    BY <1>1, <2>1, <2>2, <2>5 DEF LauncherInv
  <2> QED
    BY <1>1, <2>4, <2>5, <2>7, <2>8 DEF LauncherInv
\* A process that lacks something starts another, or cannot.
<1>6. ASSUME Begins, ~CanStart(Current), Len(chain) < MaxProcesses, UNCHANGED host,
             chain' = Append([chain EXCEPT ![n].at = "waiting"], Process(Current.execArgv \union Added))
      PROVE  LauncherInv'
  <2> DEFINE p == [chain[n] EXCEPT !.at = "waiting"]
             q == Process(Current.execArgv \union Added)
  <2>1. PICK c : c = [chain EXCEPT ![n].at = "waiting"]
    OBVIOUS
  <2>2. p \in Processes /\ p.execArgv = chain[n].execArgv /\ p.status = "running" /\ p.at = "waiting"
    BY <1>1, <1>6 DEF Processes, LauncherInv, Begins, Current
  <2>3. /\ q.execArgv = Flags /\ q.at = "main" /\ q.status = "running" /\ q \in Processes
    BY <1>1 DEF Process, Processes, Added, Current
  <2>4. c = [chain EXCEPT ![n] = p]
    BY <2>1
  <2> HIDE DEF p, q
  <2>5. c \in Seq(Processes) /\ Len(c) = n /\ c[n] = p /\ \A j \in 1..n : j # n => c[j] = chain[j]
    BY <1>1, <2>2, <2>4, OneChanged
  <2>6. PICK d : d = Append(c, q)
    OBVIOUS
  <2>7. d \in Seq(Processes) /\ Len(d) = n + 1 /\ d[n + 1] = q /\ \A j \in 1..n : d[j] = c[j]
    BY <2>3, <2>5, <2>6, AppendProperties
  <2>8. chain' = d
    BY <1>6, <2>1, <2>6 DEF q
  <2>9. \A j \in 1..n : chain[j].status # "0"
    BY <1>1, <1>6 DEF LauncherInv, SuccessIsReal, Current, Begins
  <2>10. \A j \in 1..n + 1 : d[j].status # "0"
    BY <1>1, <2>2, <2>3, <2>5, <2>7, <2>9
  <2>11. n > 1 => host.wasi = "never"
    <3>1. host \in Host /\ HasMinimumNode16Version
      BY DEF LauncherInv, LauncherBounds, HasMinimumNode16Version, VersionNumber
    <3>2. ASSUME n > 1 PROVE chain[n].execArgv = Flags
      BY <1>1, <3>2 DEF LauncherInv
    <3>3. ASSUME n > 1 PROVE HasPreserveSymlinks(chain[n]) /\ ~HasWasiImport(chain[n])
      BY <1>6, <3>1, <3>2, <3>3 DEF HasPreserveSymlinks, CanStart, Current, Flags
    <3> QED
      BY <3>1, <3>2, <3>3 DEF HasWasiImport, Flags, Host
  <2>12. SuccessIsReal' /\ RestartsOnce'
    BY <1>1, <2>7, <2>8, <2>10, <2>11 DEF SuccessIsReal, RestartsOnce
  <2>13. \A j \in 1..n + 1 : d[j].at # "over" => d[j].status = "running"
    BY <1>1, <2>2, <2>3, <2>5, <2>7 DEF LauncherInv
  <2>14. \A j \in 1..n : d[j].at \in {"waiting", "over"}
    BY <1>1, <2>2, <2>5, <2>7 DEF LauncherInv
  <2>15. \A j \in 2..n + 1 : d[j].execArgv = Flags
    BY <1>1, <2>2, <2>3, <2>5, <2>7 DEF LauncherInv
  <2>16. /\ d \in Seq(Processes) /\ Len(d) > 0
         /\ \A j \in 1..Len(d) - 1 : d[j].at \in {"waiting", "over"}
         /\ \A j \in 1..Len(d) : d[j].at # "over" => d[j].status = "running"
         /\ \A j \in 2..Len(d) : d[j].execArgv = Flags
    BY <1>1, <2>7, <2>13, <2>14, <2>15
  <2>17. host' \in Hosts
    BY <1>1 DEF LauncherInv
  <2> QED
    BY <2>8, <2>12, <2>16, <2>17 DEF LauncherInv
<1>7. CASE Restart
  <2>1. CASE chain' = [chain EXCEPT ![n].at = "over", ![n].status = "1"]
    <3> DEFINE p == [chain[n] EXCEPT !.at = "over", !.status = "1"]
    <3>1. p \in Processes /\ p.execArgv = chain[n].execArgv /\ p.at = "over"
      BY <1>1 DEF Processes
    <3>2. chain[n].status = "running" /\ chain' = [chain EXCEPT ![n] = p]
      BY <1>1, <1>7, <2>1 DEF Restart, Begins, Current, LauncherInv
    <3> HIDE DEF p
    <3> QED
      BY <1>2, <3>1, <3>2
  <2> QED
    BY <1>6, <1>7, <2>1 DEF Restart
<1> QED
  BY <1>3, <1>4, <1>5, <1>7 DEF LauncherNext

(* However often a process starts another, whatever flags the first has, and *)
(* however they end: a third is started only by a node without the module    *)
(* wasi, and success is told only when the command was started and ended     *)
(* well (restart in bin.ts).                                                 *)
THEOREM LauncherHolds == ASSUME LauncherBounds PROVE LauncherSpec => []LauncherKept
<1>1. LauncherInit => LauncherInv
  <2> SUFFICES ASSUME LauncherInit PROVE LauncherInv
    OBVIOUS
  <2>1. PICK execArgv \in SUBSET Flags : chain = <<Process(execArgv)>>
    BY DEF LauncherInit
  <2>2. Process(execArgv) \in Processes /\ Process(execArgv).status = "running"
    BY DEF Process, Processes
  <2>3. chain \in Seq(Processes) /\ Len(chain) = 1 /\ chain[1].status = "running"
    BY <2>1, <2>2
  <2> QED
    BY <2>3 DEF LauncherInit, LauncherInv, LauncherKept, RestartsOnce, SuccessIsReal
<1>2. LauncherInv /\ [LauncherNext]_launcherVars => LauncherInv'
  <2>1. ASSUME LauncherInv, UNCHANGED launcherVars PROVE LauncherInv'
    BY <2>1 DEF launcherVars, LauncherInv, LauncherKept, RestartsOnce, SuccessIsReal, Current
  <2> QED
    BY <2>1, LauncherSteps
<1>3. LauncherInv => LauncherKept
  BY DEF LauncherInv
<1> QED
  BY <1>1, <1>2, <1>3, PTL DEF LauncherSpec
=============================================================================
