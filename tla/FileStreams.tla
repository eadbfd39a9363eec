----------------------------- MODULE FileStreams -----------------------------
(***************************************************************************)
(* ReadStream and WriteStream (src/modules_js/internal/fs/stream.js): what  *)
(* the two give to Readable and Writable as read, write, construct and      *)
(* destroy.  A byte is its place in the file; what the streams around them  *)
(* do is what a client can see of them: read is called again after a push,  *)
(* write after a callback, destroy at any time or after an error, and never *)
(* anything after destroy (external here, see Readable and Writable).  Left  *)
(* out: a descriptor given as opts.fd.                                      *)
(***************************************************************************)
EXTENDS Integers, Sequences, SequencesExt

CONSTANTS Size,       \* size of the file
          BufferSize, \* the buffer of a ReadStream, 16384 in the code
          Ranges,     \* options of ReadStreams: [start, end], end = -1 for none,
                      \* and NoOptions for none at all, or an encoding's name
          MaxWrites   \* bound: chunks given to a WriteStream

VARIABLES rs,   \* the ReadStream
          ws    \* the WriteStream
svars == <<rs, ws>>

Least(a, b) == IF a < b THEN a ELSE b
Bytes(from, n) == [k \in 1..n |-> from + k - 1]

NoOptions == [start |-> 0, end |-> -2]
ReadStream(range) ==
    [start |-> range.start, end |-> IF range.end < 0 THEN Size ELSE range.end,
     text |-> range = NoOptions, \* opts is a string, "utf8" if there was none
     file |-> FALSE,        \* this.file is there
     opening |-> TRUE,      \* promises.open has not answered yet
     opened |-> 0, closed |-> 0, own |-> FALSE,
     offset |-> 0, curPos |-> 0,
     reading |-> "no", n |-> 0, chunk |-> <<>>,
     pushed |-> <<>>, ends |-> 0, tail |-> <<>>, destroyed |-> FALSE]

WriteStream ==
    [fd |-> FALSE, opening |-> TRUE, opened |-> 0, closed |-> 0,
     writing |-> "no", written |-> 0, callbacks |-> 0, asked |-> 0,
     destroyed |-> FALSE, overlapped |-> FALSE]

StreamsInit == /\ \E r \in Ranges : rs = ReadStream(r)
               /\ ws = WriteStream

(***************************************************************************)
(* ReadStream.                                                              *)
(***************************************************************************)
\* promises.open(path).then: too late, and the handle is forgotten.
OpenAnswers ==
    /\ rs.opening
    /\ rs' = [rs EXCEPT !.opening = FALSE, !.opened = @ + 1,
                        !.file = TRUE, !.own = @ \/ ~rs.file]
    /\ UNCHANGED ws

\* Mutants: the first read begins at the descriptor's offset; destroy closes
\* a file it has not opened.
PositionOwn == rs.offset
DestroyedAnyway(r) == [r EXCEPT !.destroyed = TRUE, !.reading = "never", !.closed = @ + 1]

\* The file is opened here when promises.open has not answered.  The read is
\* at start when nothing has been read, and then does not move the
\* descriptor's own offset; otherwise it is at that offset, and does.
Position == IF rs.curPos = 0 THEN rs.start ELSE rs.offset
Length == rs.end - rs.start - rs.curPos + 1
Destroyed(r) == [r EXCEPT !.destroyed = TRUE, !.reading = "never",
                          !.closed = IF r.own THEN @ + 1 ELSE @]

\* A string takes no property `end`; the length must fit in the buffer.
Throws(from) == rs.text \/ (Length # 0 /\ from <= Size /\ Length \notin 0..BufferSize)

Read ==
    /\ rs.reading = "no" /\ ~rs.destroyed
    /\ LET from == Position
           n    == IF Length = 0 \/ from > Size THEN 0 ELSE Least(Length, Size - from)
           r    == IF rs.file THEN rs
                   ELSE [rs EXCEPT !.file = TRUE, !.own = TRUE, !.opened = @ + 1]
       IN  rs' = IF Throws(from) THEN Destroyed(r)
                 ELSE [r EXCEPT !.reading = "then", !.n = n, !.chunk = Bytes(from, n),
                                !.offset = IF r.curPos = 0 THEN @ ELSE @ + n]
    /\ UNCHANGED ws

\* What was read is pushed, and 'end' emitted when enough has been read; a
\* read of nothing emits 'end' and pushes nothing, so none follows it.
ReadThen ==
    /\ rs.reading = "then"
    /\ LET pos == rs.curPos + rs.n
           end == IF rs.n = 0 \/ pos >= rs.end THEN 1 ELSE 0
       IN  rs' = [rs EXCEPT !.curPos = pos, !.ends = @ + end,
                    !.reading = IF rs.n = 0 \/ rs.destroyed THEN "never" ELSE "no",
                    !.pushed = IF rs.ends = 0 /\ ~rs.destroyed THEN @ \o rs.chunk ELSE @,
                    !.tail = IF rs.ends > 0 /\ ~rs.destroyed THEN @ \o rs.chunk ELSE @]
    /\ UNCHANGED ws

\* destroy closes the file it has opened, if it knows of it.
DestroyRead == /\ ~rs.destroyed
               /\ rs' = [Destroyed(rs) EXCEPT !.reading = IF rs.reading = "then" THEN "then" ELSE "never"]
               /\ UNCHANGED ws

(***************************************************************************)
(* WriteStream.                                                             *)
(***************************************************************************)
Construct ==
    /\ ws.opening
    /\ ws' = [ws EXCEPT !.opening = FALSE, !.fd = TRUE, !.opened = @ + 1]
    /\ UNCHANGED rs

Write ==
    /\ ws.fd /\ ~ws.destroyed /\ ws.writing = "no" /\ ws.asked < MaxWrites
    /\ ws' = [ws EXCEPT !.writing = "then", !.asked = @ + 1, !.written = @ + 1]
    /\ UNCHANGED rs

\* The callback of fs.write: a success ends in an undefined name (`bytes`,
\* or `kIoDone` when the stream has been destroyed), so fs.write calls it
\* again, with that error.
WriteThen ==
    /\ ws.writing \in {"then", "catch"}
    /\ ws' = [ws EXCEPT
          !.writing = IF ws.writing = "then" THEN "catch" ELSE "failed",
          !.callbacks = IF ws.writing = "catch" \/ ws.destroyed THEN @ + 1 ELSE @]
    /\ UNCHANGED rs

\* closeStream; while a write is on its way destroy meets `kIoDone` as well,
\* and nothing is closed.
DestroyWrite ==
    /\ ~ws.opening /\ ~ws.destroyed
    /\ LET busy == ws.writing = "then"
       IN  ws' = [ws EXCEPT !.destroyed = TRUE, !.overlapped = busy,
                     !.closed = IF ws.fd /\ ~busy THEN @ + 1 ELSE @,
                     !.fd = @ /\ busy]
    /\ UNCHANGED rs

StreamsNext == \/ OpenAnswers \/ Read \/ ReadThen \/ DestroyRead
               \/ Construct \/ Write \/ WriteThen \/ DestroyWrite
StreamsSpec == StreamsInit /\ [][StreamsNext]_svars

(***************************************************************************)
(* Properties.                                                              *)
(***************************************************************************)
StreamsTypeOK == /\ rs.closed <= rs.opened /\ ws.closed <= ws.opened
                 /\ rs.reading \in {"no", "then", "never"}
                 /\ ws.writing \in {"no", "then", "catch", "failed"}

(* When the end given is inside the file and the start not behind it, or no *)
(* end is given and the stream starts at the beginning, what a ReadStream   *)
(* pushes before its first 'end' is the range asked for, in order and once  *)
(* (stream.js 186-204); what follows the first 'end' is not.                *)
InFile == \/ rs.start <= rs.end + 1 /\ rs.end < Size
          \/ rs.start = 0 /\ rs.end = Size
UpToTheEnd ==
    InFile => /\ IsPrefix(rs.pushed, Bytes(rs.start, Size))
              /\ rs.ends > 0 /\ ~rs.destroyed =>
                    Len(rs.pushed) = Least(rs.end + 1, Size) - rs.start

(* A WriteStream writes one chunk and then fails; its callback comes once   *)
(* and its descriptor is closed when it is destroyed, unless destroy came   *)
(* while the write was on its way (stream.js 70-100).                       *)
OneChunk ==
    /\ ws.written <= 1
    /\ ws.callbacks <= 1 \/ ws.overlapped
    /\ ws.destroyed => ws.closed = ws.opened \/ ws.overlapped

FileStreamsKept == UpToTheEnd /\ OneChunk
=============================================================================
