------------------------------- MODULE Files -------------------------------
(***************************************************************************)
(* The descriptors the fs module opens, and the callbacks it owes           *)
(* (src/modules_js/internal/fs.js over src/modules_rs/fs.rs).               *)
(*                                                                          *)
(* Every system call is synchronous; a callback form runs it in a timeout   *)
(* (open, close, opendir, readdir, Dir.read, ftruncate) or before a promise *)
(* reaction (read, write, readFile, writeFile, appendFile).  Between two    *)
(* such turns anything else may run, and the host gives a closed number to  *)
(* the next open.  Here an open is named by its place in `objs`, and `table`*)
(* says which open each number belongs to.                                  *)
(*                                                                          *)
(* Left out: what is read and written, paths, permissions, and the checks   *)
(* of arguments that change nothing.                                        *)
(***************************************************************************)
EXTENDS Naturals, Sequences, SequencesExt

CONSTANTS Fd,         \* the descriptor numbers the host gives out
          Programs,   \* the clients looked at, see Program
          MaxFaults   \* bound: system calls that fail

(* A client calls the operations in `may`, opens `kinds`, and passes        *)
(* callbacks that behave as `throws` says, or asks Dir.close and Dir.read   *)
(* for a promise; `calls` bounds how many.  (The other promise forms are     *)
(* made of the callback forms, with a callback that does not throw.)         *)
Kinds  == {"fd", "dir", "handle"}           \* what a client gets of an open
Callbacks == {"never", "on success", "always"}
Throws == Callbacks \union {"promise"}
Transfers == {"read", "write"}
HandleOps == {"handle.readFile", "handle.writeFile", "handle.truncate"}
Ops == {"open", "close", "closeSync", "dir.read", "readdir", "readdirSync",
        "readFile", "writeFile"} \union Transfers \union HandleOps
Program == [may : SUBSET Ops, kinds : SUBSET Kinds, throws : SUBSET Throws, calls : Nat]

FilesBounds == Programs \subseteq Program /\ MaxFaults \in Nat

VARIABLES table,   \* number -> the open it belongs to, 0 when it is free
          objs,    \* the opens so far, each with the object it was given to
          program, \* what the client does
          made,    \* calls made so far
          calls,   \* the calls of callback and promise forms under way
          ends,    \* how calls have ended
          faults,  \* system calls that have failed
          strays   \* uses of a number that belonged to somebody else
fvars == <<program, made, table, objs, calls, ends, faults, strays>>

Places == {"timeout", "then", "catch", "rejected", "done"}

Object(kind, n) == [kind |-> kind, fd |-> n, shut |-> FALSE, closing |-> 0,
                    overlapped |-> FALSE, reading |-> FALSE, left |-> 1,
                    fin |-> FALSE, leak |-> "no"]

(* why: what became of a call that is not simply answered.                  *)
Call(op, o, at, t) == [op |-> op, obj |-> o, at |-> at, throws |-> t,
                       answers |-> <<>>, why |-> ""]

FilesInit ==
    /\ table = [n \in Fd |-> 0]
    /\ program \in Programs
    /\ objs = <<>> /\ calls = <<>> /\ made = 0
    /\ ends = {} /\ faults = 0 /\ strays = {}

(***************************************************************************)
(* The system calls.                                                        *)
(***************************************************************************)
\* A system call succeeds, or fails while the bound on failures allows it.
Outcome(ok) == ok \in BOOLEAN /\ (~ok => faults < MaxFaults)
                              /\ faults' = faults + (IF ok THEN 0 ELSE 1)

\* binding.openSync: any free number.
Opened(n, o) == n \in Fd /\ table[n] = 0 /\ table' = [table EXCEPT ![n] = o]

\* A use of o's number meets whoever has it now.
Uses(o, how) == IF table[objs[o].fd] \in {0, o} THEN {}
                ELSE {[by |-> o, of |-> table[objs[o].fd], how |-> how]}
Closed(o) == [table EXCEPT ![objs[o].fd] = 0]
IsOpen(o) == ~objs[o].shut /\ table[objs[o].fd] # 0

(***************************************************************************)
(* Answering.                                                               *)
(***************************************************************************)
Angry(c, answer) == \/ c.throws = "always"
                    \/ c.throws = "on success" /\ answer = "ok"
Answered(c, answer) == [c EXCEPT !.answers = Append(@, answer), !.at = "done"]

\* Mutant: an error is told twice.
SettledTwice(c, ok) ==
    IF ok THEN Answered(c, "ok") ELSE Answered(Answered(c, "error"), "error")

\* try { ...; callback(null) } catch (err) { callback(err) }: a callback that
\* throws is called again with what it threw.
Settled(c, ok) ==
    IF ~ok THEN Answered(c, "error")
    ELSE IF Angry(c, "ok") THEN Answered(Answered(c, "ok"), "error")
    ELSE Answered(c, "ok")

\* How a call ended is kept, the call is not.
End(c) == [op |-> c.op, throws |-> c.throws, answers |-> c.answers, why |-> c.why]

MayCall(op, t) == /\ made < program.calls /\ op \in program.may
                  /\ t \in program.throws \union {"never"}
Made(c) == /\ made' = made + 1
           /\ IF c.at = "done" THEN ends' = ends \union {End(c)} /\ UNCHANGED calls
              ELSE calls' = Append(calls, c) /\ UNCHANGED ends
           /\ UNCHANGED program
Set(i, c) == /\ IF c.at = "done"
                THEN ends' = ends \union {End(c)} /\ calls' = RemoveAt(calls, i)
                ELSE calls' = [calls EXCEPT ![i] = c] /\ UNCHANGED ends
             /\ UNCHANGED <<program, made>>
New == Len(objs) + 1

\* Promise reactions run before the next timeout does.
TimeoutOf(i, op) == /\ calls[i].op = op /\ calls[i].at = "timeout"
                    /\ \A j \in 1..Len(calls) :
                          calls[j].at = "timeout"

\* A number the module keeps to itself, and why it may stay open.
Inner(n, leak) == objs' = Append(objs, [Object("inner", n) EXCEPT !.leak = leak])

(***************************************************************************)
(* open, opendir and promises.open.                                         *)
(***************************************************************************)
Open(kind, t) ==
    /\ MayCall("open", t) /\ kind \in program.kinds
    /\ kind = "handle" => t = "never"    \* the callback is the module's own
    /\ \/ Made(Call("open", kind, "timeout", t)) /\ UNCHANGED faults
       \/ /\ kind = "dir"                      \* statSync first, and at once
          /\ Outcome(FALSE)
          /\ Made(Answered(Call("open", kind, "done", t), "error"))
    /\ UNCHANGED <<table, objs, strays>>

OpenTurn(i) ==
    /\ TimeoutOf(i, "open")
    /\ \/ \E n \in Fd : /\ Opened(n, New)
                        /\ objs' = Append(objs, Object(calls[i].obj, n))
                        /\ Set(i, Settled(calls[i], TRUE))
                        /\ UNCHANGED faults
       \/ /\ \/ Outcome(FALSE)
             \/ (\A n \in Fd : table[n] # 0) /\ UNCHANGED faults
          /\ Set(i, Settled(calls[i], FALSE))
          /\ UNCHANGED <<table, objs>>
    /\ UNCHANGED strays

(***************************************************************************)
(* close, Dir.close and FileHandle.close.  The object only learns that it   *)
(* is closed when the timeout has run: a Dir with a callback learns it even *)
(* of a close that failed, the promise forms only of one that did not (their*)
(* reaction is the first after the timeout).  A number is the client's own  *)
(* to keep, and this client closes it once.                                 *)
(***************************************************************************)
\* Mutant: nobody asks whether it is closed.
NeverClosed(o) == FALSE

AlreadyClosed(o) == objs[o].shut
CloseBegins(o) == objs' = [objs EXCEPT ![o].closing = @ + 1,
                                       ![o].overlapped = @ \/ objs[o].closing > 0]

Close(o, t) ==
    /\ MayCall("close", t) /\ objs[o].kind \in Kinds
    /\ objs[o].kind = "fd" => ~objs[o].shut /\ objs[o].closing = 0
    /\ objs[o].kind = "handle" => t = "never"
    /\ t = "promise" => objs[o].kind = "dir"
    /\ \/ /\ AlreadyClosed(o)
          /\ Made(Answered(Call("close", o, "done", t),
                           IF objs[o].kind = "dir" THEN "error" ELSE "ok"))
          /\ UNCHANGED objs
       \/ /\ ~AlreadyClosed(o)
          /\ Made(Call("close", o, "timeout", t))
          /\ CloseBegins(o)
    /\ UNCHANGED <<table, faults, strays>>

CloseTurn(i) ==
    LET o == calls[i].obj
        holds == table[objs[o].fd] # 0
        anyway == objs[o].kind = "dir" /\ calls[i].throws # "promise"
    IN  /\ TimeoutOf(i, "close")
        /\ \E ok \in BOOLEAN :
              /\ IF holds THEN Outcome(ok) ELSE ~ok /\ UNCHANGED faults
              /\ table' = IF ok THEN Closed(o) ELSE table
              /\ strays' = strays \union (IF ok THEN Uses(o, "close") ELSE {})
              /\ objs' = [objs EXCEPT ![o].closing = @ - 1,
                                      ![o].shut = @ \/ ok \/ anyway,
                                      ![o].leak = IF ok \/ ~holds THEN @ ELSE "close failed"]
              /\ Set(i, Settled(calls[i], ok))

(* Dir.closeSync refuses while a read is on its way, not while a close is.  *)
DirCloseSync(o) ==
    /\ MayCall("closeSync", "never") /\ objs[o].kind = "dir"
    /\ ~AlreadyClosed(o) /\ ~objs[o].reading /\ IsOpen(o)
    /\ made' = made + 1
    /\ table' = Closed(o)
    /\ strays' = strays \union Uses(o, "close")
    /\ objs' = [objs EXCEPT ![o].shut = TRUE,
                            ![o].overlapped = @ \/ objs[o].closing > 0]
    /\ UNCHANGED <<program, calls, ends, faults>>

(***************************************************************************)
(* Dir.read: a directory of one entry.  At the end a callback is called     *)
(* with null, and then again with what new Dirent(undefined) throws; a      *)
(* promise is resolved, and that is all.                                    *)
(***************************************************************************)
DirRead(o, t) ==
    /\ MayCall("dir.read", t) /\ objs[o].kind = "dir"
    /\ Made(Call("dir.read", o, "timeout", t))
    /\ objs' = [objs EXCEPT ![o].reading = TRUE,
                            ![o].overlapped = @ \/ objs[o].closing > 0]
    /\ UNCHANGED <<table, faults, strays>>

EndOfDirectory(c) ==
    IF c.throws = "promise" THEN Answered(c, "ok")
    ELSE [Answered(Answered(c, "ok"), "error") EXCEPT !.why = "end of directory"]

DirReadTurn(i) ==
    LET o == calls[i].obj
        fetch == ~objs[o].fin
    IN  /\ TimeoutOf(i, "dir.read")
        /\ \/ /\ \/ AlreadyClosed(o) /\ UNCHANGED faults
                 \/ /\ ~AlreadyClosed(o) /\ fetch
                    /\ IF IsOpen(o) THEN Outcome(FALSE) ELSE UNCHANGED faults
              /\ Set(i, Settled(calls[i], FALSE))
              /\ objs' = [objs EXCEPT ![o].reading = FALSE]
              /\ UNCHANGED strays
           \/ /\ ~AlreadyClosed(o) /\ (fetch => IsOpen(o))
              /\ strays' = strays \union (IF fetch THEN Uses(o, "read") ELSE {})
              /\ IF objs[o].left > 0 THEN Set(i, Settled(calls[i], TRUE))
                 ELSE Set(i, EndOfDirectory(calls[i]))
              /\ objs' = [objs EXCEPT ![o].reading = FALSE, ![o].fin = TRUE,
                                      ![o].left = IF @ > 0 THEN @ - 1 ELSE 0]
              /\ UNCHANGED faults
        /\ UNCHANGED table

(***************************************************************************)
(* readdir closes through the iterator, whatever its reads did, and leaves  *)
(* the descriptor open when that close fails; readdirSync never closes.     *)
(***************************************************************************)
ReadDir(t) == /\ MayCall("readdir", t)
              /\ Made(Call("readdir", 0, "timeout", t))
              /\ UNCHANGED <<table, objs, faults, strays>>

ReadDirTurn(i) ==
    /\ TimeoutOf(i, "readdir")
    /\ \/ /\ \/ Outcome(FALSE)
             \/ (\A n \in Fd : table[n] # 0) /\ UNCHANGED faults
          /\ Set(i, Settled(calls[i], FALSE))
          /\ UNCHANGED <<table, objs>>
       \/ /\ \E n \in Fd : table[n] = 0
          /\ UNCHANGED <<table, objs, faults>>
          /\ Set(i, Settled(calls[i], TRUE))
       \/ \E n \in Fd : /\ Opened(n, New) /\ Inner(n, "close failed")
                        /\ Outcome(FALSE)
                        /\ Set(i, Settled(calls[i], FALSE))
    /\ UNCHANGED strays

ReadDirSync ==
    /\ MayCall("readdirSync", "never")
    /\ \E n \in Fd : Opened(n, New) /\ Inner(n, "readdirSync")
    /\ Made(Answered(Call("readdirSync", New, "done", "never"), "ok"))
    /\ UNCHANGED <<faults, strays>>

(***************************************************************************)
(* readFile(path): open, fstat and read at once; the answer, and the close  *)
(* before it, in a promise reaction.  A read that fails meets a handler     *)
(* that itself throws (it names `err`): no answer, and no close.            *)
(***************************************************************************)
ReadFile(t) ==
    LET c == Call("readFile", New, "done", t)
    IN  /\ MayCall("readFile", t)
        /\ \/ /\ Outcome(FALSE)                               \* openSync
              /\ Made(Answered(c, "error"))
              /\ UNCHANGED <<table, objs>>
           \/ \E n \in Fd :
                 \/ /\ Opened(n, New) /\ Inner(n, "no")
                    /\ UNCHANGED faults
                    /\ Made([c EXCEPT !.at = "then"])
                 \/ /\ Opened(n, New) /\ Inner(n, "stat failed")
                    /\ Outcome(FALSE)
                    /\ Made([c EXCEPT !.why = "thrown at the caller"])
                 \/ /\ Opened(n, New) /\ Inner(n, "read failed")
                    /\ Outcome(FALSE)
                    /\ Made([c EXCEPT !.at = "catch"])
                 \/ /\ table[n] = 0 /\ UNCHANGED <<table, objs>>
                    /\ Outcome(FALSE)                     \* fstat of read
                    /\ Made(Answered(c, "error"))
        /\ UNCHANGED strays

ReadFileThen(i) ==
    LET o == calls[i].obj
    IN  /\ calls[i].op = "readFile" /\ calls[i].at = "then"
        /\ \/ /\ IsOpen(o) /\ table' = Closed(o)
              /\ strays' = strays \union Uses(o, "close")
              /\ Set(i, Answered(calls[i], "ok"))
              /\ UNCHANGED <<objs, faults>>
           \/ /\ Outcome(FALSE)
              /\ objs' = [objs EXCEPT ![o].leak = "close failed"]
              /\ Set(i, [calls[i] EXCEPT !.at = "done", !.why = "close failed"])
              /\ UNCHANGED <<table, strays>>

\* read's .catch, for readFile and for read itself
ReadCatch(i) == /\ calls[i].op \in {"readFile", "read", "handle.readFile"}
                /\ calls[i].at = "catch"
                /\ Set(i, [calls[i] EXCEPT !.at = "done", !.why = "read failed"])
                /\ UNCHANGED <<table, objs, faults, strays>>

(***************************************************************************)
(* writeFile(path, data) and appendFile: the callback comes before the      *)
(* close, and one that throws is called again, by write's .catch.  Data of  *)
(* the wrong type is only refused by write, when the file is open.          *)
(***************************************************************************)
WriteFile(t, good) ==
    LET c == Call("writeFile", New, "done", t)
    IN  /\ MayCall("writeFile", t)
        /\ \/ /\ Outcome(FALSE)
              /\ Made(Answered(c, "error"))
              /\ UNCHANGED <<table, objs>>
           \/ \E n \in Fd :
                 /\ Opened(n, New)
                 /\ IF good
                    THEN /\ Inner(n, "no")
                         /\ \E ok \in BOOLEAN :
                               /\ Outcome(ok)
                               /\ Made([c EXCEPT !.at = IF ok THEN "then" ELSE "catch"])
                    ELSE /\ Inner(n, "bad data")
                         /\ Made([Answered(c, "error") EXCEPT !.why = "bad data"])
                         /\ UNCHANGED faults
        /\ UNCHANGED strays

WriteFileTurn(i) ==
    LET c == calls[i]
        o == c.obj
        answer == IF c.at = "then" THEN "ok" ELSE "error"
        next   == IF c.at = "then" THEN "catch" ELSE "done"
        said   == [c EXCEPT !.answers = Append(@, answer)]
    IN  /\ c.op = "writeFile" /\ c.at \in {"then", "catch"}
        /\ \/ /\ Angry(c, answer)
              /\ Set(i, [said EXCEPT !.at = next])
              /\ objs' = [objs EXCEPT ![o].leak = IF next = "done" THEN "threw" ELSE @]
              /\ UNCHANGED <<table, faults, strays>>
           \/ /\ ~Angry(c, answer) /\ IsOpen(o)
              /\ table' = Closed(o)
              /\ strays' = strays \union Uses(o, "close")
              /\ Set(i, [said EXCEPT !.at = "done"])
              /\ UNCHANGED <<objs, faults>>
           \/ /\ ~Angry(c, answer) /\ Outcome(FALSE)
              /\ objs' = [objs EXCEPT ![o].leak = IF next = "done" THEN "close failed" ELSE @]
              /\ Set(i, [said EXCEPT !.at = next, !.why = "close failed"])
              /\ UNCHANGED <<table, strays>>

(***************************************************************************)
(* read(fd, ...) and write(fd, ...), on a number or through a FileHandle.   *)
(***************************************************************************)
Transfer(op, o, t) ==
    /\ op \in Transfers /\ MayCall(op, t)
    /\ objs[o].kind = "fd" => ~objs[o].shut /\ objs[o].closing = 0
    /\ objs[o].kind = "handle" => t = "never"
    /\ objs[o].kind # "dir" /\ objs[o].kind \in Kinds
    /\ \/ /\ \/ ~IsOpen(o) /\ UNCHANGED faults
             \/ IsOpen(o) /\ Outcome(FALSE)            \* fstatSync
          /\ Made(IF op = "read" THEN Answered(Call(op, o, "done", t), "error")
                  ELSE Call(op, o, "catch", t))
          /\ UNCHANGED <<objs, strays>>
       \/ /\ IsOpen(o)
          /\ strays' = strays \union Uses(o, op)
          /\ objs' = [objs EXCEPT ![o].overlapped = @ \/ objs[o].closing > 0]
          /\ \E ok \in BOOLEAN :
                /\ Outcome(ok)
                /\ Made(Call(op, o, IF ok THEN "then" ELSE "catch", t))
    /\ UNCHANGED table

TransferTurn(i) ==
    LET c == calls[i]
    IN  /\ \/ c.op = "read" /\ c.at = "then" /\ Set(i, Answered(c, "ok"))
           \/ c.op = "write" /\ c.at = "then" /\ Set(i, Settled(c, TRUE))
           \/ c.op = "write" /\ c.at = "catch" /\ Set(i, Settled(c, FALSE))
        /\ UNCHANGED <<table, objs, faults, strays>>

(***************************************************************************)
(* FileHandle.readFile, writeFile and truncate: on an error the handle is   *)
(* closed before the promise is rejected.                                   *)
(***************************************************************************)
Handle(op, o) ==
    /\ op \in HandleOps /\ MayCall(op, "never")
    /\ objs[o].kind = "handle"
    /\ \/ /\ op = "handle.truncate"
          /\ Made(Call(op, o, "timeout", "never"))
          /\ UNCHANGED <<faults, strays>>
       \/ /\ op # "handle.truncate" /\ ~IsOpen(o)
          /\ Made(Call(op, o, "rejected", "never"))
          /\ UNCHANGED <<faults, strays>>
       \/ /\ op # "handle.truncate" /\ IsOpen(o)
          /\ strays' = strays \union Uses(o, op)
          /\ \E how \in {"then", "catch", "rejected"} :
                /\ Outcome(how = "then")
                /\ how = "catch" => op = "handle.readFile"
                /\ Made(Call(op, o, how, "never"))
    /\ objs' = [objs EXCEPT ![o].overlapped = @ \/ objs[o].closing > 0]
    /\ UNCHANGED table

TruncateTurn(i) ==
    LET o == calls[i].obj
    IN  /\ TimeoutOf(i, "handle.truncate")
        /\ \/ /\ IsOpen(o)
              /\ strays' = strays \union Uses(o, "truncate")
              /\ Set(i, Answered(calls[i], "ok"))
              /\ UNCHANGED faults
           \/ /\ IF IsOpen(o) THEN Outcome(FALSE) ELSE UNCHANGED faults
              /\ Set(i, [calls[i] EXCEPT !.at = "rejected"])
              /\ UNCHANGED strays
        /\ UNCHANGED <<table, objs>>

HandleThen(i) == /\ calls[i].op \in HandleOps /\ calls[i].at = "then"
                 /\ Set(i, Answered(calls[i], "ok"))
                 /\ UNCHANGED <<table, objs, faults, strays>>

\* `await this.close()`: the call goes on as a close of the handle.
HandleRejected(i) ==
    LET o == calls[i].obj
    IN  /\ calls[i].op \in HandleOps /\ calls[i].at = "rejected"
        /\ IF AlreadyClosed(o)
           THEN Set(i, Answered(calls[i], "error")) /\ UNCHANGED objs
           ELSE /\ Set(i, [calls[i] EXCEPT !.op = "close", !.at = "timeout",
                                           !.why = "closes after an error"])
                /\ CloseBegins(o)
        /\ UNCHANGED <<table, faults, strays>>

(***************************************************************************)
(* Clients and turns.                                                       *)
(***************************************************************************)
Client ==
    \/ \E t \in Callbacks : \/ \E kind \in Kinds : Open(kind, t)
                            \/ ReadDir(t) \/ ReadFile(t)
                            \/ \E good \in BOOLEAN : WriteFile(t, good)
    \/ ReadDirSync
    \/ \E o \in 1..Len(objs) :
          \/ DirCloseSync(o)
          \/ \E op \in HandleOps : Handle(op, o)
          \/ \E t \in Throws : Close(o, t) \/ DirRead(o, t)
          \/ \E t \in Callbacks, op \in Transfers : Transfer(op, o, t)

Turn ==
    \E i \in 1..Len(calls) :
       \/ OpenTurn(i) \/ CloseTurn(i) \/ DirReadTurn(i) \/ ReadDirTurn(i)
       \/ ReadFileThen(i) \/ ReadCatch(i) \/ WriteFileTurn(i)
       \/ TransferTurn(i) \/ TruncateTurn(i) \/ HandleThen(i) \/ HandleRejected(i)

FilesNext == Client \/ Turn
FilesSpec == FilesInit /\ [][FilesNext]_fvars

(***************************************************************************)
(* Properties.                                                              *)
(***************************************************************************)
FilesTypeOK ==
    /\ table \in [Fd -> 0..Len(objs)]
    /\ \A o \in 1..Len(objs) : objs[o].fd \in Fd /\ objs[o].closing \in 0..made
    /\ \A i \in 1..Len(calls) : calls[i].at \in Places \ {"done"}
    /\ program \in Programs /\ made \in 0..program.calls
    /\ faults \in 0..MaxFaults

(* Nobody meets a descriptor that somebody else opened, unless an object    *)
(* was used while a close of it was on its way: Dir and FileHandle only     *)
(* learn that they are closed when close's timeout has run (Dir.close       *)
(* 2429-2446, FileHandle.close 2769-2777).  Such an object may close        *)
(* another's descriptor, which then goes astray without a fault of its own. *)
StrayNeedsOverlap ==
    /\ \A s \in strays : \/ objs[s.by].overlapped
                         \/ \E r \in strays : r.how = "close" /\ r.of = s.by
    /\ strays # {} => \E s \in strays : objs[s.by].overlapped

(* When every call is over, a descriptor that is still open is one a client *)
(* can close, or one of those the code is known to leave behind; and what a *)
(* client closed is closed.                                                 *)
NothingLeftOpen ==
    calls = <<>> => \A n \in Fd :
        LET o == table[n]
        IN  o # 0 => \/ objs[o].leak # "no"
                     \/ objs[o].kind \in Kinds /\ ~objs[o].shut

(* A call is answered once when it is over, whatever failed, unless its own *)
(* callback threw, a read failed (nobody is told), the directory ended (the *)
(* callback is told twice), a close failed, or the caller got the exception.*)
AnsweredOnce ==
    \A e \in ends :
       \/ Len(e.answers) = 1
       \/ Len(e.answers) = 2 /\ Angry(e, "ok") /\ e.answers[1] = "ok"
       \/ e.why \in {"read failed", "end of directory", "close failed",
                     "thrown at the caller"}

DescriptorsKept == StrayNeedsOverlap /\ NothingLeftOpen
=============================================================================
