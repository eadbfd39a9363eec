------------------------------ MODULE FileTree ------------------------------
(***************************************************************************)
(* The operations of the fs module on paths (src/modules_js/internal/fs.js  *)
(* over src/modules_rs/fs.rs), and cp, which is made of them                *)
(* (src/modules_js/internal/fs/cp).  Each operation is one turn: what its   *)
(* callback form does is the synchronous form, in a timeout.  cp awaits one *)
(* such turn after another, and others change the tree in between.          *)
(*                                                                          *)
(* A path is a sequence of at most two names, relative to the working       *)
(* directory.  Left out: hard links, permissions, times, what std::fs::copy *)
(* copies beside the content, filters of cp, and the two lstats of one      *)
(* check of cp, which are taken at one moment.                              *)
(***************************************************************************)
EXTENDS Naturals, FiniteSets, SequencesExt

CONSTANTS Names,      \* names of files
          Trees,      \* the trees to begin with
          Copies,     \* the calls of cp looked at: [src, dest, force, recursive]
          MaxOthers   \* bound: operations of others

Top == { <<n>> : n \in Names }
Under == { <<n, m>> : n \in Names, m \in Names }
Paths == Top \union Under
NoPath == <<"nowhere", "nowhere", "nowhere">>

(***************************************************************************)
(* The host's file system: a node for every path, links by the path they    *)
(* lead to (external).                                                      *)
(***************************************************************************)
Node(kind, data, to) == [kind |-> kind, data |-> data, to |-> to]
None == Node("none", 0, <<>>)
Dir  == Node("dir", 0, <<>>)
File(d) == Node("file", d, <<>>)
Link(p) == Node("link", 0, p)
Data == 1..3

Dirname(p) == Front(p)
KindAt(t, p) == IF p = <<>> THEN "dir" ELSE IF p \in Paths THEN t[p].kind ELSE "none"
Inside(p) == { q \in Paths : IsPrefix(p, q) }
Children(t, p) == { q \in Paths : Len(q) = Len(p) + 1 /\ Dirname(q) = p
                                  /\ t[q].kind # "none" }

\* Where a path leads: links are followed, at most `fuel` of them.
RECURSIVE Walk(_, _, _, _)
Walk(t, done, rest, fuel) ==
    IF rest = <<>> THEN done
    ELSE LET next == Append(done, Head(rest)) IN
         IF next \notin Paths \/ KindAt(t, done) # "dir" THEN NoPath
         ELSE IF t[next].kind # "link" THEN Walk(t, next, Tail(rest), fuel)
         ELSE IF fuel = 0 THEN NoPath
         ELSE Walk(t, <<>>, t[next].to \o Tail(rest), fuel - 1)

Follow(t, p) == Walk(t, <<>>, p, 3)
\* The last name itself is not followed.
Place(t, p) == LET d == Follow(t, Dirname(p))
               IN  IF KindAt(t, d) = "dir" /\ Append(d, Last(p)) \in Paths
                   THEN Append(d, Last(p)) ELSE NoPath

(***************************************************************************)
(* The operations.  Each gives the tree after it and whether it succeeded.  *)
(***************************************************************************)
Stat(t, p)  == KindAt(t, Follow(t, p))
Lstat(t, p) == KindAt(t, Place(t, p))
Exists(t, p) == Stat(t, p) # "none"

Done(t) == [tree |-> t, ok |-> TRUE]
Fail(t) == [tree |-> t, ok |-> FALSE]
Put(t, p, node) == [t EXCEPT ![p] = node]
Without(t, P) == [q \in Paths |-> IF q \in P THEN None ELSE t[q]]

\* create_dir
MkdirOne(t, p) == IF Place(t, p) # NoPath /\ Lstat(t, p) = "none"
                  THEN Done(Put(t, Place(t, p), Dir)) ELSE Fail(t)
\* create_dir_all
Mkdir(t, p, recursive) ==
    IF ~recursive THEN MkdirOne(t, p)
    ELSE IF Stat(t, p) = "dir" THEN Done(t)
    ELSE LET up == IF Stat(t, Dirname(p)) = "dir" THEN Done(t) ELSE MkdirOne(t, Dirname(p))
         IN  IF up.ok THEN MkdirOne(up.tree, p) ELSE Fail(t)

\* What mkdirSync answers: the first part of the path that is not there.
FirstMissing(t, p) ==
    LET missing == { n \in 1..Len(p) : ~Exists(t, SubSeq(p, 1, n)) }
    IN  IF missing = {} THEN NoPath
        ELSE SubSeq(p, 1, CHOOSE n \in missing : \A m \in missing : n <= m)

\* remove_dir of a link fails; remove_dir_all removes the link.
RemoveDir(t, p, recursive) ==
    LET at == Place(t, p)
    IN  IF KindAt(t, at) = "none" THEN Fail(t)
        ELSE IF recursive /\ t[at].kind \in {"dir", "link"} THEN Done(Without(t, Inside(at)))
        ELSE IF t[at].kind = "dir" /\ Children(t, at) = {} THEN Done(Put(t, at, None))
        ELSE Fail(t)

\* metadata() follows the link, so a link that leads nowhere is not found.
Rm(t, p, recursive, force) ==
    IF Stat(t, p) = "none" THEN (IF force THEN Done(t) ELSE Fail(t))
    ELSE IF Stat(t, p) = "file" THEN Done(Put(t, Place(t, p), None))
    ELSE RemoveDir(t, p, recursive)
Unlink(t, p) == Rm(t, p, FALSE, FALSE)

Moved(t, from, to) ==
    [q \in Paths |->
        IF IsPrefix(to, q) THEN LET s == from \o SubSeq(q, Len(to) + 1, Len(q))
                                IN  IF s \in Paths THEN t[s] ELSE None
        ELSE IF IsPrefix(from, q) THEN None ELSE t[q]]
\* std::fs::rename, after statSync has found the one and not the other
RenameChecks(t, p, q) == Exists(t, p) /\ ~Exists(t, q)
Rename(t, p, q) ==
    LET from == Place(t, p)
        to   == Place(t, q)
    IN  IF /\ RenameChecks(t, p, q) /\ to # NoPath /\ ~IsPrefix(from, to)
           /\ t[from].kind = "dir" => t[to].kind = "none"
           /\ Children(t, from) # {} => Len(to) = 1
        THEN Done(Moved(t, from, to)) ELSE Fail(t)

\* A file is opened through the links that lead to it.
WriteTo(t, p, data) ==
    LET at == Follow(t, p)
    IN  IF at = NoPath \/ at = <<>> \/ KindAt(t, at) \in {"dir", "link"}
           \/ KindAt(t, Dirname(at)) # "dir"
        THEN Fail(t) ELSE Done(Put(t, at, File(data)))

\* std::fs::copy, which empties the one before it reads the other, and they
\* may be the same file; `excl` is the lowest bit of the mode.
Empty == 0
CopyFile(t, p, q, excl) ==
    IF Stat(t, p) # "file" \/ (excl /\ Exists(t, q)) THEN Fail(t)
    ELSE WriteTo(t, q, IF Follow(t, p) = Follow(t, q) THEN Empty ELSE t[Follow(t, p)].data)

\* A target of one name is taken from the link's own directory, any other
\* from the working directory.
Symlink(t, target, p) ==
    LET at == Place(t, p)
        to == IF Len(target) = 1 THEN Dirname(p) \o target ELSE target
    IN  IF at # NoPath /\ t[at].kind = "none" THEN Done(Put(t, at, Link(to)))
        ELSE Fail(t)

(***************************************************************************)
(* cp.  A stack of what is still to be done; `seen` is the kind that the    *)
(* check found at dest, `to` where the link leads that is copied.           *)
(***************************************************************************)
VARIABLES tree,    \* the file system
          cp,      \* the call of cp: its options, its stack, how it stands
          before,  \* history: the tree when cp was called
          touched  \* history: the paths others have changed since, all once they put a
                   \* link somewhere: what is written to may then be elsewhere
tvars == <<tree, cp, before, touched>>

Task(do, src, dest, seen) ==
    [do |-> do, src |-> src, dest |-> dest, seen |-> seen, names |-> {}, to |-> <<>>]

TreeInit == /\ tree \in Trees /\ before = tree
            /\ \E c \in Copies :
                  cp = [call |-> c, others |-> 0, now |-> "running",
                        stack |-> << Task("check", c.src, c.dest, "none") >>]
            /\ touched = {}

\* checkPaths: lstat of both
Identical(t, p, q) == Place(t, p) = Place(t, q)
CheckPaths(t, src, dest) ==
    LET s == Lstat(t, src)
        d == Lstat(t, dest)
    IN  /\ s # "none"
        /\ d # "none" => ~Identical(t, src, dest) /\ (s = "dir" <=> d = "dir")
        /\ s = "dir" => ~IsPrefix(src, dest)

\* checkParentPaths: dest's parents are not the source itself
CheckParents(t, src, dest) ==
    \/ Len(dest) = 1 \/ Dirname(dest) = Dirname(src)
    \/ Stat(t, Dirname(dest)) = "none"
    \/ Follow(t, Dirname(dest)) # Place(t, src)

Task1 == cp.stack[1]
Running(do) == cp.now = "running" /\ cp.stack # <<>> /\ Task1.do = do
Becomes(tasks) == cp' = [cp EXCEPT !.stack = tasks \o Tail(@),
                                   !.now = IF tasks \o Tail(cp.stack) = <<>>
                                           THEN "done" ELSE @]
Then(do) == Becomes(<< [Task1 EXCEPT !.do = do] >>)
Throws == cp' = [cp EXCEPT !.stack = <<>>, !.now = "failed"]
\* An awaited operation: its tree, and what follows when it succeeds.
Awaits(result, next) == /\ tree' = result.tree
                        /\ IF result.ok THEN next ELSE Throws

Check ==
    /\ Running("check")
    /\ IF CheckPaths(tree, Task1.src, Task1.dest)
       THEN Becomes(<< [Task1 EXCEPT !.seen = Lstat(tree, Task1.dest),
                           !.do = IF Len(cp.stack) = 1 THEN "check parents" ELSE "copy"] >>)
       ELSE Throws
    /\ UNCHANGED tree

CheckParentDir ==
    /\ \/ /\ Running("check parents")
          /\ IF CheckParents(tree, Task1.src, Task1.dest) THEN Then("find parent") ELSE Throws
          /\ UNCHANGED tree
       \/ /\ Running("find parent")
          /\ Then(IF Exists(tree, Dirname(Task1.dest)) THEN "copy" ELSE "make parent")
          /\ UNCHANGED tree
       \/ /\ Running("make parent")
          /\ Awaits(Mkdir(tree, Dirname(Task1.dest), TRUE), Then("copy"))

\* Mutant: a file that is there is replaced without being asked to.
CopyOver ==
    /\ Running("copy")
    /\ CASE Lstat(tree, Task1.src) = "dir" -> Then("mkdir")
         [] Lstat(tree, Task1.src) = "file" -> Then("unlink")
         [] OTHER -> Throws
    /\ UNCHANGED tree

\* getStatsForCopy: a new lstat of the source, and the old one of dest
Copy ==
    /\ Running("copy")
    /\ LET kind == Lstat(tree, Task1.src)
           new  == Task1.seen = "none"
       IN  CASE kind = "dir" /\ cp.call.recursive -> Then(IF new THEN "mkdir" ELSE "opendir")
             [] kind = "file" /\ new             -> Then("copy file")
             [] kind = "file" /\ ~new /\ cp.call.force -> Then("unlink")
             [] kind = "file" /\ ~new /\ ~cp.call.force -> Becomes(<<>>)
             [] kind = "link" -> Then("copy link")
             [] OTHER -> Throws
    /\ UNCHANGED tree

CopyFileStep ==
    \/ Running("unlink") /\ Awaits(Unlink(tree, Task1.dest), Then("copy file"))
    \/ /\ Running("copy file")
       /\ Awaits(CopyFile(tree, Task1.src, Task1.dest, FALSE), Becomes(<<>>))

\* onLink.  readlink answers 1024 characters, of which all but the first few
\* are zero, and symlink refuses such a target: no link is ever copied, but
\* one that is to be replaced is removed first.  Of two such targets one is
\* only inside the other when they are the same.
CopyLink ==
    \/ /\ Running("copy link")
       /\ IF Lstat(tree, Task1.src) = "link"
          THEN Becomes(<< [Task1 EXCEPT !.to = tree[Place(tree, Task1.src)].to,
                              !.do = IF Task1.seen = "none" THEN "symlink" ELSE "read dest"] >>)
          ELSE Throws
       /\ UNCHANGED tree
    \/ /\ Running("read dest")
       /\ CASE Lstat(tree, Task1.dest) \in {"file", "dir"} -> Then("symlink")
            [] Lstat(tree, Task1.dest) = "link"
               /\ tree[Place(tree, Task1.dest)].to # Task1.to -> Then("stat link")
            [] OTHER -> Throws
       /\ UNCHANGED tree
    \/ /\ Running("stat link")
       /\ IF Exists(tree, Task1.src) THEN Then("unlink link") ELSE Throws
       /\ UNCHANGED tree
    \/ Running("unlink link") /\ Awaits(Unlink(tree, Task1.dest), Then("symlink"))
    \/ Running("symlink") /\ Throws /\ UNCHANGED tree

CopyDir ==
    \/ /\ Running("mkdir")
       /\ Awaits(Mkdir(tree, Task1.dest, FALSE), Then("opendir"))
    \/ /\ Running("opendir")
       /\ IF Stat(tree, Task1.src) = "dir"
          THEN Becomes(<< [Task1 EXCEPT !.do = "each",
                  !.names = { Last(q) : q \in Children(tree, Follow(tree, Task1.src)) }] >>)
          ELSE Throws
       /\ UNCHANGED tree
    \/ /\ Running("each")
       /\ IF Task1.names = {} THEN Becomes(<<>>)
          ELSE \E n \in Task1.names :
                  Becomes(<< Task("check", Append(Task1.src, n), Append(Task1.dest, n), "none"),
                             [Task1 EXCEPT !.names = @ \ {n}] >>)
       /\ UNCHANGED tree

CpStep == /\ Check \/ CheckParentDir \/ Copy \/ CopyFileStep \/ CopyLink \/ CopyDir
          /\ UNCHANGED <<before, touched>>

\* Somebody else, between two turns of cp.
Others ==
    /\ cp.now = "running" /\ cp.others < MaxOthers
    /\ cp' = [cp EXCEPT !.others = @ + 1]
    /\ \E p \in Paths :
          \/ tree' = WriteTo(tree, p, 3).tree
          \/ \E recursive \in BOOLEAN : tree' = Mkdir(tree, p, recursive).tree
          \/ \E recursive, force \in BOOLEAN : tree' = Rm(tree, p, recursive, force).tree
          \/ \E q \in Paths : \/ tree' = Rename(tree, p, q).tree
                              \/ tree' = Symlink(tree, p, q).tree
    /\ LET changed == { q \in Paths : tree'[q] # tree[q] }
       IN  touched' = IF \E q \in changed : tree'[q].kind = "link" THEN Paths
                      ELSE touched \union changed
    /\ UNCHANGED before

TreeNext == CpStep \/ Others
TreeSpec == TreeInit /\ [][TreeNext]_tvars

(***************************************************************************)
(* cpSync, by what it does to a tree when nothing comes in between.         *)
(***************************************************************************)
RECURSIVE CopyTree(_, _, _, _), CopyAll(_, _, _, _, _)
CopyTree(t, c, src, dest) ==
    LET kind == Lstat(t, src)
        old  == Lstat(t, dest)
        into == IF old = "none" THEN Mkdir(t, dest, FALSE) ELSE Done(t)
    IN  IF ~CheckPaths(t, src, dest) THEN Fail(t)
        ELSE IF kind = "dir" /\ c.recursive
             THEN IF ~into.ok THEN Fail(t)
                  ELSE CopyAll(into.tree, c, src, dest,
                               { Last(q) : q \in Children(into.tree, Follow(t, src)) })
        ELSE IF kind # "file" THEN Fail(t)
        ELSE IF old # "none" /\ ~c.force THEN Done(t)
        ELSE LET gone == IF old = "none" THEN Done(t) ELSE Unlink(t, dest)
             IN  IF gone.ok THEN CopyFile(gone.tree, src, dest, FALSE) ELSE Fail(t)
CopyAll(t, c, src, dest, names) ==
    IF names = {} THEN Done(t)
    ELSE LET n == CHOOSE m \in names : TRUE
             r == CopyTree(t, c, Append(src, n), Append(dest, n))
         IN  IF r.ok THEN CopyAll(r.tree, c, src, dest, names \ {n}) ELSE r

CpSync(t, c) ==
    LET up == IF Exists(t, Dirname(c.dest)) THEN Done(t)
              ELSE Mkdir(t, Dirname(c.dest), TRUE)
    IN  IF ~CheckPaths(t, c.src, c.dest) \/ ~CheckParents(t, c.src, c.dest) \/ ~up.ok
        THEN Fail(t) ELSE CopyTree(up.tree, c, c.src, c.dest)

(***************************************************************************)
(* Properties.                                                              *)
(***************************************************************************)
TreeTypeOK == /\ \A p \in Paths : tree[p].kind # "none" => KindAt(tree, Dirname(p)) = "dir"
              /\ cp.now \in {"running", "done", "failed"}
              /\ touched \subseteq Paths

(* Left alone, cp ends as cpSync does: the same tree, and an error exactly  *)
(* when cpSync throws.                                                      *)
CpIsCpSync ==
    touched = {} =>
        /\ cp.now = "done" => /\ CpSync(before, cp.call).ok
                              /\ tree = CpSync(before, cp.call).tree
        /\ cp.now = "failed" => ~CpSync(before, cp.call).ok

(* What cp copies from stays as it was, while nobody touches it and there   *)
(* was no link in the tree (a link put at dest between the check and the    *)
(* copy makes cp write through it, even if it is gone afterwards).  Without *)
(* force, neither is a file lost that was at dest when cp was called.       *)
NoLinks == \A p \in Paths : before[p].kind # "link"
CpKeeps ==
    /\ NoLinks => \A p \in Inside(cp.call.src) \ touched : tree[p] = before[p]
    /\ ~cp.call.force /\ NoLinks =>
         \A p \in Inside(cp.call.dest) \ touched :
            before[p].kind = "file" => tree[p] = before[p]

(* rename never replaces anything but a link that leads nowhere, rm never   *)
(* removes what is not inside the path it is given (it may be a link to     *)
(* it), what mkdir answers was missing and is a directory afterwards, and   *)
(* of a copy and its source, through whatever links, both read as the       *)
(* source did, unless they are the same file: that is empty afterwards.     *)
PathOperations ==
    \A p \in Paths :
        LET removed == Rm(tree, p, TRUE, FALSE)
            made    == Mkdir(tree, p, TRUE)
            first   == FirstMissing(tree, p)
        IN  /\ \A r \in Paths : removed.tree[r] # tree[r] => IsPrefix(Place(tree, p), r)
            /\ made.ok /\ first # NoPath =>
                  Lstat(tree, first) = "none" /\ Stat(made.tree, p) = "dir"
            /\ \A q \in Paths :
                  LET moved  == Rename(tree, p, q)
                      copied == CopyFile(tree, p, q, FALSE)
                      Reads(t, r) == t[Follow(t, r)].data
                  IN  /\ copied.ok =>
                           /\ Reads(copied.tree, p) = Reads(copied.tree, q)
                           /\ Reads(copied.tree, q) = IF Follow(tree, p) = Follow(tree, q)
                                                      THEN Empty ELSE Reads(tree, p)
                      /\ moved.ok => \A r \in Paths \ Inside(Place(tree, p)) :
                         tree[r].kind \notin {"none", "link"} => moved.tree[r] = tree[r]

TreeKept == CpIsCpSync /\ CpKeeps /\ (tree = before => PathOperations)
=============================================================================
