-------------------------------- MODULE Path --------------------------------
(***************************************************************************)
(* The path algorithms of src/modules_js/path.js.  A path is a sequence of  *)
(* characters, of which "/" and "." matter.  The code walks them with       *)
(* indices and counters; here a path is split into its segments where the   *)
(* code looks for them, and walked by characters where it does.             *)
(***************************************************************************)
EXTENDS Integers, SequencesExt, FiniteSetsExt

CONSTANTS Chars,    \* characters of paths
          Cwd,      \* process.cwd(), which is "./" in process.js
          MaxLength \* bound: length of a path

VARIABLES from, to \* two paths
pvars == <<from, to>>

IsAbsolute(p) == p # <<>> /\ p[1] = "/"
Up == <<".", ".">>
Segments(p) ==
    FoldLeft(LAMBDA segs, c : IF c = "/" THEN Append(segs, <<>>)
                              ELSE Front(segs) \o <<Append(Last(segs), c)>>,
             << <<>> >>, p)
Joined(paths) ==
    FoldLeft(LAMBDA p, q : IF p = <<>> THEN q ELSE p \o <<"/">> \o q, <<>>, paths)

(* normalizeString: no empty segment, no ".", and ".." undoes a segment.    *)
normalizeString(p, allowAboveRoot) ==
    LET step(res, seg) ==
            CASE seg \in {<<>>, <<".">>} -> res
              [] seg = Up /\ res # <<>> /\ Last(res) # Up -> Front(res)
              [] seg = Up /\ (res = <<>> \/ Last(res) = Up) ->
                     IF allowAboveRoot THEN Append(res, Up) ELSE res
              [] OTHER -> Append(res, seg)
    IN  Joined(FoldLeft(step, <<>>, Segments(p)))

(* resolve: from the last absolute path on, or from the working directory,  *)
(* which is not absolute, so that the result of the latter is not either.   *)
resolve(paths) ==
    LET all   == <<Cwd>> \o paths
        start == Max({1} \cup { i \in DOMAIN all : IsAbsolute(all[i]) })
        root  == IsAbsolute(all[start])
        body  == normalizeString(Joined(SubSeq(all, start, Len(all))), ~root)
    IN  CASE root -> <<"/">> \o body
          [] ~root /\ body = <<>> -> <<".">>
          [] OTHER -> body

normalize(p) ==
    LET body == normalizeString(p, ~IsAbsolute(p))
        path == IF body = <<>> /\ ~IsAbsolute(p) THEN <<".">> ELSE body
    IN  IF p = <<>> THEN <<".">>
        ELSE (IF IsAbsolute(p) THEN <<"/">> ELSE <<>>) \o path
             \o (IF path # <<>> /\ Last(p) = "/" THEN <<"/">> ELSE <<>>)

join(paths) == LET joined == Joined(paths)
               IN  IF joined = <<>> THEN <<".">> ELSE normalize(joined)

(***************************************************************************)
(* relative compares the two resolved paths character by character, without *)
(* what it takes for the root, the first character and the separators that  *)
(* follow, and remembers the last separator that both have.  Positions      *)
(* count from 0, as in the code.                                            *)
(***************************************************************************)
AfterRoot(p) == Min({ i \in 1..Len(p) : i = Len(p) \/ p[i + 1] # "/" })
Common(f, t) == \* the first position where they differ or one ends
    Min({ i \in 0..Min({Len(f), Len(t)}) :
              i \in {Len(f), Len(t)} \/ f[i + 1] # t[i + 1] })
\* Mutant: the paths part where their characters do, between two or not.
LastSep(f, t) == Common(f, t)
LastCommonSep(f, t) ==
    LET i == Common(f, t)
    IN  CASE i = Len(t) /\ Len(f) > i /\ f[i + 1] = "/" -> i
          [] i = Len(t) /\ Len(f) > i /\ i = 0 -> 0
          [] OTHER -> Max({-1} \cup { k \in 0..i - 1 : f[k + 1] = "/" })
RelativeOf(A, B) == \* A, B: the two paths resolved
    LET f == SubSeq(A, AfterRoot(A) + 1, Len(A))
        t == SubSeq(B, AfterRoot(B) + 1, Len(B))
        i == Common(f, t)
        sep == LastCommonSep(f, t)
        \* one ".." for each segment of f after the separator
        ups == { k \in sep + 1 .. Len(f) : k = Len(f) \/ f[k + 1] = "/" }
        out == Joined([k \in 1..Cardinality(ups) |-> Up])
    IN  CASE A = B -> <<>>
          [] A # B /\ i = Len(f) /\ Len(t) > i /\ t[i + 1] = "/" -> SubSeq(t, i + 2, Len(t))
          [] A # B /\ i = Len(f) /\ Len(t) > i /\ i = 0 -> t
          [] OTHER -> out \o SubSeq(B, AfterRoot(B) + sep + 1, Len(B))
relative(a, b) == RelativeOf(resolve(<<a>>), resolve(<<b>>))

(***************************************************************************)
(* The last segment: End is where it ends, the separators after it left     *)
(* out, and Start where it begins, or what bounds it.                       *)
(***************************************************************************)
End(p) == Max({0} \cup { i \in DOMAIN p : p[i] # "/" })
Start(p) == Max({0} \cup { i \in 1..End(p) : p[i] = "/" })

dirname(p) ==
    LET root == IF IsAbsolute(p) THEN <<"/">> ELSE <<".">>
    IN  CASE p = <<>> \/ Start(p) <= 1 -> root
          [] Start(p) = 2 /\ IsAbsolute(p) -> <<"/", "/">>
          [] OTHER -> SubSeq(p, 1, Start(p) - 1)

(* basename without an extension to take off, and with one.  One that       *)
(* reaches past the segment leaves the separators after it in place.        *)
basename(p) == SubSeq(p, Start(p) + 1, End(p))
basenameExt(p, ext) ==
    LET base  == basename(p)
        full  == End(p) - Start(p)
        past  == Len(ext) > full /\ base = SubSeq(ext, Len(ext) - full + 1, Len(ext))
    IN  CASE ext = <<>> \/ Len(ext) > Len(p) -> base
          [] ext = p -> <<>>
          [] past -> SubSeq(p, Start(p) + 1, Len(p))
          [] IsSuffix(ext, base) /\ ext # base -> SubSeq(base, 1, full - Len(ext))
          [] OTHER -> base

(* What follows the last dot of a name, which is not one when the dot comes *)
(* first or the name is "..".                                               *)
Extension(base) ==
    LET dot == Max({0} \cup { i \in DOMAIN base : base[i] = "." })
    IN  IF dot <= 1 \/ base = Up THEN <<>> ELSE SubSeq(base, dot, Len(base))
extname(p) == Extension(basename(p))

(* parse; under the root, it takes ".." for a name with an extension.       *)
parse(p) ==
    LET base == basename(p)
        ext  == IF base = Up /\ IsAbsolute(p) /\ Start(p) = 1 THEN <<".">>
                ELSE Extension(base)
        root == IF IsAbsolute(p) THEN <<"/">> ELSE <<>>
    IN  [root |-> root, base |-> base, ext |-> ext,
         name |-> SubSeq(base, 1, Len(base) - Len(ext)),
         dir  |-> IF Start(p) > 1 \/ (Start(p) = 1 /\ ~IsAbsolute(p))
                  THEN SubSeq(p, 1, Start(p) - 1) ELSE root]
format(o) == \* _format
    LET dir  == IF o.dir # <<>> THEN o.dir ELSE o.root
        base == IF o.base # <<>> THEN o.base ELSE o.name \o o.ext
    IN  CASE dir = <<>> -> base
          [] dir = o.root /\ dir # <<>> -> dir \o base
          [] OTHER -> dir \o <<"/">> \o base

(***************************************************************************)
(* The paths are typed, one character at a time.                            *)
(***************************************************************************)
PathInit == from = <<>> /\ to = <<>>
PathNext ==
    \E c \in Chars : \/ Len(from) < MaxLength /\ from' = Append(from, c) /\ UNCHANGED to
                     \/ Len(to) < MaxLength /\ to' = Append(to, c) /\ UNCHANGED from

(***************************************************************************)
(* Properties.                                                              *)
(***************************************************************************)
(* relative(from, to) leads from one path to the other, prefixes of each    *)
(* other included, when both are absolute (path.js 204-309); of two paths   *)
(* from the working directory it does not, as resolve leaves them relative  *)
(* and relative drops the first character of each.                          *)
RelativeLeads ==
    IsAbsolute(from) /\ IsAbsolute(to)
        => resolve(<<from, relative(from, to)>>) = resolve(<<to>>)

(* The functions that rewrite a path or take it apart name the same file    *)
(* afterwards, and an extension taken off a name can be put back.           *)
Same(p) == { normalize(p), join(<<dirname(p), basename(p)>>), format(parse(p)) }
PartsFit ==
    /\ LET file == resolve(<<from>>)
       IN  \A p \in Same(from) : resolve(<<p>>) = file
    /\ LET path == normalize(from) IN normalize(path) = path
    /\ LET ext == extname(from) IN basenameExt(from, ext) \o ext = basename(from)

PathsKept == RelativeLeads /\ PartsFit
=============================================================================
