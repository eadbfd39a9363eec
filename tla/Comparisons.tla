---------------------------- MODULE Comparisons ----------------------------
(***************************************************************************)
(* internal/util/comparisons.js: isDeepStrictEqual and isDeepEqual, which    *)
(* assert uses, on objects that refer to each other, in cycles too.          *)
(*                                                                          *)
(* An object has a kind, a prototype, own properties under strings and under *)
(* symbols, and items: the elements of an array without holes, the members   *)
(* of a Set, the entries of a Map.  Dates, regular expressions, errors,      *)
(* buffers and boxed primitives are the kind "other", with their data.       *)
(* All properties are enumerable.                                           *)
(***************************************************************************)
EXTENDS Integers, Sequences, FiniteSets, TLC

CONSTANT Programs \* which objects are made, and what is put into them, how often

VARIABLES program, heap, edits
hvars == <<program, heap, edits>>

Objects == {"o1", "o2", "o3"}
IsObject(v) == v \in Objects
\* The primitives that == takes for one another, and typeof.
LooselySame == { {"1", "'1'"}, {"null", "undefined"} }
Numeric == {"1", "'1'"}
looselyEqual(v, w) == v = w \/ {v, w} \in LooselySame
AltValue(v) == IF v = "null" THEN "undefined" ELSE "null"

Has(pairs, k) == \E i \in DOMAIN pairs : pairs[i][1] = k
Get(pairs, k) == IF Has(pairs, k) THEN pairs[CHOOSE i \in DOMAIN pairs : pairs[i][1] = k][2]
                 ELSE "undefined"
Without(s, i) == SubSeq(s, 1, i - 1) \o SubSeq(s, i + 1, Len(s))

\* memos: where each side's object was met, 0 for nowhere; and how an answer
\* is made.  A comparison that goes too deep, or that calls a method of an
\* object without a prototype, throws.
NoMemos == [val1 |-> [o \in Objects |-> 0], val2 |-> [o \in Objects |-> 0], position |-> 0]
Answer(eq, m) == [eq |-> eq, m |-> m]
If(cond, m) == Answer(IF cond THEN "yes" ELSE "no", m)
Depth == 12

RECURSIVE innerDeepEqual(_, _, _, _, _), AllEqual(_, _, _, _), EqualElement(_, _, _, _, _, _),
          EachFound(_, _, _, _, _), MapLoose(_, _, _, _, _, _), MapFound(_, _, _, _, _, _)

\* Pairs of values, one after the other.
AllEqual(pairs, strict, m, d) ==
    IF pairs = <<>> THEN Answer("yes", m)
    ELSE LET r == innerDeepEqual(pairs[1][1], pairs[1][2], strict, m, d)
         IN  IF r.eq # "yes" THEN r ELSE AllEqual(Tail(pairs), strict, r.m, d)

\* setHasEqualElement and mapHasEqualEntry: the first of what is left of one
\* side that equals an item of the other; `left` is what remains.
EqualElement(left, i, item, strict, m, d) ==
    IF i > Len(left) THEN [Answer("no", m) EXCEPT !.eq = "no"] @@ [left |-> left]
    ELSE LET r == AllEqual(<< <<item[1], left[i][1]>>, <<item[2], left[i][2]>> >>, strict, m, d)
         IN  IF r.eq = "no" THEN EqualElement(left, i + 1, item, strict, r.m, d)
             ELSE r @@ [left |-> Without(left, i)]
EachFound(items, left, strict, m, d) ==
    IF items = <<>> THEN If(left = <<>>, m)
    ELSE LET r == EqualElement(left, 1, Head(items), strict, m, d)
         IN  IF r.eq # "yes" THEN Answer(r.eq, r.m)
             ELSE EachFound(Tail(items), r.left, strict, r.m, d)

setMightHaveLoosePrim(set1, set2, v) ==
    IF v \in {"null", "undefined"} THEN Has(set2, AltValue(v)) /\ ~Has(set1, AltValue(v))
    ELSE v \in Numeric
setEquiv(set1, set2, strict, m, d) ==
    LET open == SelectSeq(set1, LAMBDA x : IsObject(x[1]) \/ ~Has(set2, x[1]))
        lost == \E i \in DOMAIN open : /\ ~IsObject(open[i][1])
                                       /\ strict \/ ~setMightHaveLoosePrim(set1, set2, open[i][1])
    IN  IF lost THEN Answer("no", m)
        ELSE IF open = <<>> THEN Answer("yes", m)
        ELSE EachFound(SelectSeq(set2, LAMBDA x : IsObject(x[1]) \/ (~strict /\ ~Has(set1, x[1]))),
                       open, strict, m, d)

\* The entries of the first map that the second lacks, or has with another
\* value.  mapMightHaveLoosePrimitive compares twice: at first with `memo`,
\* which is undefined, and so without the memory of what is being compared.
Mutual(map1, map2, k, item, m, d) ==
    LET alt == AltValue(k)
        first == innerDeepEqual(item, Get(map2, alt), FALSE, NoMemos, d)
    IN  IF k \notin {"null", "undefined"} THEN If(k \in Numeric, m)
        ELSE IF ~Has(map2, alt) THEN Answer("no", m)
        ELSE IF first.eq # "yes" THEN Answer(first.eq, m)
        ELSE IF Has(map1, alt) THEN Answer("no", m)
        ELSE innerDeepEqual(item, Get(map2, alt), FALSE, m, d)
MapLoose(entries, map1, map2, strict, m, d) ==
    IF entries = <<>> THEN Answer("yes", m) @@ [open |-> <<>>]
    ELSE LET k    == entries[1][1]
             item == entries[1][2]
             same == innerDeepEqual(item, Get(map2, k), strict, m, d)
             r == IF IsObject(k) THEN Answer("yes", m)
                  ELSE IF Has(map2, k) /\ same.eq # "no" THEN same
                  ELSE IF strict THEN Answer("no", m)
                  ELSE Mutual(map1, map2, k, item, IF Has(map2, k) THEN same.m ELSE m, d)
             keep == IsObject(k) \/ ~(Has(map2, k) /\ same.eq = "yes")
             rest == MapLoose(Tail(entries), map1, map2, strict, r.m, d)
         IN  IF r.eq # "yes" THEN r @@ [open |-> <<>>]
             ELSE IF rest.eq # "yes" \/ ~keep THEN rest
             ELSE [rest EXCEPT !.open = <<entries[1]>> \o @]
\* The entries of the second map in turn.  One under an object needs an equal
\* among `left`; so does one under a primitive, in a loose comparison, when
\* the first map lacks it or has it with another value.
MapFound(entries, left, map1, strict, m, d) ==
    IF entries = <<>> THEN If(left = <<>>, m)
    ELSE LET k == entries[1][1]
             asked == ~IsObject(k) /\ ~strict /\ Has(map1, k)
             same == IF asked THEN innerDeepEqual(Get(map1, k), entries[1][2], FALSE, m, d)
                     ELSE Answer("no", m)
             r == IF same.eq # "no" \/ (~IsObject(k) /\ strict)
                  THEN (IF asked THEN same ELSE Answer("yes", m)) @@ [left |-> left]
                  ELSE EqualElement(left, 1, entries[1], strict, same.m, d)
         IN  IF r.eq # "yes" THEN Answer(r.eq, r.m)
             ELSE MapFound(Tail(entries), r.left, map1, strict, r.m, d)
mapEquiv(map1, map2, strict, m, d) ==
    LET r == MapLoose(map1, map1, map2, strict, m, d)
    IN  IF r.eq # "yes" THEN Answer(r.eq, r.m)
        ELSE IF r.open = <<>> THEN Answer("yes", r.m)
        ELSE MapFound(map2, r.open, map1, strict, r.m, d)

Zip(s, t) == [i \in 1..Len(s) |-> <<s[i][2], t[i][2]>>]
Under(keys, a, b) == [i \in 1..Len(keys) |-> <<Get(a, keys[i]), Get(b, keys[i])>>]
KeysOf(pairs) == [i \in 1..Len(pairs) |-> pairs[i][1]]
objEquiv(a, b, strict, m, d) ==
    LET x == heap[a]
        y == heap[b]
        r == CASE x.kind = "set" -> setEquiv(x.items, y.items, strict, m, d)
               [] x.kind = "map" -> mapEquiv(x.items, y.items, strict, m, d)
               [] x.kind = "array" -> AllEqual(Zip(x.items, y.items), strict, m, d)
               [] OTHER -> Answer("yes", m)
        symbols == IF strict /\ x.kind = "array" THEN Under(KeysOf(x.syms), x.syms, y.syms) ELSE <<>>
    IN  IF r.eq # "yes" THEN r
        ELSE AllEqual(Under(KeysOf(x.props), x.props, y.props) \o symbols, strict, r.m, d)

\* The keys of both, as far as they are looked at.  The symbols of what is
\* not an array become strings, under which there is nothing to compare.
\* Mutant: one of them may have more.
FirstHasKeys(x, y) == \A i \in DOMAIN x : Has(y, x[i][1])
SameKeys(x, y) == Len(x) = Len(y) /\ \A i \in DOMAIN x : Has(y, x[i][1])
Forgets(r, m, a, b) ==
    Answer(r.eq, [r.m EXCEPT !.val1[a] = 0, !.val2[b] = 0])
keyCheck(a, b, strict, m, d) ==
    LET x == heap[a]
        y == heap[b]
        symbols == strict /\ x.syms \o y.syms # <<>>
        asks == Len(x.props) = Len(y.props) /\ (x.props # <<>> \/ symbols)
        m2 == [val1 |-> [m.val1 EXCEPT ![a] = m.position + 1],
               val2 |-> [m.val2 EXCEPT ![b] = m.position + 1], position |-> m.position + 1]
    IN  IF asks /\ y.proto = "null" /\ x.kind # "array" THEN Answer("throws", m)
        ELSE IF ~SameKeys(x.props, y.props) \/ (strict /\ ~SameKeys(x.syms, y.syms))
        THEN Answer("no", m)
        ELSE IF x.props = <<>> /\ ~symbols /\ x.items = <<>> THEN Answer("yes", m)
        ELSE IF m.val1[a] # 0 /\ m.val2[b] # 0 THEN If(m.val1[a] = m.val2[b], m)
        ELSE Forgets(objEquiv(a, b, strict, m2, d + 1), m, a, b)

\* Regular expressions, typed arrays, array buffers, boxed primitives.
SameData(x, y) == x.data = y.data

innerDeepEqual(v, w, strict, m, d) ==
    IF v = w THEN Answer("yes", m)
    ELSE IF ~IsObject(v) \/ ~IsObject(w) THEN If(~strict /\ looselyEqual(v, w), m)
    ELSE IF d > Depth THEN Answer("throws", m)
    ELSE LET x == heap[v]
             y == heap[w]
         IN  IF \/ strict /\ x.proto # y.proto
                \/ x.kind # y.kind \/ ~SameData(x, y) \/ Len(x.items) # Len(y.items)
             THEN Answer("no", m)
             ELSE keyCheck(v, w, strict, m, d)

isDeepStrictEqual(v, w) == innerDeepEqual(v, w, TRUE, NoMemos, 0).eq
isDeepEqual(v, w) == innerDeepEqual(v, w, FALSE, NoMemos, 0).eq

-----------------------------------------------------------------------------
(***************************************************************************)
(* A program builds the objects.                                            *)
(***************************************************************************)
Fresh(kind, proto, data) == [kind |-> kind, proto |-> proto, data |-> data,
                             props |-> <<>>, syms |-> <<>>, items |-> <<>>]
ComparisonsInit ==
    /\ program \in Programs
    /\ \E p \in program.protos, n \in program.data :
          heap = [o \in Objects |-> Fresh(IF o = "o3" THEN program.other ELSE program.kind,
                                          IF o = "o2" THEN p ELSE "Object",
                                          IF o = "o2" THEN n ELSE 0)]
    /\ edits = 0
Edit == edits < program.edits /\ edits' = edits + 1 /\ UNCHANGED program
SetProperty(o) == /\ Edit /\ ~Has(heap[o].props, "x")
                  /\ \E v \in program.props :
                        heap' = [heap EXCEPT ![o].props = Append(@, <<"x", v>>)]
SetSymbol(o) == /\ Edit /\ ~Has(heap[o].syms, "s")
                /\ \E v \in program.syms :
                      heap' = [heap EXCEPT ![o].syms = Append(@, <<"s", v>>)]
AddItem(o) ==
    /\ Edit /\ Len(heap[o].items) < 2 /\ heap[o].kind \in {"array", "set", "map"}
    /\ \E k \in program.keys, v \in program.values :
          LET key   == IF heap[o].kind = "array" THEN "" ELSE k
              value == IF heap[o].kind = "set" THEN "" ELSE v
          IN  /\ key # "" => ~Has(heap[o].items, key)
              /\ heap' = [heap EXCEPT ![o].items = Append(@, <<key, value>>)]
ComparisonsNext == \E o \in Objects : SetProperty(o) \/ SetSymbol(o) \/ AddItem(o)
ComparisonsSpec == ComparisonsInit /\ [][ComparisonsNext]_hvars

(***************************************************************************)
(* Properties.                                                              *)
(***************************************************************************)
\* Objects that no program can tell apart, but for their identity, the order
\* of the items of a Set or Map and, in arrays excepted, the values under
\* symbols: the greatest relation of that kind.
Names(pairs) == { pairs[i][1] : i \in DOMAIN pairs }
Pair(R, v, w) == v = w \/ <<v, w>> \in R
Alike(R, a, b) ==
    LET x == heap[a]
        y == heap[b]
        Entry(p, q) == Pair(R, p[1], q[1]) /\ Pair(R, p[2], q[2])
    IN  /\ <<x.kind, x.proto, x.data>> = <<y.kind, y.proto, y.data>>
        /\ Names(x.props) = Names(y.props) /\ Names(x.syms) = Names(y.syms)
        /\ \A i \in DOMAIN x.props : Pair(R, x.props[i][2], Get(y.props, x.props[i][1]))
        /\ x.kind = "array" => \A i \in DOMAIN x.syms : Pair(R, x.syms[i][2], Get(y.syms, x.syms[i][1]))
        /\ Len(x.items) = Len(y.items)
        /\ IF x.kind = "array" THEN \A i \in DOMAIN x.items : Entry(x.items[i], y.items[i])
           ELSE \E f \in [DOMAIN x.items -> DOMAIN x.items] :
                   /\ \A i, j \in DOMAIN f : f[i] = f[j] => i = j
                   /\ \A i \in DOMAIN f : Entry(x.items[i], y.items[f[i]])
RECURSIVE Narrow(_)
Narrow(R) == LET S == { p \in R : Alike(R, p[1], p[2]) } IN IF S = R THEN R ELSE Narrow(S)
Indistinct == Narrow(Objects \X Objects)

RefersTo(a) == { v \in Objects : \/ \E i \in DOMAIN heap[a].props : heap[a].props[i][2] = v
                                 \/ \E i \in DOMAIN heap[a].items : v \in {heap[a].items[i][1], heap[a].items[i][2]} }
Cyclic == \E a, b, c \in Objects : {a, b, c} \subseteq RefersTo(a) \cup RefersTo(b) \cup RefersTo(c)
                                   /\ b \in RefersTo(a) /\ a \in RefersTo(c) /\ c \in RefersTo(b) \cup {b}

\* isDeepStrictEqual: what it calls equal cannot be told apart but by a value
\* under a symbol; and without cycles it finds all of it, or throws because of
\* an object without a prototype.
StrictIsRight ==
    \A a, b \in Objects :
       LET eq == isDeepStrictEqual(a, b)
       IN  /\ eq = "yes" => <<a, b>> \in Indistinct
           /\ ~Cyclic /\ <<a, b>> \in Indistinct => eq # "no"
           /\ eq = "throws" => \E o \in Objects : heap[o].proto = "null"

\* Neither depends on the order of its arguments, when nothing throws.
Symmetric ==
    \A a, b \in Objects :
       /\ isDeepStrictEqual(a, b) = isDeepStrictEqual(b, a)
       /\ "throws" \in {isDeepEqual(a, b), isDeepEqual(b, a)} \/ isDeepEqual(a, b) = isDeepEqual(b, a)

\* What is strictly equal is equal.
StrictIsLoose == \A a, b \in Objects : isDeepStrictEqual(a, b) = "yes" => isDeepEqual(a, b) # "no"

\* A comparison ends, unless maps of a null or undefined key are compared
\* loosely.
LooseEnds ==
    \A a, b \in Objects :
       isDeepEqual(a, b) = "throws" =>
          \E o \in Objects : \/ heap[o].proto = "null"
                             \/ /\ heap[o].kind = "map"
                                /\ Has(heap[o].items, "null") \/ Has(heap[o].items, "undefined")
ComparisonsKept == StrictIsRight /\ Symmetric /\ StrictIsLoose /\ LooseEnds
=============================================================================
