------------------------------ MODULE Punycode ------------------------------
(***************************************************************************)
(* punycode.js: labels of domain names in ASCII.  A label is a sequence of   *)
(* code points, and so is its encoding, of letters, digits and "-".          *)
(***************************************************************************)
EXTENDS Integers, Sequences, SequencesExt, FiniteSetsExt, Functions

CONSTANTS Characters, \* code points of the labels
          Digits,     \* characters of what is decoded
          MaxLength

VARIABLES label, digits
pvars == <<label, digits>>

maxInt == 2147483647
base == 36
tMin == 1
tMax == 26
Delimiter == 45
Max16 == 1114111 \* the last code point: fromCodePoint throws beyond it
Error == <<-1>>

adapt(delta, numPoints, firstTime) ==
    LET begin == IF firstTime THEN delta \div 700 ELSE delta \div 2
        Loop[d \in Nat, k \in Nat] ==
          IF d > ((base - tMin) * tMax) \div 2 THEN Loop[d \div (base - tMin), k + base]
          ELSE k + (base * d) \div (d + 38)
    IN  Loop[begin + begin \div numPoints, 0]
Threshold(k, bias) == IF k <= bias THEN tMin ELSE IF k >= bias + tMax THEN tMax ELSE k - bias

digitToBasic(digit) == IF digit < 26 THEN digit + 97 ELSE digit + 22
basicToDigit(c) == CASE c - 48 < 10 -> c - 22
                     [] c - 48 >= 10 /\ c - 65 < 26 -> c - 65
                     [] c - 65 >= 26 /\ c - 97 < 26 -> c - 97
                     [] OTHER -> base

(***************************************************************************)
(* encode: the basic characters, and then the others from the smallest, each *)
(* as how far the decoder has to count until it inserts it.                  *)
(***************************************************************************)
Varint(delta, bias) ==
    LET Loop[q \in Nat, k \in Nat] ==
          LET t == Threshold(k, bias)
          IN  IF q < t THEN <<digitToBasic(q)>>
              ELSE <<digitToBasic(t + ((q - t) % (base - t)))>> \o Loop[(q - t) \div (base - t), k + base]
    IN  Loop[delta, base]

\* One character of the input, while n is the code point to be handled.
\* Mutant: the bias is not adapted when the delta has been written.
EncodesUnadapted(st, c, basics) ==
    IF c < st.n THEN [st EXCEPT !.delta = @ + 1]
    ELSE IF c > st.n THEN st
    ELSE [st EXCEPT !.out = @ \o Varint(st.delta, st.bias), !.delta = 0, !.done = @ + 1]
Encodes(st, c, basics) ==
    IF c < st.n THEN [st EXCEPT !.delta = @ + 1]
    ELSE IF c > st.n THEN st
    ELSE [st EXCEPT !.out = @ \o Varint(st.delta, st.bias), !.delta = 0, !.done = @ + 1,
                    !.bias = adapt(st.delta, st.done + 1, st.done = basics)]
encode(input) ==
    LET basic == SelectSeq(input, LAMBDA c : c < 128)
        Round(st) ==
          LET m == Min({ input[i] : i \in { j \in DOMAIN input : input[j] >= st.n } })
              at == [st EXCEPT !.delta = @ + (m - st.n) * (st.done + 1), !.n = m]
              r == FoldLeft(LAMBDA s, c : Encodes(s, c, Len(basic)), at, input)
          IN  [r EXCEPT !.delta = @ + 1, !.n = @ + 1]
    IN  FoldLeft(LAMBDA st, i : IF st.done < Len(input) THEN Round(st) ELSE st,
                 [out |-> basic \o (IF basic = <<>> THEN <<>> ELSE <<Delimiter>>),
                  n |-> 128, delta |-> 0, bias |-> 72, done |-> Len(basic)],
                 input).out

(***************************************************************************)
(* decode: counts through the code points and the places of the output.     *)
(***************************************************************************)
\* One number of the input: where it ends, and i; or a place behind the end.
Number(input, at, i, bias) ==
    LET Loop[p \in Nat, n \in Int, w \in Nat, k \in Nat] ==
          IF p > Len(input) THEN [next |-> 0, i |-> 0]
          ELSE LET digit == basicToDigit(input[p])
                   t == Threshold(k, bias)
               IN  IF digit >= base \/ digit > (maxInt - n) \div w THEN [next |-> 0, i |-> 0]
                   ELSE IF digit < t THEN [next |-> p + 1, i |-> n + digit * w]
                   ELSE IF w > maxInt \div (base - t) THEN [next |-> 0, i |-> 0]
                   ELSE Loop[p + 1, n + digit * w, w * (base - t), k + base]
    IN  Loop[at, i, 1, base]
Inserts(input, st) ==
    LET r == Number(input, st.p, st.i, st.bias)
        out == Len(st.out) + 1
        n == st.n + r.i \div out
        at == r.i % out
    IN  IF r.next = 0 \/ r.i \div out > maxInt - st.n \/ n > Max16
        THEN [st EXCEPT !.out = Error, !.p = Len(input) + 1]
        ELSE [p |-> r.next, n |-> n, i |-> at + 1, out |-> InsertAt(st.out, at + 1, n),
              bias |-> adapt(r.i - st.i, out, st.i = 0)]
decode(input) ==
    LET places == { j \in DOMAIN input : input[j] = Delimiter }
        basic == IF places = {} THEN 0 ELSE Max(places) - 1
    IN  FoldLeft(LAMBDA st, k : IF st.p > Len(input) THEN st ELSE Inserts(input, st),
                 [p |-> IF basic > 0 THEN basic + 2 ELSE 1, n |-> 128, i |-> 0, bias |-> 72,
                  out |-> SubSeq(input, 1, basic)],
                 [k \in 1..Len(input) |-> k]).out

\* Of one label; mapDomain does so with each.
NonASCII(s) == \E i \in DOMAIN s : s[i] > 126
Prefix == <<120, 110, 45, 45>>
toASCII(s) == IF NonASCII(s) THEN Prefix \o encode(s) ELSE s
toUnicode(s) == IF IsPrefix(Prefix, s) THEN decode(SubSeq(s, 5, Len(s))) ELSE s

-----------------------------------------------------------------------------

PunycodeInit == label = <<>> /\ digits = <<>>
Longer(s, S) == Len(s) < MaxLength /\ \E c \in S : s' = Append(s, c)
PunycodeNext == \/ digits = <<>> /\ Longer(label, Characters) /\ UNCHANGED digits
                \/ label = <<>> /\ Longer(digits, Digits) /\ UNCHANGED label
PunycodeSpec == PunycodeInit /\ [][PunycodeNext]_pvars

(***************************************************************************)
(* Properties.                                                              *)
(***************************************************************************)
\* toASCII, encode: what is encoded is ASCII and decodes to itself.
LabelsComeBack ==
    /\ \A i \in DOMAIN encode(label) : encode(label)[i] < 128
    /\ NonASCII(label) => toUnicode(toASCII(label)) = label
    /\ decode(encode(label)) = label

\* decode: what can be decoded is the encoding of the label, unless its only
\* delimiter comes first, where it is read as a digit.
OneEncoding ==
    \/ decode(digits) = Error \/ encode(decode(digits)) = digits
    \/ digits[1] = Delimiter /\ Delimiter \notin Range(Tail(digits))

PunycodeKept == LabelsComeBack /\ OneEncoding
=============================================================================
