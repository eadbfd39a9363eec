----------------------------- MODULE WhatwgURL -----------------------------
(***************************************************************************)
(* URL and URLSearchParams (src/modules_js/whatwg_url.js): the machine that *)
(* parses a URL or a part of it, hosts, serialization, and the object whose *)
(* setters run the machine from a state in the middle (stateOverride).      *)
(*                                                                          *)
(* A string is a sequence of tokens: a character, a word of letters, or     *)
(* "%c" for the percent-encoded c.  An optional value is a sequence of at   *)
(* most one.  Left out: upper case, characters that are trimmed (blanks,    *)
(* tabs, newlines), "|" in drive letters and parse errors that stop nothing.*)
(***************************************************************************)
EXTENDS Integers, SequencesExt, FiniteSetsExt

CONSTANTS Inputs,  \* what new URL is given
          Relative,\* references resolved against a URL
          Parts,   \* what setters are given
          Names,   \* names and values of search parameters
          MaxSets  \* bound: setters called

VARIABLES url,  \* URL._url
          list, \* URL._query._list
          sets  \* setters called so far
uvars == <<url, list, sets>>

Letters == {"a", "b", "c", "d", "e", "f", "x"}
Words   == Letters \cup {"http", "ws", "file", "localhost", "xn"}
Digit   == <<"0", "1", "2", "3", "4", "5", "6", "7", "8", "9", "a", "b", "c", "d", "e", "f">>
Digits  == Range(SubSeq(Digit, 1, 10))
Wide    == "W" \* a character of two code units
Escapable == {"/", ":", "@", "?", "#", "[", "]", "\\", "=", "&", "+", ".", Wide}
Escaped(c) == "%" \o c
Decoded(s) == [i \in 1..Len(s) |-> IF \E c \in Escapable : s[i] = Escaped(c)
                                   THEN CHOOSE c \in Escapable : s[i] = Escaped(c) ELSE s[i]]
Encode(s, set) == [i \in 1..Len(s) |-> IF s[i] \in set THEN Escaped(s[i]) ELSE s[i]]
C0Control == {Wide}
QuerySet  == C0Control \cup {"#"}
PathSet   == QuerySet \cup {"?"}
UserSet   == PathSet \cup {"/", ":", "=", "@", "[", "\\", "]"}
FormSet   == UserSet \cup {"&", "+"}

Only(S) == CHOOSE x \in S : TRUE
Split(s, sep) == FoldLeft(LAMBDA parts, c : IF c = sep THEN Append(parts, <<>>)
                                ELSE Front(parts) \o <<Append(Last(parts), c)>>, << <<>> >>, s)
Glue(parts, sep) == FoldLeft(LAMBDA s, p : IF s = << >> THEN p ELSE s \o <<sep>> \o p, <<>>, parts)
Value(d) == IF d \in Range(Digit) THEN SelectInSeq(Digit, LAMBDA x : x = d) - 1 ELSE 99
Number(s, base) == FoldLeft(LAMBDA n, d : n * base + Value(d), 0, s)
RECURSIVE Numeral(_, _)
Numeral(n, base) == IF n < base THEN <<Digit[n + 1]>>
                    ELSE Numeral(n \div base, base) \o <<Digit[(n % base) + 1]>>

(***************************************************************************)
(* Hosts: [kind, val], where val is a string, four bytes or eight pieces.   *)
(***************************************************************************)
NoHost == [kind |-> "null", val |-> <<>>]
Name(s) == [kind |-> "name", val |-> s]
Failure == [kind |-> "failure", val |-> <<>>]

parseIPv4Number(s) == \* or -1
    LET hex == Len(s) >= 2 /\ s[1] = "0" /\ s[2] = "x"
        oct == Len(s) >= 2 /\ s[1] = "0" /\ s[2] # "x"
        base == CASE hex -> 16 [] oct -> 8 [] OTHER -> 10
        rest == CASE hex -> SubSeq(s, 3, Len(s)) [] oct -> Tail(s) [] OTHER -> s
    IN  IF s = <<>> \/ \E i \in 1..Len(rest) : Value(rest[i]) >= base THEN -1
        ELSE Number(rest, base)
DropLast(parts) == IF Last(parts) = <<>> /\ Len(parts) > 1 THEN Front(parts) ELSE parts
endsInANumber(s) ==
    LET last == Last(DropLast(Split(s, ".")))
    IN  /\ s # <<>>
        /\ parseIPv4Number(last) # -1 \/ (last # <<>> /\ Range(last) \subseteq Digits)
parseIPv4(s) ==
    LET parts == DropLast(Split(s, "."))
        n     == Len(parts)
        nums  == [i \in 1..n |-> parseIPv4Number(parts[i])]
        \* the last number fills the bytes that are left
        byte(i) == IF i < n THEN nums[i] ELSE (nums[n] \div 256 ^ (4 - i)) % 256
    IN  IF \/ n > 4 \/ -1 \in Range(nums)
           \/ \E i \in 1..n - 1 : nums[i] > 255 \/ nums[n] >= 256 ^ (5 - n)
        THEN Failure
        ELSE [kind |-> "v4", val |-> [i \in 1..4 |-> byte(i)]]

(* parseIPv6: pieces one by one; the four numbers of an IPv4 address fill   *)
(* the last two; "::" stands for as many zeros as are missing, at least one *)
(* (it counts as a piece, pieceIndex).                                      *)
Tail4(s) == \* those two pieces, or <<>>
    LET parts == Split(s, ".")
        good(q) == /\ q # <<>> /\ Range(q) \subseteq Digits /\ Number(q, 10) <= 255
                   /\ Head(q) = "0" => Len(q) = 1
    IN  IF Len(parts) = 4 /\ \A i \in 1..4 : good(parts[i])
        THEN << Number(parts[1], 10) * 256 + Number(parts[2], 10),
                Number(parts[3], 10) * 256 + Number(parts[4], 10) >>
        ELSE <<>>
RECURSIVE Pieces(_, _, _)
Pieces(s, done, compress) == \* the rest of the text, and -1 for no "::"
    LET isHex(i) == i <= Len(s) /\ Value(s[i]) < 16
        len  == Max({ n \in 0..4 : \A i \in 1..n : isHex(i) })
        next == IF Len(s) > len THEN s[len + 1] ELSE "end"
        rest == SubSeq(s, len + 2, Len(s))
        more == Append(done, Number(SubSeq(s, 1, len), 16))
        placed == Len(done) + (IF compress = -1 THEN 0 ELSE 1)
        full == compress = -1 /\ Len(done) # 8
        zeros == [k \in 1..8 - Len(done) |-> 0]
    IN  CASE s = <<>> -> IF full THEN Failure
                         ELSE [kind |-> "v6", val |->
                                 IF compress = -1 THEN done
                                 ELSE SubSeq(done, 1, compress) \o zeros
                                      \o SubSeq(done, compress + 1, Len(done))]
          [] s # <<>> /\ placed = 8 -> Failure
          [] s # <<>> /\ placed < 8 /\ s[1] = ":" ->
                 IF compress # -1 THEN Failure ELSE Pieces(Tail(s), done, Len(done))
          [] OTHER -> CASE next = "." -> IF len = 0 \/ placed > 6 \/ Tail4(s) = <<>> THEN Failure
                                         ELSE Pieces(<<>>, done \o Tail4(s), compress)
                        [] next = ":" -> IF rest = <<>> THEN Failure ELSE Pieces(rest, more, compress)
                        [] next = "end" -> Pieces(<<>>, more, compress)
                        [] OTHER -> Failure
parseIPv6(s) == IF s # <<>> /\ s[1] = ":"
                THEN IF Len(s) > 1 /\ s[2] = ":" THEN Pieces(SubSeq(s, 3, Len(s)), <<>>, 0) ELSE Failure
                ELSE Pieces(s, <<>>, -1)

serializeIPv6(a) == \* the first of the longest runs of zeros is left out
    LET runs == { r \in (1..8) \X (1..8) : r[1] < r[2] /\ \A i \in r[1]..r[2] : a[i] = 0 }
        longest == { r \in runs : \A q \in runs : q[2] - q[1] <= r[2] - r[1] }
        first == CHOOSE r \in longest : \A q \in longest : r[1] <= q[1]
        text(i, j) == Glue([k \in 1..j - i + 1 |-> Numeral(a[i + k - 1], 16)], ":")
    IN  IF runs = {} THEN text(1, 8)
        ELSE text(1, first[1] - 1) \o <<":", ":">> \o text(first[2] + 1, 8)

serializeHost(h) ==
    CASE h.kind = "v4" -> Glue([i \in 1..4 |-> Numeral(h.val[i], 10)], ".")
      [] h.kind = "v6" -> <<"[">> \o serializeIPv6(h.val) \o <<"]">>
      [] OTHER -> h.val

Forbidden == {"#", "/", ":", "?", "@", "[", "\\", "]"}
toASCII(s) == [i \in 1..Len(s) |-> IF s[i] = Wide THEN "xn" ELSE s[i]] \* of punycode.js
parseHost(s, notSpecial) ==
    LET domain == toASCII(Decoded(s))
    IN  CASE s # <<>> /\ s[1] = "[" ->
                 IF Last(s) = "]" THEN parseIPv6(SubSeq(s, 2, Len(s) - 1)) ELSE Failure
          [] notSpecial /\ (s = <<>> \/ s[1] # "[") ->
                 IF Range(s) \cap Forbidden # {} THEN Failure ELSE Name(Encode(s, C0Control))
          [] OTHER ->
                 IF domain = <<>> \/ Range(domain) \cap Forbidden # {} THEN Failure
                 ELSE IF endsInANumber(domain) THEN parseIPv4(domain) ELSE Name(domain)

(***************************************************************************)
(* URLs and the machine.                                                    *)
(***************************************************************************)
Special == { <<"http">>, <<"ws">>, <<"file">> }
isSpecial(u) == u.scheme \in Special
DefaultPort(scheme) == IF scheme \in { <<"http">>, <<"ws">> } THEN <<80>> ELSE <<>>
Empty == [scheme |-> <<>>, username |-> <<>>, password |-> <<>>, host |-> NoHost, port |-> <<>>,
          opaque |-> FALSE, path |-> <<>>, query |-> <<>>, fragment |-> <<>>]
includesCredentials(u) == u.username # <<>> \/ u.password # <<>>
cannotHaveAUsernamePasswordPort(u) == u.host.val = <<>> \/ u.scheme = <<"file">>
DriveLetter(s) == Len(s) = 2 /\ s[1] \in Letters /\ s[2] = ":"
SingleDot(s) == s \in { <<".">>, <<"%.">> }
DoubleDot(s) == Len(s) = 2 /\ Range(s) \subseteq {".", "%."}
shortenPath(u) == IF u.path = <<>> \/ (u.scheme = <<"file">> /\ Len(u.path) = 1 /\ DriveLetter(u.path[1]))
                  THEN u ELSE [u EXCEPT !.path = Front(@)]

(* The machine: the state it is in, how much of the input it has read, and  *)
(* `now`, "run" until it stops or fails.                                    *)
Machine(input, u, base, state) ==
    [input |-> input, p |-> 0, url |-> u, base |-> base, override |-> state # "",
     only |-> state = "hostname", buf |-> <<>>, at |-> FALSE, arr |-> FALSE, pw |-> FALSE,
     state |-> CASE state = "" -> "scheme start" [] state = "hostname" -> "host" [] OTHER -> state,
     now |-> "run"]
At(m, k) == IF m.p + k < Len(m.input) THEN m.input[m.p + k + 1] ELSE "end"
Go(m, state)   == [m EXCEPT !.state = state, !.p = @ + 1]
Stay(m, state) == [m EXCEPT !.state = state] \* --pointer
Stop(m) == [m EXCEPT !.now = "stop"]
Fail(m) == [m EXCEPT !.now = "fail"]
Add(m, s) == Go([m EXCEPT !.buf = @ \o s], m.state)
Slash(m) == At(m, 0) = "/" \/ (isSpecial(m.url) /\ At(m, 0) = "\\")
Ends(m) == At(m, 0) \in {"end", "?", "#"} \/ Slash(m)

SchemeStart(m) ==
    CASE At(m, 0) \in Words -> Add([m EXCEPT !.state = "scheme"], <<At(m, 0)>>)
      [] At(m, 0) \notin Words /\ ~m.override -> Stay(m, "no scheme")
      [] OTHER -> Fail(m)

Scheme(m) ==
    LET c == At(m, 0)
        u == [m.url EXCEPT !.scheme = m.buf]
        n == [m EXCEPT !.url = u, !.buf = <<>>]
        special == isSpecial(u)
        refused == \/ isSpecial(m.url) # special
                   \/ m.buf = <<"file">> /\ (includesCredentials(m.url) \/ m.url.port # <<>>)
                   \/ m.url.scheme = <<"file">> /\ m.url.host.val = <<>>
        same == m.base # <<>> /\ m.base[1].scheme = u.scheme
    IN  CASE c \in Words \cup Digits \cup {"+", "."} -> Add(m, <<c>>)
          [] c = ":" /\ m.override ->
                 Stop(IF refused THEN m
                      ELSE [n EXCEPT !.url.port = IF @ = DefaultPort(u.scheme) THEN <<>> ELSE @])
          [] c = ":" /\ ~m.override ->
                 CASE u.scheme = <<"file">> -> Go(n, "file")
                   [] special /\ u.scheme # <<"file">> ->
                          Go(n, IF same THEN "special relative or authority" ELSE "special authority slashes")
                   [] ~special /\ At(m, 1) = "/" -> [Go(n, "path or authority") EXCEPT !.p = @ + 1]
                   [] OTHER -> Go([n EXCEPT !.url.opaque = TRUE, !.url.path = << <<>> >>], "opaque path")
          [] OTHER -> IF m.override THEN Fail(m) ELSE [Stay(m, "no scheme") EXCEPT !.p = 0, !.buf = <<>>]

\* What a reference takes from its base, and then its query or fragment.
Inherit(m, b) == [m EXCEPT !.url.username = b.username, !.url.password = b.password,
                           !.url.host = b.host, !.url.port = b.port]
Query(m)    == Go([m EXCEPT !.url.query = << <<>> >>], "query")
Fragment(m) == Go([m EXCEPT !.url.fragment = << <<>> >>], "fragment")

NoScheme(m) ==
    LET b == m.base[1]
    IN  CASE m.base = <<>> -> Fail(m)
          [] m.base # <<>> /\ b.opaque ->
                 IF At(m, 0) # "#" THEN Fail(m)
                 ELSE Fragment([m EXCEPT !.url = [b EXCEPT !.fragment = <<>>]])
          [] OTHER -> Stay(m, IF b.scheme = <<"file">> THEN "file" ELSE "relative")

SlashStates(m) ==
    LET two == At(m, 0) = "/" /\ At(m, 1) = "/"
        skip == [Go(m, "special authority ignore slashes") EXCEPT !.p = @ + 1]
    IN  CASE m.state = "special relative or authority" -> IF two THEN skip ELSE Stay(m, "relative")
          [] m.state = "special authority slashes" ->
                 IF two THEN skip ELSE Stay(m, "special authority ignore slashes")
          [] m.state = "special authority ignore slashes" ->
                 IF At(m, 0) \in {"/", "\\"} THEN Go(m, m.state) ELSE Stay(m, "authority")
          [] m.state = "path or authority" ->
                 IF At(m, 0) = "/" THEN Go(m, "authority") ELSE Stay(m, "path")

RelativeState(m) ==
    LET b == m.base[1]
        s == [m EXCEPT !.url.scheme = b.scheme]
        n == [Inherit(s, b) EXCEPT !.url.path = b.path, !.url.query = b.query]
    IN  CASE Slash(s) -> Go(s, "relative slash")
          [] At(m, 0) = "?" -> Query(n)
          [] At(m, 0) = "#" -> Fragment(n)
          [] At(m, 0) = "end" -> Go(n, n.state)
          [] OTHER -> Stay([n EXCEPT !.url.query = <<>>,
                                     !.url.path = IF @ = <<>> THEN @ ELSE Front(@)], "path")
RelativeSlash(m) ==
    CASE isSpecial(m.url) /\ Slash(m) -> Go(m, "special authority ignore slashes")
      [] ~isSpecial(m.url) /\ Slash(m) -> Go(m, "authority")
      [] OTHER -> Stay(Inherit(m, m.base[1]), "path")

(* authority: what precedes an "@" is read again unit by unit, and at the   *)
(* end as many units as the buffer has are taken back, though the input is  *)
(* counted in characters.                                                   *)
countSymbols(s) == FoldLeft(LAMBDA n, c : IF c = Wide THEN n + 2 ELSE n + 1, 0, s)
Units(s) == FlattenSeq([i \in 1..Len(s) |-> IF s[i] = Wide THEN <<Wide, "%FFFD">> ELSE <<s[i]>>])
Authority(m) ==
    LET text == Units((IF m.at THEN <<"%@">> ELSE <<>>) \o m.buf)
        colon == IF m.pw THEN 0 ELSE SelectInSeq(text, LAMBDA c : c = ":")
        user == IF m.pw THEN <<>> ELSE IF colon = 0 THEN text ELSE SubSeq(text, 1, colon - 1)
        pass == IF m.pw \/ colon > 0 THEN SubSeq(text, colon + 1, Len(text)) ELSE <<>>
    IN  CASE At(m, 0) = "@" ->
                 Go([m EXCEPT !.at = TRUE, !.buf = <<>>, !.pw = @ \/ colon > 0,
                       !.url.username = @ \o Encode(user, UserSet),
                       !.url.password = @ \o Encode(pass, UserSet)], m.state)
          [] Ends(m) -> IF m.at /\ m.buf = <<>> THEN Fail(m)
                        ELSE [Stay(m, "host") EXCEPT !.p = @ - countSymbols(m.buf), !.buf = <<>>]
          [] OTHER -> Add(m, <<At(m, 0)>>)

HostState(m, host) ==
    LET c == At(m, 0)
        n == [m EXCEPT !.url.host = host, !.buf = <<>>]
    IN  CASE m.override /\ m.url.scheme = <<"file">> -> Stay(m, "file host")
          [] c = ":" /\ ~m.arr -> CASE m.buf = <<>> -> Fail(m)
                                    [] m.buf # <<>> /\ m.only -> Stop(m)
                                    [] OTHER -> IF host = Failure THEN Fail(m) ELSE Go(n, "port")
          [] Ends(m) ->
                 CASE isSpecial(m.url) /\ m.buf = <<>> -> Fail(m)
                   [] /\ m.override /\ m.buf = <<>> /\ ~isSpecial(m.url)
                      /\ includesCredentials(m.url) \/ m.url.port # <<>> -> Stop(m)
                   [] OTHER -> CASE host = Failure -> Fail(m)
                                 [] host # Failure /\ m.override -> Stop(n)
                                 [] OTHER -> Stay(n, "path start")
          [] OTHER -> Add([m EXCEPT !.arr = (@ \/ c = "[") /\ c # "]"], <<c>>)
Host(m) == HostState(m, parseHost(m.buf, ~isSpecial(m.url)))

Port(m) ==
    LET port == <<Number(m.buf, 10)>>
        n == IF m.buf = <<>> THEN m
             ELSE [m EXCEPT !.buf = <<>>,
                            !.url.port = IF port = DefaultPort(m.url.scheme) THEN <<>> ELSE port]
    IN  CASE At(m, 0) \in Digits -> Add(m, <<At(m, 0)>>)
          [] Ends(m) \/ (m.override /\ At(m, 0) \notin Digits) ->
                 CASE port[1] > 65535 -> Fail(m)
                   [] port[1] <= 65535 /\ m.override -> Stop(n)
                   [] OTHER -> Stay(n, "path start")
          [] OTHER -> Fail(m)

startsWithWindowsDriveLetter(m) ==
    DriveLetter(<<At(m, 0), At(m, 1)>>) /\ At(m, 2) \in {"end", "/", "\\", "?", "#"}
File(m) ==
    LET b == m.base[1]
        s == [m EXCEPT !.url.scheme = <<"file">>, !.url.host = Name(<<>>)]
        n == [s EXCEPT !.url.host = b.host, !.url.path = b.path, !.url.query = b.query]
    IN  CASE At(m, 0) \in {"/", "\\"} -> Go(s, "file slash")
          [] m.base = <<>> \/ (m.base # <<>> /\ b.scheme # <<"file">>) -> Stay(s, "path")
          [] At(m, 0) = "?" -> Query(n)
          [] At(m, 0) = "#" -> Fragment(n)
          [] At(m, 0) = "end" -> Go(n, m.state)
          [] OTHER -> Stay([n EXCEPT !.url = IF startsWithWindowsDriveLetter(m)
                                             THEN [@ EXCEPT !.query = <<>>, !.path = <<>>]
                                             ELSE shortenPath([@ EXCEPT !.query = <<>>])], "path")
FileSlash(m) ==
    LET b == m.base[1]
        drive == ~startsWithWindowsDriveLetter(m) /\ DriveLetter(b.path[1])
    IN  CASE At(m, 0) \in {"/", "\\"} -> Go(m, "file host")
          [] m.base # <<>> /\ b.scheme = <<"file">> ->
                 Stay([m EXCEPT !.url.host = b.host,
                                !.url.path = IF drive THEN Append(@, b.path[1]) ELSE @], "path")
          [] OTHER -> Stay(m, "path")
FileHostState(m, host) ==
    LET n == [m EXCEPT !.url.host = IF host.val = <<"localhost">> \/ m.buf = <<>> THEN Name(<<>>) ELSE host,
                       !.buf = <<>>]
    IN  CASE ~Ends(m) -> Add(m, <<At(m, 0)>>)
          [] Ends(m) /\ ~m.override /\ DriveLetter(m.buf) -> Stay(m, "path")
          [] Ends(m) /\ m.buf # <<>> /\ host = Failure /\ (m.override \/ ~DriveLetter(m.buf)) -> Fail(m)
          [] OTHER -> IF m.override THEN Stop(n) ELSE Stay(n, "path start")
FileHost(m) == FileHostState(m, parseHost(m.buf, FALSE))

PathStart(m) ==
    CASE isSpecial(m.url) -> IF Slash(m) THEN Go(m, "path") ELSE Stay(m, "path")
      [] ~m.override /\ At(m, 0) = "?" -> Query(m)
      [] ~m.override /\ At(m, 0) = "#" -> Fragment(m)
      [] At(m, 0) = "end" -> Go(IF m.override /\ m.url.host = NoHost
                                THEN [m EXCEPT !.url.path = Append(@, <<>>)] ELSE m, m.state)
      [] OTHER -> IF At(m, 0) = "/" THEN Go(m, "path") ELSE Stay(m, "path")
Path(m) ==
    LET c == At(m, 0)
        push(u, s) == [u EXCEPT !.path = Append(@, s)]
        up == shortenPath(m.url)
        u == CASE DoubleDot(m.buf) -> IF Slash(m) THEN up ELSE push(up, <<>>)
               [] SingleDot(m.buf) -> IF Slash(m) THEN m.url ELSE push(m.url, <<>>)
               [] OTHER -> push(m.url, m.buf)
        n == [m EXCEPT !.url = u, !.buf = <<>>]
        ends == Slash(m) \/ c = "end" \/ (~m.override /\ c \in {"?", "#"})
    IN  CASE ~ends -> Add(m, Encode(<<c>>, PathSet))
          [] ends /\ c = "?" -> Query(n)
          [] ends /\ c = "#" -> Fragment(n)
          [] OTHER -> Go(n, m.state)
OpaquePath(m) ==
    CASE At(m, 0) = "?" -> Query(m)
      [] At(m, 0) = "#" -> Fragment(m)
      [] At(m, 0) = "end" -> Go(m, m.state)
      [] OTHER -> Go([m EXCEPT !.url.path[1] = @ \o Encode(<<At(m, 0)>>, C0Control)], m.state)
QueryState(m) ==
    LET n == [m EXCEPT !.url.query[1] = @ \o Encode(m.buf, QuerySet), !.buf = <<>>]
    IN  CASE ~m.override /\ At(m, 0) = "#" -> Fragment(n)
          [] At(m, 0) = "end" -> Go(n, m.state)
          [] OTHER -> Add(m, <<At(m, 0)>>)
FragmentState(m) ==
    Go(IF At(m, 0) = "end" THEN m
       ELSE [m EXCEPT !.url.fragment[1] = @ \o Encode(<<At(m, 0)>>, C0Control)], m.state)

Step(m) ==
    CASE m.state = "scheme start" -> SchemeStart(m) [] m.state = "scheme" -> Scheme(m)
      [] m.state = "no scheme" -> NoScheme(m)       [] m.state = "relative" -> RelativeState(m)
      [] m.state = "relative slash" -> RelativeSlash(m)
      [] m.state = "authority" -> Authority(m)      [] m.state = "host" -> Host(m)
      [] m.state = "port" -> Port(m)                [] m.state = "file" -> File(m)
      [] m.state = "file slash" -> FileSlash(m)     [] m.state = "file host" -> FileHost(m)
      [] m.state = "path start" -> PathStart(m)     [] m.state = "path" -> Path(m)
      [] m.state = "opaque path" -> OpaquePath(m)   [] m.state = "query" -> QueryState(m)
      [] m.state = "fragment" -> FragmentState(m)   [] OTHER -> SlashStates(m)
RECURSIVE Run(_)
Run(m) == IF m.now # "run" \/ m.p > Len(m.input) THEN m
          ELSE Only({ Run(next) : next \in {Step(m)} })

\* The URL that is parsed, if there is one.
Parse(input, base) == Only({ IF m.now = "fail" THEN <<>> ELSE <<m.url>>
                             : m \in {Run(Machine(input, Empty, base, ""))} })
\* What basicURLParse makes of a URL it is given, also when it fails.
Override(u, input, state) == Run(Machine(input, u, <<>>, state)).url

serializePath(u) == IF u.opaque THEN u.path[1]
                    ELSE FlattenSeq([i \in 1..Len(u.path) |-> <<"/">> \o u.path[i]])
serializeURL(u) ==
    LET user == IF ~includesCredentials(u) THEN <<>>
                ELSE u.username \o (IF u.password = <<>> THEN <<>> ELSE <<":">> \o u.password) \o <<"@">>
        port == IF u.port = <<>> THEN <<>> ELSE <<":">> \o Numeral(u.port[1], 10)
        authority == IF u.host = NoHost THEN <<>>
                     ELSE <<"/", "/">> \o user \o serializeHost(u.host) \o port
        dot  == u.host = NoHost /\ ~u.opaque /\ Len(u.path) > 1 /\ u.path[1] = <<>>
        tail(mark, part) == IF part = <<>> THEN <<>> ELSE <<mark>> \o part[1]
    IN  u.scheme \o <<":">> \o authority \o (IF dot THEN <<"/", ".">> ELSE <<>>) \o serializePath(u)
        \o tail("?", u.query) \o tail("#", u.fragment)

(***************************************************************************)
(* URLSearchParams.                                                         *)
(***************************************************************************)
parseUrlencoded(s) ==
    LET pair(b) == LET eq == SelectInSeq(b, LAMBDA c : c = "=")
                       clean(t) == Decoded([i \in 1..Len(t) |-> IF t[i] = "+" THEN " " ELSE t[i]])
                   IN  IF eq = 0 THEN <<clean(b), <<>> >>
                       ELSE <<clean(SubSeq(b, 1, eq - 1)), clean(SubSeq(b, eq + 1, Len(b)))>>
        parts == SelectSeq(Split(s, "&"), LAMBDA b : b # <<>>)
    IN  [i \in 1..Len(parts) |-> pair(parts[i])]
serializeUrlencoded(l) ==
    LET enc(t) == LET e == Encode(t, FormSet)
                  IN  [i \in 1..Len(e) |-> IF e[i] = " " THEN "+" ELSE e[i]]
    IN  Glue([i \in 1..Len(l) |-> enc(l[i][1]) \o <<"=">> \o enc(l[i][2])], "&")
ListOf(u) == IF u.query = <<>> THEN <<>> ELSE parseUrlencoded(u.query[1])

(* _updateSteps writes the list into the URL.                               *)
Updates(l) == \E q \in {serializeUrlencoded(l)} :
    /\ list' = l
    /\ url' = [url EXCEPT !.query = IF q = <<>> THEN <<>> ELSE <<q>>]
Without(l, name) == SelectSeq(l, LAMBDA pair : pair[1] # name)
SetIn(l, name, value) == \* the first of that name, and the others go
    LET i == SelectInSeq(l, LAMBDA pair : pair[1] = name)
    IN  IF i = 0 THEN Append(l, <<name, value>>)
        ELSE Append(SubSeq(l, 1, i - 1), <<name, value>>) \o Without(SubSeq(l, i + 1, Len(l)), name)

(***************************************************************************)
(* The URL object: the constructor and its setters.                         *)
(***************************************************************************)
UrlInit == /\ url \in UNION { Range(Parse(input, <<>>)) : input \in Inputs }
           /\ list = ListOf(url) /\ sets = 0

\* new URL(input, this), and the setter of href, which has no base.
Resolve(input, base) ==
    \E u \in {Parse(input, base)} : u # <<>> /\ url' = u[1] /\ list' = ListOf(u[1])

NoMark(v, mark) == IF Head(v) = mark THEN Tail(v) ELSE v
\* What a setter gives the machine: a URL, an input and a state.
ToMachine(u, input, state) == [url |-> u, input |-> input, state |-> state]
SetProtocol(v) == { ToMachine(url, v \o <<":">>, "scheme start") }
SetHost(v)     == IF url.opaque THEN {}
                  ELSE { ToMachine(url, v, state) : state \in {"host", "hostname"} }
SetPort(v)     == IF cannotHaveAUsernamePasswordPort(url) \/ v = <<>> THEN {}
                  ELSE { ToMachine(url, v, "port") }
SetPathname(v) == IF url.opaque THEN {}
                  ELSE { ToMachine([url EXCEPT !.path = <<>>], v, "path start") }
SetSearch(v)   == IF v = <<>> THEN {}
                  ELSE { ToMachine([url EXCEPT !.query = << <<>> >>], NoMark(v, "?"), "query") }
SetHash(v)     == IF v = <<>> THEN {}
                  ELSE { ToMachine([url EXCEPT !.fragment = << <<>> >>], NoMark(v, "#"), "fragment") }

\* The setter of search gives the list the same text.  Mutant: it does not.
ListAsBefore(call) == list
ListAfter(call) == IF call.state = "query" THEN parseUrlencoded(call.input) ELSE list

SetByMachine(v) ==
    \E call \in UNION { SetProtocol(v), SetHost(v), SetPort(v), SetPathname(v), SetSearch(v), SetHash(v) } :
        url' = Override(call.url, call.input, call.state) /\ list' = ListAfter(call)
SetCredentials(v) ==
    /\ ~cannotHaveAUsernamePasswordPort(url) /\ UNCHANGED list
    /\ \/ url' = [url EXCEPT !.username = Encode(v, UserSet)]
       \/ url' = [url EXCEPT !.password = Encode(v, UserSet)]
Clear(v) == \* port, search and hash set to ""
    /\ v = <<>>
    /\ \/ ~cannotHaveAUsernamePasswordPort(url) /\ url' = [url EXCEPT !.port = <<>>] /\ UNCHANGED list
       \/ url' = [url EXCEPT !.query = <<>>] /\ list' = <<>>
       \/ url' = [url EXCEPT !.fragment = <<>>] /\ UNCHANGED list

SearchParams ==
    \E n \in Names : \/ Updates(Without(list, n))
                     \/ \E v \in Names : Updates(Append(list, <<n, v>>)) \/ Updates(SetIn(list, n, v))

UrlNext ==
    /\ sets < MaxSets /\ sets' = sets + 1
    /\ \/ \E r \in Relative : Resolve(r, <<url>>)
       \/ \E v \in Parts : SetByMachine(v) \/ SetCredentials(v) \/ Clear(v)
       \/ SearchParams

(***************************************************************************)
(* Properties.                                                              *)
(***************************************************************************)
UrlTypeOK == /\ url.host.kind \in {"null", "name", "v4", "v6"}
             /\ url.host.kind = "v6" => Len(url.host.val) = 8
             /\ url.opaque => Len(url.path) = 1
             /\ Len(url.port) <= 1 /\ Len(url.query) <= 1 /\ Len(url.fragment) <= 1

(* Whatever the setters are given and in whatever order, a URL can be       *)
(* written and read again: its href parses to the URL it is the href of.    *)
(* The host of a file is not compared when it has been given the name       *)
(* "localhost" before its scheme became file (whatwg_url.js 749, 1176).     *)
HrefReadsBack ==
    \/ url.scheme = <<"file">> /\ url.host = Name(<<"localhost">>)
    \/ Parse(serializeURL(url), <<>>) = <<url>>

(* The search parameters are those of the URL's query, though each is       *)
(* changed through the other (whatwg_url.js 1642, 1913).                    *)
SameQuery == list = ListOf(url)

(* A URL that has no host, or a file's, has neither user, password nor port;*)
(* one of a special scheme has a host, but for files.                       *)
WholeAuthority ==
    /\ cannotHaveAUsernamePasswordPort(url) => ~includesCredentials(url) /\ url.port = <<>>
    /\ isSpecial(url) /\ url.scheme # <<"file">> => url.host.val # <<>>

UrlKept == HrefReadsBack /\ SameQuery /\ WholeAuthority
=============================================================================
