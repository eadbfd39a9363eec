------------------------------- MODULE Codecs -------------------------------
(***************************************************************************)
(* Bytes and text: the encodings of src/modules_js/buffer.js, and the       *)
(* StringDecoder (src/modules_js/string_decoder.js) that decodes a stream   *)
(* of chunks which may cut a character anywhere.                            *)
(*                                                                          *)
(* Text is a sequence of code units (UTF-16, as in JavaScript); hex and     *)
(* base64 text is the sequence of what its digits stand for.                *)
(***************************************************************************)
EXTENDS Integers, SequencesExt, FiniteSetsExt

CONSTANTS Alphabet, \* the bytes a chunk may hold, for each encoding
          MaxChunk, \* bound: bytes of a chunk
          MaxBytes  \* bound: bytes of a stream

VARIABLES enc,     \* encoding of the decoder
          pending, \* charBuffer, charReceived and charLength
          fed,     \* the bytes written to it
          said,    \* the text it has returned
          over     \* end() has been called, or the rest is not what it was
cvars == <<enc, pending, fed, said, over>>

Only(S) == CHOOSE x \in S : TRUE \* the member of a set of one

Lead == 55296..56319
Trail == 56320..57343
Replacement == 65533

(***************************************************************************)
(* UTF-8.                                                                   *)
(***************************************************************************)
Encoded(c) == \* the bytes of a code point
    LET six(n) == 128 + ((c \div n) % 64) \* the six bits from n on
    IN  CASE c < 128 -> <<c>>
          [] c \in 128..2047 -> <<192 + c \div 64, six(1)>>
          [] c \in 2048..65535 -> <<224 + c \div 4096, six(64), six(1)>>
          [] OTHER -> <<240 + c \div 262144, six(4096), six(64), six(1)>>

(* utf8ToBytes: the characters, as far as there is room.  A surrogate        *)
(* without its other half becomes the replacement character; of two leads   *)
(* at the very end only the first does.                                     *)
Characters(s, i) == \* what the unit at position i completes
    LET open == i > 1 /\ s[i - 1] \in Lead \* leadSurrogate is set
        bad  == <<Encoded(Replacement)>>
    IN  CASE s[i] \in Trail /\ ~open -> bad
          [] s[i] \in Trail /\ open ->
                 <<Encoded(65536 + (s[i - 1] - 55296) * 1024 + s[i] - 56320)>>
          [] s[i] \in Lead -> IF open \/ i = Len(s) THEN bad ELSE <<>>
          [] OTHER -> (IF open THEN bad ELSE <<>>) \o <<Encoded(s[i])>>
utf8ToBytes(s, units) ==
    LET all[i \in 1..Len(s) + 1] ==
            IF i > Len(s) THEN <<>> ELSE Characters(s, i) \o all[i + 1]
        \* as many as there is room for
        Fit(chars) ==
            LET fit[i \in 1..Len(chars) + 1, room \in Int] ==
                    IF i > Len(chars) THEN <<>>
                    ELSE IF Len(chars[i]) > room THEN <<>>
                    ELSE chars[i] \o fit[i + 1, room - Len(chars[i])]
            IN  fit[1, units]
    IN  Only({ Fit(chars) : chars \in {all[1]} })

(* utf8Slice: a sequence that is cut short, too long for what it stands for *)
(* or out of range gives a replacement character for its first byte.        *)
Width(first) ==
    CASE first > 239 -> 4 [] first \in 224..239 -> 3
      [] first \in 192..223 -> 2 [] OTHER -> 1
CodePoint(b, i) == \* of the bytes from position i, or -1
    LET n == Width(b[i])
        more(k) == b[i + k] % 64
        cp == CASE n = 1 -> b[i]
                [] n = 2 -> 64 * (b[i] % 32) + more(1)
                [] n = 3 -> 4096 * (b[i] % 16) + 64 * more(1) + more(2)
                [] OTHER -> 262144 * (b[i] % 16) + 4096 * more(1) + 64 * more(2) + more(3)
        range == CASE n = 1 -> 0..127 [] n = 2 -> 128..2047
                   [] n = 3 -> 2048..65535 [] OTHER -> 65536..1114111
    IN  IF /\ i + n - 1 <= Len(b)
           /\ \A k \in i + 1 .. i + n - 1 : b[k] \in 128..191
           /\ cp \in range /\ cp \notin Lead /\ cp \notin Trail
        THEN cp ELSE -1
utf8Slice(b) ==
    LET from[i \in 1..Len(b) + 1] ==
            IF i > Len(b) THEN <<>>
            ELSE Only({ CASE c = -1 -> <<Replacement>> \o from[i + 1]
                          [] c > 65535 -> <<55296 + (c - 65536) \div 1024,
                                            56320 + ((c - 65536) % 1024)>> \o from[i + 4]
                          [] OTHER -> <<c>> \o from[i + Width(b[i])] : c \in {CodePoint(b, i)} })
    IN  from[1]

(***************************************************************************)
(* UTF-16, hex and base64.                                                  *)
(***************************************************************************)
RECURSIVE utf16leToBytes(_, _), hexSlice(_), fromByteArray(_), DigitBytes(_)
utf16leToBytes(s, units) ==
    IF s = <<>> \/ units < 2 THEN <<>>
    ELSE <<Head(s) % 256, Head(s) \div 256>> \o utf16leToBytes(Tail(s), units - 2)
utf16leSlice(b) == Only({ [k \in 1..n |-> b[2 * k - 1] + 256 * b[2 * k]] : n \in {Len(b) \div 2} })

hexSlice(b) ==
    IF b = <<>> THEN <<>> ELSE <<Head(b) \div 16, Head(b) % 16>> \o hexSlice(Tail(b))
(* hexWrite stops at a pair that does not begin with a digit (-1 is none);  *)
(* parseInt takes the first digit of a pair when the second is not one.     *)
hexWrite(s, length) ==
    LET n == IF 2 * length > Len(s) THEN (Len(s) + 1) \div 2 ELSE length
        good == SelectInSeq([k \in 1..n |-> s[2 * k - 1]], LAMBDA d : d = -1)
        pair(k) == IF 2 * k > Len(s) THEN s[2 * k - 1]
                   ELSE IF s[2 * k] = -1 THEN s[2 * k - 1] ELSE 16 * s[2 * k - 1] + s[2 * k]
    IN  [k \in 1..(IF good = 0 THEN n ELSE good - 1) |-> pair(k)]

(* The three bytes of a group make four digits; of a last group that is not *)
(* full, one more digit than it has bytes (64 is the sign "=").             *)
fromByteArray(b) ==
    LET n == IF Len(b) < 3 THEN Len(b) ELSE 3
        num == Only({ 65536 * t[1] + 256 * t[2] + t[3] : t \in {SubSeq(b, 1, n) \o <<0, 0>>} })
        digits == <<num \div 262144, (num \div 4096) % 64, (num \div 64) % 64, num % 64>>
    IN  IF b = <<>> THEN <<>>
        ELSE SubSeq(SubSeq(digits, 1, n + 1) \o <<64, 64>>, 1, 4) \o fromByteArray(SubSeq(b, 4, Len(b)))
(* base64clean ends the text at the first sign, drops what is no digit and  *)
(* what is too short; toByteArray takes the groups.                         *)
base64clean(s) ==
    LET sign  == SelectInSeq(s, LAMBDA d : d = 64)
        clean == SelectSeq(IF sign = 0 THEN s ELSE SubSeq(s, 1, sign - 1), LAMBDA d : d \in 0..63)
    IN  IF Len(clean) < 2 THEN <<>> ELSE clean
DigitBytes(d) == \* a last group of one digit has no byte
    LET n == IF Len(d) < 4 THEN Len(d) ELSE 4
        num == Only({ 262144 * t[1] + 4096 * t[2] + 64 * t[3] + t[4]
                      : t \in {SubSeq(d, 1, n) \o <<0, 0, 0>>} })
        bytes == <<num \div 65536, (num \div 256) % 256, num % 256>>
    IN  IF d = <<>> THEN <<>>
        ELSE SubSeq(bytes, 1, n - 1) \o DigitBytes(SubSeq(d, 5, Len(d)))
base64ToBytes(s) == Only({ DigitBytes(d) : d \in {base64clean(s)} })

toString(e, b) == CASE e = "utf8" -> utf8Slice(b) [] e = "utf16le" -> utf16leSlice(b)
                    [] e = "hex" -> hexSlice(b) [] OTHER -> fromByteArray(b)

(***************************************************************************)
(* StringDecoder.  pending holds the bytes of a character that is not       *)
(* complete: charBuffer, how many of it are valid and how many it takes.    *)
(***************************************************************************)
surrogateSize(e) == IF e = "utf16le" THEN 2 ELSE 3
Idle == [buf |-> <<0, 0, 0, 0, 0, 0>>, received |-> 0, length |-> 0]
CodecsInit == /\ enc \in DOMAIN Alphabet /\ pending = Idle
              /\ fed = <<>> /\ said = <<>> /\ over = "no"

(* copy(charBuffer, at, ...): the bytes that fit.                           *)
CopyTo(buf, at, bytes) ==
    SubSeq(SubSeq(buf, 1, at) \o bytes \o SubSeq(buf, at + Len(bytes) + 1, 6), 1, 6)

\* Mutant: a character is cut off only when one byte of it has come.
IncompleteOne(e, b) ==
    IF e = "utf8" THEN IF Last(b) \in 192..247 THEN [received |-> 1, length |-> Width(Last(b))]
                       ELSE [received |-> 0, length |-> 0]
    ELSE [received |-> 0, length |-> 0]

(* detectIncompleteChar: how many bytes at the end begin a character, and   *)
(* how many the character takes.                                            *)
Incomplete(e, b) ==
    LET n == Len(b)
        cut(i) == CASE i = 1 -> b[n] \in 192..247 [] i = 2 -> b[n - 1] \in 224..247
                    [] OTHER -> b[n - 2] \in 240..247
        starts == { i \in 1..3 : i <= n /\ cut(i) }
        i == CHOOSE j \in starts : \A k \in starts : k <= j
        unit == IF e = "utf16le" THEN 2 ELSE 3
    IN  CASE e = "utf8" -> IF starts = {} THEN [received |-> 0, length |-> 0]
                           ELSE [received |-> i, length |-> Width(b[n - i + 1])]
          [] OTHER -> [received |-> n % unit, length |-> IF n % unit = 0 THEN 0 ELSE unit]

EndsInLead(text) == text # <<>> /\ Last(text) \in Lead

(* The loop of write while a character is pending: fill charBuffer, and     *)
(* wait for the other half when what it holds is a lead.                    *)
RECURSIVE Fill(_, _, _)
Filled(e, p, buf, rest, text) ==
    IF EndsInLead(text)
    THEN Fill(e, [buf |-> buf, received |-> p.length, length |-> p.length + surrogateSize(e)], rest)
    ELSE [p |-> [buf |-> buf, received |-> 0, length |-> 0], b |-> rest, text |-> text]
Fill(e, p, b) ==
    LET room == p.length - p.received
        n    == IF Len(b) >= room THEN room ELSE Len(b)
        size == IF p.length < 6 THEN p.length ELSE 6
        buf  == CopyTo(p.buf, p.received, SubSeq(b, 1, n))
    IN  IF n < room
        THEN [p |-> [p EXCEPT !.buf = buf, !.received = @ + n], b |-> <<>>, text |-> <<>>]
        ELSE Only({ Filled(e, p, buf, SubSeq(b, n + 1, Len(b)), text)
                    : text \in {toString(e, SubSeq(buf, 1, size))} })

(* The rest of write: the chunk without what it cuts off.  A lead at the    *)
(* end is kept for its other half: the first bytes of the chunk are, which  *)
(* are the lead's only when it is all there is.                             *)
Cut(e, p, b, text) ==
    LET cut  == Incomplete(e, b)
        kept == CopyTo(p.buf, 0, SubSeq(b, Len(b) - cut.received + 1, Len(b)))
        size == surrogateSize(e)
        head == SubSeq(b, 1, IF Len(b) < size THEN Len(b) ELSE size)
        split(all) ==
            IF EndsInLead(all)
            THEN [p |-> [buf |-> CopyTo(CopyTo(kept, size, SubSeq(kept, 1, size)), 0, head),
                         received |-> cut.received + size, length |-> cut.length + size],
                  text |-> Front(all)]
            ELSE [p |-> [buf |-> kept, received |-> cut.received, length |-> cut.length],
                  text |-> all]
    IN  Only({ split(all) : all \in {text \o toString(e, SubSeq(b, 1, Len(b) - cut.received))} })

Written(e, p, chunk) ==
    LET first == IF p.length > 0 THEN Fill(e, p, chunk) ELSE [p |-> p, b |-> chunk, text |-> <<>>]
    IN  Only({ IF f.p.length > 0 \/ (p.length > 0 /\ f.b = <<>>)
               THEN [p |-> f.p, text |-> f.text] ELSE Cut(e, f.p, f.b, f.text) : f \in {first} })

Chunks(e) == BoundedSeq(Alphabet[e], MaxChunk) \ {<<>>}
Write(chunk) ==
    LET w == IF enc = "hex" THEN [p |-> pending, text |-> toString(enc, chunk)] \* passThroughWrite
             ELSE Written(enc, pending, chunk)
        lead == EndsInLead(utf16leSlice(chunk)) \/ EndsInLead(utf16leSlice(fed \o chunk))
    IN  /\ over = "no" /\ Len(fed) + Len(chunk) <= MaxBytes
        /\ pending' = w.p /\ said' = said \o w.text
        /\ fed' = fed \o chunk
        /\ over' = IF enc = "utf16le" /\ lead /\ Len(chunk) > 2 THEN "garbled" ELSE over
        /\ UNCHANGED enc
End == \* the bytes that are pending, as they are
    /\ over = "no" /\ over' = "yes"
    /\ said' = said \o toString(enc, SubSeq(pending.buf, 1, pending.received))
    /\ UNCHANGED <<enc, pending, fed>>

CodecsNext == (\E chunk \in Chunks(enc) : Write(chunk)) \/ End
CodecsSpec == CodecsInit /\ [][CodecsNext]_cvars

(***************************************************************************)
(* Properties.                                                              *)
(***************************************************************************)
CodecsTypeOK == /\ pending.received \in 0..pending.length
                /\ \A i \in 1..6 : pending.buf[i] \in 0..255

(* However a stream is cut into chunks, decoding the chunks one by one says *)
(* what decoding the whole says, unless it is not well formed or a chunk of *)
(* UTF-16 has more than a lead before the cut (string_decoder.js 147, where *)
(* the wrong bytes are kept).                                               *)
WellFormed ==
    LET text == utf16leSlice(fed)
    IN  CASE enc = "utf8" -> utf8ToBytes(utf8Slice(fed), Len(fed)) = fed
          [] enc = "utf16le" -> \A i \in 1..Len(text) - 1 : text[i] \in Lead => text[i + 1] \in Trail
          [] OTHER -> TRUE
DecodedAsWhole == over = "yes" /\ WellFormed => said = toString(enc, fed)

(* What one side encodes the other decodes: bytes survive base64 and hex    *)
(* text, text survives UTF-16, and UTF-8 but for surrogates without their   *)
(* other half, which become the replacement character.                      *)
RoundTrips ==
    /\ \A digits \in {fromByteArray(fed)} : base64ToBytes(digits) = fed
    /\ \A digits \in {hexSlice(fed)} : hexWrite(digits, Len(fed)) = fed
    /\ \A bytes \in {utf16leToBytes(said, 2 * Len(said))} : utf16leSlice(bytes) = said
    /\ \A bytes \in {utf8ToBytes(said, 4 * Len(said))} : \A text \in {utf8Slice(bytes)} :
          /\ utf8ToBytes(text, Len(bytes)) = bytes
          \* short of room for the last character, a write ends between two
          /\ \A room \in 1..3 : \A some \in {utf8ToBytes(text, Len(bytes) - room)} :
                Len(bytes) > room => Len(some) <= Len(bytes) - room /\ IsPrefix(utf8Slice(some), text)

DecodersAgree == DecodedAsWhole /\ RoundTrips
=============================================================================
