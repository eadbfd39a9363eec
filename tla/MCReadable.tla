----------------------------- MODULE MCReadable -----------------------------
(* Instances of Readable for TLC: the clients each run looks at.            *)
EXTENDS Readable, TLC

Client(may, n) == [may |-> may, calls |-> n, reads |-> "as it likes", source |-> {}]

From(pushes, c) == [c EXCEPT !.source = pushes]
Reads(how, c)   == [c EXCEPT !.reads = how]

\* For the safety properties: a client for each way of using the stream.
Listener == From({"empty"}, Client({"on data", "off data", "pause", "resume", "read()"}, 4))
Reader   == From({"empty"}, Client({"on readable", "off readable", "read()", "read(1)", "unshift"}, 4))
Mixed    == From({"empty", "unasked"},
                 Client({"on data", "on readable", "off readable", "pause", "resume"}, 3))
Piper    == Client({"pipe", "unpipe", "unpipe all", "pause"}, 3)
Breaker  == Client({"pipe", "destroy", "destroy dest"}, 3)
Destroyer == From({"late"}, Client({"on data", "on readable", "destroy"}, 3))

Users == {Listener, Reader, Mixed, Piper, Breaker, Destroyer}

\* For the liveness properties.
Patient == {
    Client({"on data", "off data", "on readable", "off readable", "pause", "resume"}, 3),
    Reads("once", Client({"on readable", "on data", "pause", "resume"}, 2)),
    Reads("until null", Client({"on readable", "on data", "pause", "resume"}, 2)),
    Client({"pipe", "unpipe"}, 3),
    Client({"pipe", "destroy dest"}, 2)}

PipesToBroken == {Client({"pipe", "destroy dest"}, 3)}

AnyDest == Permutations(Dest)
=============================================================================
