----------------------------- MODULE MCWritable -----------------------------
(* Instances of Writable for TLC: the streams each run looks at.            *)
EXTENDS Writable

Plain == [writev |-> FALSE, final |-> FALSE, construct |-> FALSE,
          autoDestroy |-> TRUE, faults |-> {}, corks |-> FALSE, calls |-> 4]

Corked      == [Plain EXCEPT !.corks = TRUE]
Failing     == [Plain EXCEPT !.faults = {"error"}, !.calls = 3]
\* Its errorBuffer may be uncorked: what Writable says of such a stream.
Reckless    == [Corked EXCEPT !.faults = {"error"}]
Manual      == [Failing EXCEPT !.autoDestroy = FALSE]
Full        == [Failing EXCEPT !.writev = TRUE, !.final = TRUE,
                               !.construct = TRUE]
Misbehaving == [Corked EXCEPT !.final = TRUE, !.faults = {"twice", "throw"},
                              !.calls = 3]

AllStreams == {Corked, Failing, Reckless, Manual, Full, Misbehaving}

\* Every chunk, callback and event must come.
Answering   == {[Corked EXCEPT !.final = TRUE, !.calls = 3]}

\* Where something the documentation promises is not so.
Constructed == {[Corked EXCEPT !.construct = TRUE]}
JustFailing == {Failing}
=============================================================================
