----------------------------- MODULE Scheduler -----------------------------
(***************************************************************************)
(* What the event loop promises a program, without its queues and slots:   *)
(* every registration goes through one life, one frame runs at a time, and *)
(* the loop ends by itself only when nothing is waiting.                   *)
(***************************************************************************)
CONSTANTS Callback, Main, Idle

VARIABLES
    status,     \* the life of each registration
    frame,      \* the frame on the stack
    process     \* "live", "exited" by itself, or "aborted"

Status == {"new", "waiting", "running", "done", "cancelled", "dropped"}

Init ==
    /\ status = [c \in Callback |-> "new"]
    /\ frame = Main
    /\ process = "live"

Moves(c, from, to) ==
    /\ status[c] = from
    /\ status' = [status EXCEPT ![c] = to]

\* Only running code registers and cancels.
Register(c) ==
    /\ process = "live" /\ frame # Idle
    /\ Moves(c, "new", "waiting")
    /\ UNCHANGED <<frame, process>>

Cancel(c) ==
    /\ process = "live" /\ frame # Idle
    /\ Moves(c, "waiting", "cancelled")
    /\ UNCHANGED <<frame, process>>

\* Only the loop starts and drops.
Start(c) ==
    /\ process = "live" /\ frame = Idle
    /\ Moves(c, "waiting", "running")
    /\ frame' = c
    /\ UNCHANGED process

Drop(c) ==
    /\ process = "live" /\ frame = Idle
    /\ Moves(c, "waiting", "dropped")
    /\ UNCHANGED <<frame, process>>

\* A frame ends, and may take the process with it.
Finish ==
    /\ process = "live" /\ frame # Idle
    /\ \/ frame \in Callback /\ Moves(frame, "running", "done")
       \/ frame = Main /\ UNCHANGED status
    /\ frame' = Idle
    /\ process' \in {"live", "aborted"}

Stop ==
    /\ process = "live" /\ frame = Idle
    /\ \/ process' = "exited" /\ \A c \in Callback : status[c] # "waiting"
       \/ process' = "aborted"
    /\ UNCHANGED <<status, frame>>

Next ==
    \/ \E c \in Callback : Register(c) \/ Cancel(c) \/ Start(c) \/ Drop(c)
    \/ Finish \/ Stop

Spec == Init /\ [][Next]_<<status, frame, process>>
=============================================================================
