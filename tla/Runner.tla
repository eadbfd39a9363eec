------------------------------- MODULE Runner -------------------------------
(***************************************************************************)
(* The npm package's functions (src/npm/index.ts).  runBusy exchanges       *)
(* process.argv before the BusyBox module is loaded, and the runner's exec  *)
(* puts the old value back, at once or when the command's promise settles;  *)
(* between these steps anybody may run.  runDrop leaves argv alone.  exec   *)
(* of the package is one of the two and then the runner's exec.             *)
(*                                                                          *)
(* A value of argv is named by the run that set it, the host's by 0.  Left  *)
(* out: arguments, variants, what the modules do.  The modules are external.*)
(***************************************************************************)
EXTENDS Naturals, Sequences

CONSTANTS MaxRuns,  \* bound: calls of runBusy and runDrop
          MaxExecs  \* bound: calls of each runner's exec

VARIABLES argv,     \* process.argv
          runs,     \* the runs so far
          crossed   \* history: has a run put argv back after one it began in?
runnerVars == <<argv, runs, crossed>>

RunnerInit == argv = 0 /\ runs = <<>> /\ crossed = FALSE

\* Between its exchange of argv and the first time it puts it back.
Open(i) == runs[i].kind = "busy" /\ ~runs[i].restored

\* Mutant: the old value is read after the exchange.
OldProcArgvLate == Len(runs) + 1
OldProcArgv     == argv

\* outer: the runs it begins in.
Run(kind) == [kind |-> kind, at |-> "loading", oldProcArgv |-> OldProcArgv,
              outer |-> {i \in 1..Len(runs) : Open(i)},
              execs |-> 0, promises |-> 0, restored |-> FALSE]

RunBusy == /\ Len(runs) < MaxRuns
           /\ runs' = Append(runs, Run("busy"))
           /\ argv' = Len(runs) + 1
           /\ UNCHANGED crossed

RunDrop == /\ Len(runs) < MaxRuns
           /\ runs' = Append(runs, Run("drop"))
           /\ UNCHANGED <<argv, crossed>>

\* The module is instantiated, or something on the way fails.
Loads(i) == /\ runs[i].at = "loading"
            /\ \E at \in {"ready", "failed"} : runs' = [runs EXCEPT ![i].at = at]
            /\ UNCHANGED <<argv, crossed>>

PutsBack(i) == /\ argv' = runs[i].oldProcArgv
               /\ crossed' = (crossed \/ \E k \in runs[i].outer : ~Open(k))

\* callMain returns, throws, or returns a promise.
Exec(i) ==
    /\ runs[i].at = "ready" /\ runs[i].execs < MaxExecs
    /\ \/ /\ runs[i].kind = "busy" /\ PutsBack(i)
          /\ runs' = [runs EXCEPT ![i].execs = @ + 1, ![i].restored = TRUE]
       \/ /\ runs' = [runs EXCEPT ![i].execs = @ + 1]
          /\ UNCHANGED <<argv, crossed>>
       \/ /\ runs[i].kind = "busy"
          /\ runs' = [runs EXCEPT ![i].execs = @ + 1, ![i].promises = @ + 1]
          /\ UNCHANGED <<argv, crossed>>

\* result.finally
Settles(i) == /\ runs[i].promises > 0 /\ PutsBack(i)
              /\ runs' = [runs EXCEPT ![i].promises = @ - 1, ![i].restored = TRUE]

RunnerNext == \/ RunBusy \/ RunDrop
              \/ \E i \in 1..Len(runs) : Loads(i) \/ Exec(i) \/ Settles(i)
RunnerSpec == RunnerInit /\ [][RunnerNext]_runnerVars

(* process.argv comes back to the host's value, whatever order runs begin,  *)
(* load and settle in, unless a run never puts its value back (its module   *)
(* or its command failed, or it was not executed), or puts it back after a  *)
(* run that was open when it began has ended: it then brings that one's     *)
(* value back, for good.                                                    *)
ArgvComesBack == argv # 0 => crossed \/ \E i \in 1..Len(runs) : Open(i)
=============================================================================
