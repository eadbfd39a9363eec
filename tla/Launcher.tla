------------------------------ MODULE Launcher ------------------------------
(***************************************************************************)
(* The npm package's program (src/npm/bin.ts).  It starts the command, or,  *)
(* when node lacks something, runs itself again in a node with more flags   *)
(* and waits for it.  `chain` holds the processes, each the child of the    *)
(* one before.                                                              *)
(*                                                                          *)
(* Left out: which command is run; that is the package's exec, see Runner.  *)
(* Node itself is external: what it offers, and how the command ends.       *)
(***************************************************************************)
EXTENDS Naturals, Sequences

CONSTANTS Hosts,        \* the nodes to look at, see Host
          MaxProcesses  \* bound: processes in the chain

\* Is there a module wasi: never, under the flag, or always?
Host == [version : Seq(Nat), wasi : {"never", "flag", "always"}]
Symlinks == {"--preserve-symlinks", "--preserve-symlinks-main"}
Flags    == Symlinks \union {"--experimental-wasi-unstable-preview1"}

VARIABLES host,  \* the node there is
          chain  \* its processes
launcherVars == <<host, chain>>

Process(execArgv) == [execArgv |-> execArgv, at |-> "main", status |-> "running"]

LauncherInit ==
    /\ host \in Hosts
    /\ \E execArgv \in SUBSET Flags : chain = <<Process(execArgv)>>

(***************************************************************************)
(* What a process needs.                                                    *)
(***************************************************************************)
HasWasiImport(p) == \/ host.wasi = "always"
                    \/ host.wasi = "flag" /\ "--experimental-wasi-unstable-preview1" \in p.execArgv
HasPreserveSymlinks(p) == Symlinks \subseteq p.execArgv

\* The parts of the version become one number of base 100; 16000 stands for
\* 1.60.0, so that every node there is passes.
VersionNumber == (host.version[1] * 100 + host.version[2]) * 100 + host.version[3]
HasMinimumNode16Version == VersionNumber >= 16000

CanStart(p) == HasWasiImport(p) /\ HasPreserveSymlinks(p) /\ HasMinimumNode16Version

(***************************************************************************)
(* main                                                                     *)
(***************************************************************************)
\* Mutant: one of the flags is not handed on.
FewerAdded == Flags \ {"--preserve-symlinks-main"}
Added == Flags

Current == chain[Len(chain)]
Begins == Current.at = "main"

\* spawnSync blocks until the child ends, or fails without one.
Restart ==
    /\ Begins /\ ~CanStart(Current)
    /\ \/ /\ Len(chain) < MaxProcesses
          /\ chain' = Append([chain EXCEPT ![Len(chain)].at = "waiting"],
                             Process(Current.execArgv \union Added))
       \/ chain' = [chain EXCEPT ![Len(chain)].at = "over", ![Len(chain)].status = "1"]
    /\ UNCHANGED host

Start == /\ Begins /\ CanStart(Current)
         /\ chain' = [chain EXCEPT ![Len(chain)].at = "started"]
         /\ UNCHANGED host

\* The command ends, well or not, or is killed: then there is no status.
Ends == /\ Current.at = "started"
        /\ \E status \in {"0", "1", "null"} :
              chain' = [chain EXCEPT ![Len(chain)].at = "over", ![Len(chain)].status = status]
        /\ UNCHANGED host

\* Mutant: a child that was killed counts as one that went well.
KilledIsFine(status) == IF status = "null" THEN "0" ELSE status
ExitStatus(status)   == IF status = "null" THEN "1" ELSE status

\* process.exit(status ?? 1)
Exit(i) == /\ chain[i].at = "waiting" /\ chain[i + 1].at = "over"
           /\ chain' = [chain EXCEPT ![i].at = "over",
                                     ![i].status = ExitStatus(chain[i + 1].status)]
           /\ UNCHANGED host

LauncherNext == Restart \/ Start \/ Ends \/ \E i \in 1..Len(chain) - 1 : Exit(i)
LauncherSpec == LauncherInit /\ [][LauncherNext]_launcherVars

(* A process that restarts has everything afterwards: it is the second that *)
(* starts the command, whatever flags the first was given.  Only a node     *)
(* without the module wasi restarts itself without end.                     *)
RestartsOnce == Len(chain) > 2 => host.wasi = "never"

(* Through the chain, success is reported only when a command was started   *)
(* and ended well.                                                          *)
SuccessIsReal == \A i \in 1..Len(chain) : chain[i].status = "0" => Current.status = "0"

LauncherKept == RestartsOnce /\ SuccessIsReal
=============================================================================
