------------------------------ MODULE CommonJS ------------------------------
(***************************************************************************)
(* require: the cache of commonjs.js, and the modules that are being       *)
(* loaded when others are required.                                        *)
(*                                                                         *)
(* A module's script runs to its end within the require that loads it, so  *)
(* the modules being loaded form a stack, last on top.  A module has two   *)
(* exports objects: "empty", made by the constructor, which nobody fills,  *)
(* and "own", the one its script is given, which replaces it in the end.   *)
(***************************************************************************)
EXTENDS Integers, Sequences

CONSTANTS
    Module,     \* what resolve answers: another spelling is another module
    MaxRank     \* to state that there is no cycle

ASSUME RankAssumption == MaxRank \in Nat

VARIABLES
    requires,   \* the program: what may be required while a module is loaded
    cached,     \* the keys of `modules`
    loaded,     \* those with _loaded
    exports,    \* CJSModule.exports
    stack,      \* the modules whose scripts are running
    throwing,   \* an exception is on its way down the stack
    aborted,    \* the program has panicked
    failed,     \* history: the modules whose load has thrown
    runs,       \* history: how often each script was started
    got         \* history: which objects require has answered for each module

vars == <<requires, cached, loaded, exports, stack, throwing, aborted,
          failed, runs, got>>

Init ==
    /\ requires \in SUBSET (Module \X Module)
    /\ cached = {} /\ loaded = {} /\ failed = {}
    /\ exports = [m \in Module |-> "empty"]
    /\ stack = <<>> /\ throwing = FALSE /\ aborted = FALSE
    /\ runs = [m \in Module |-> 0]
    /\ got = [m \in Module |-> {}]

Top       == stack[Len(stack)]
Pop       == SubSeq(stack, 1, Len(stack) - 1)
Runs      == ~throwing /\ ~aborted

\* The main program, and what it leaves behind to be called later, may
\* require anything.
MayRequire(m) == Runs /\ (stack # <<>> => <<Top, m>> \in requires)

\* _loadModule finds the module in the cache.
RequireCached(m) ==
    /\ MayRequire(m) /\ m \in cached
    /\ got' = [got EXCEPT ![m] = @ \cup {exports[m]}]
    /\ UNCHANGED <<requires, cached, loaded, exports, stack, throwing, aborted,
                   failed, runs>>

Starts(m, keys) ==
    /\ MayRequire(m) /\ m \notin cached
    /\ cached' = keys
    /\ stack' = Append(stack, m)
    /\ runs' = [runs EXCEPT ![m] = @ + 1]
    /\ UNCHANGED <<requires, loaded, exports, throwing, aborted, failed, got>>

\* Mutant: the module enters the cache when it is loaded.
LoadUncached(m) == Starts(m, cached)

\* _loadModule and load, up to the call of the script; one that is empty or has a
\* syntax error throws before it begins.
Load(m) == Starts(m, cached \cup {m})

\* sys.require panics when the file cannot be read or parsed, sys.resolve when
\* its extension is unknown.
Panics ==
    /\ \E m \in Module : MayRequire(m) /\ m \notin cached
    /\ aborted' = TRUE
    /\ UNCHANGED <<requires, cached, loaded, exports, stack, throwing, failed,
                   runs, got>>

Ends(object) ==
    /\ Runs /\ stack # <<>>
    /\ exports' = [exports EXCEPT ![Top] = object]
    /\ loaded' = loaded \cup {Top}
    /\ got' = [got EXCEPT ![Top] = @ \cup {object}]
    /\ stack' = Pop
    /\ UNCHANGED <<requires, cached, throwing, aborted, failed, runs>>

\* Mutant: load leaves the exports as they were.
ScriptEndsWithoutExports == Ends("empty")

\* The script returns, and with it load, and with it the require.
ScriptEnds == Ends("own")

\* The script throws, or what it called has thrown and it does not catch it;
\* nothing is taken back.
ScriptThrows ==
    /\ ~aborted /\ stack # <<>>
    /\ throwing' = TRUE
    /\ failed' = failed \cup {Top}
    /\ stack' = Pop
    /\ UNCHANGED <<requires, cached, loaded, exports, aborted, runs, got>>

\* Whoever has called require catches what it threw; if it is the main
\* program, it need not.
Catch ==
    /\ throwing /\ ~aborted
    /\ throwing' = FALSE
    /\ UNCHANGED <<requires, cached, loaded, exports, stack, aborted, failed,
                   runs, got>>

\* Nothing more is required.
Rest == (aborted \/ stack = <<>>) /\ UNCHANGED vars

Next ==
    \/ \E m \in Module : RequireCached(m) \/ Load(m)
    \/ Panics \/ ScriptEnds \/ ScriptThrows \/ Catch \/ Rest

Spec == Init /\ [][Next]_vars

-----------------------------------------------------------------------------

Loading == {stack[i] : i \in 1 .. Len(stack)}

\* Types; every module in the cache is loaded, or has failed, or is being
\* loaded, once.
TypeOK ==
    /\ requires \in SUBSET (Module \X Module)
    /\ exports \in [Module -> {"empty", "own"}]
    /\ stack \in Seq(Module) /\ throwing \in BOOLEAN /\ aborted \in BOOLEAN
    /\ runs \in [Module -> Nat] /\ got \in [Module -> SUBSET {"empty", "own"}]
    /\ \A i, j \in 1 .. Len(stack) : i # j => stack[i] # stack[j]
    /\ cached = loaded \cup failed \cup Loading
    /\ loaded \cap failed = {} /\ Loading \cap (loaded \cup failed) = {}
    /\ cached \subseteq Module

\* No script runs twice, be the requires cyclic, repeated or failing: load
\* enters the module in the cache before it runs the script.
EvaluatedOnce == \A m \in Module : runs[m] <= 1

Ranks(rank) == \A e \in requires : rank[e[2]] < rank[e[1]]

Acyclic == \E rank \in [Module -> 0 .. MaxRank] : Ranks(rank)

\* In a program without cyclic requires, and as long as no load has thrown,
\* require answers every caller with the module's own exports.
AcyclicGetsOwn ==
    Acyclic /\ failed = {} => \A m \in Module : got[m] \subseteq {"own"}

\* README: "proper global `require` function and a `module` object, just like
\* NodeJS", where a module that is still being loaded answers with the object
\* it is filling.
EveryoneGetsOwn == failed = {} => \A m \in Module : got[m] \subseteq {"own"}
=============================================================================
