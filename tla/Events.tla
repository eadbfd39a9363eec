------------------------------- MODULE Events -------------------------------
(***************************************************************************)
(* EventEmitter (src/modules_js/events.js).  Everything is synchronous, and *)
(* everything is re-entrant: a listener that is being called may add,       *)
(* remove and emit, and adding and removing emit themselves ('newListener', *)
(* 'removeListener').  `stack` holds the calls that are under way, `calls`  *)
(* bounds what listeners and clients do.                                    *)
(*                                                                          *)
(* An event has no listener, one (a function) or several (an array, changed *)
(* in place, which a call under way may still hold): `heap` holds arrays.   *)
(* Left out: arguments, domains, the warning about many listeners.          *)
(***************************************************************************)
EXTENDS Naturals, FiniteSets, SequencesExt

CONSTANTS Listeners,  \* functions a client registers
          MaxCalls    \* bound: calls of the emitter's methods
Meta  == {"newListener", "removeListener"}
Types == {"data"} \union Meta

VARIABLES events,  \* _events: how each event's listeners are kept
          count,   \* _eventsCount
          heap,    \* the arrays there are
          fired,   \* the once wrappers that have called their listener
          stack,   \* the calls under way, the innermost first
          calls,   \* calls made so far
          list,    \* history: the listeners of each event, in order
          dropped, \* history: arrays that went with their event, unemptied
          ran      \* history: how often each once wrapper's listener ran
evars == <<events, count, heap, fired, stack, calls, list, dropped, ran>>

(* A listener as it is registered: itself, or a once wrapper of it.         *)
Entry(l, wrapper) == [listener |-> l, wrapper |-> wrapper]
Wrappers == 1..MaxCalls
Undefined == Entry("undefined", 0)

Nobody   == [kind |-> "none", fn |-> Undefined, arr |-> 0]
Only(x)  == [kind |-> "function", fn |-> x, arr |-> 0]
Array(a) == [kind |-> "array", fn |-> Undefined, arr |-> a]
NoEvents == [t \in Types |-> Nobody]

EventsInit == /\ events = NoEvents /\ count = 0 /\ heap = <<>>
              /\ fired = {} /\ stack = <<>> /\ calls = 0
              /\ list = [t \in Types |-> <<>>] /\ dropped = {}
              /\ ran = [w \in Wrappers |-> 0]

Of(t) == CASE events[t].kind = "none"     -> <<>>
           [] events[t].kind = "function" -> <<events[t].fn>>
           [] events[t].kind = "array"    -> heap[events[t].arr]

(***************************************************************************)
(* Frames of the stack.                                                     *)
(***************************************************************************)
Emitting(t)     == [do |-> "emit", type |-> t, rest |-> Of(t), entry |-> Undefined,
                    prepend |-> FALSE, arr |-> 0]
Adding(t, x, p) == [Emitting(t) EXCEPT !.do = "add", !.rest = <<>>, !.entry = x, !.prepend = p]
Removing(t, x)  == [Emitting(t) EXCEPT !.do = "remove", !.rest = <<>>, !.entry = x]
Clearing(t, a)  == [Emitting(t) EXCEPT !.do = "clear", !.rest = <<>>, !.arr = a]
Calling(t, x)   == [Emitting(t) EXCEPT !.do = "call", !.rest = <<>>, !.entry = x]

Top == stack[1]
Below == Tail(stack)
Runs(do) == stack # <<>> /\ Top.do = do
\* The meta event, emitted when somebody listens to it.
Emits(e, t) == IF e[t].kind = "none" THEN <<>> ELSE <<Emitting(t)>>

(***************************************************************************)
(* emit: the array is cloned, and its listeners called one by one.          *)
(***************************************************************************)
Emit == /\ Runs("emit")
        /\ IF Top.rest = <<>> THEN stack' = Below
           ELSE stack' = << Calling(Top.type, Head(Top.rest)) >>
                         \o << [Top EXCEPT !.rest = Tail(@)] >> \o Below
        /\ UNCHANGED <<events, count, heap, fired, calls, list, dropped, ran>>

\* A once wrapper removes itself, and then calls its listener if it has not
\* done so before.
CallListener ==
    /\ Runs("call")
    /\ stack' = (IF Top.entry.wrapper = 0 THEN <<>> ELSE << Removing(Top.type, Top.entry) >>)
                \o << [Top EXCEPT !.do = "called"] >> \o Below
    /\ UNCHANGED <<events, count, heap, fired, calls, list, dropped, ran>>

\* Mutant: the wrapper does not remember that it has called the listener.
CalledAgain ==
    /\ Runs("called")
    /\ stack' = << [Top EXCEPT !.do = "client"] >> \o Below
    /\ ran' = [w \in Wrappers |-> IF w = Top.entry.wrapper THEN ran[w] + 1 ELSE ran[w]]
    /\ UNCHANGED <<events, count, heap, fired, calls, list, dropped>>

Called ==
    /\ Runs("called")
    /\ LET w == Top.entry.wrapper
       IN  IF w = 0 \/ w \in fired
           THEN /\ stack' = << [Top EXCEPT !.do = IF w = 0 THEN "client" ELSE "over"] >> \o Below
                /\ UNCHANGED <<fired, ran>>
           ELSE /\ stack' = << [Top EXCEPT !.do = "client"] >> \o Below
                /\ fired' = fired \union {w}
                /\ ran' = [ran EXCEPT ![w] = @ + 1]
    /\ UNCHANGED <<events, count, heap, calls, list, dropped>>

Return == /\ Runs("client") \/ Runs("over")
          /\ stack' = Below
          /\ UNCHANGED <<events, count, heap, fired, calls, list, dropped, ran>>

(***************************************************************************)
(* _addListener: 'newListener' first, and then _events is read again.       *)
(***************************************************************************)
AddListener ==
    /\ Runs("add")
    /\ LET t == Top.type
           x == Top.entry
           e == events[t]
           two == IF Top.prepend THEN <<x, e.fn>> ELSE <<e.fn, x>>
       IN  /\ CASE e.kind = "none" ->
                      /\ events' = [events EXCEPT ![t] = Only(x)]
                      /\ count' = count + 1 /\ UNCHANGED heap
                [] e.kind = "function" ->
                      /\ heap' = Append(heap, two)
                      /\ events' = [events EXCEPT ![t] = Array(Len(heap) + 1)]
                      /\ UNCHANGED count
                [] e.kind = "array" ->
                      /\ heap' = [heap EXCEPT ![e.arr] =
                                     IF Top.prepend THEN <<x>> \o @ ELSE Append(@, x)]
                      /\ UNCHANGED <<events, count>>
           /\ list' = [list EXCEPT ![t] = IF Top.prepend THEN <<x>> \o @ ELSE Append(@, x)]
    /\ stack' = Below
    /\ UNCHANGED <<fired, calls, dropped, ran>>

(***************************************************************************)
(* removeListener: the last one that is the listener or wraps it.  An array *)
(* of one is left with a hole; the last event takes _events with it, and    *)
(* then nobody is told.                                                     *)
(***************************************************************************)
Matches(x, y) == x = y \/ (y.wrapper = 0 /\ x.wrapper # 0 /\ x.listener = y.listener)
LastMatch(s, y) == LET at == { i \in 1..Len(s) : s[i] # Undefined /\ Matches(s[i], y) }
                   IN  IF at = {} THEN 0 ELSE CHOOSE i \in at : \A j \in at : j <= i

RemoveListener ==
    /\ Runs("remove")
    /\ LET t == Top.type
           e == events[t]
           i == LastMatch(Of(t), Top.entry)
           last == e.kind = "function" \/ Len(Of(t)) = 1
           gone == IF count = 1 THEN NoEvents ELSE [events EXCEPT ![t] = Nobody]
       IN  IF i = 0
           THEN stack' = Below /\ UNCHANGED <<events, count, heap, list>>
           ELSE /\ IF last THEN events' = gone /\ count' = count - 1
                   ELSE UNCHANGED <<events, count>>
                /\ heap' = IF e.kind = "function" THEN heap
                           ELSE [heap EXCEPT ![e.arr] = IF last THEN <<Undefined>>
                                                        ELSE RemoveAt(@, i)]
                /\ list' = [list EXCEPT ![t] = RemoveAt(@, LastMatch(@, Top.entry))]
                \* `events` is the object from before; a deleted event emits nothing
                /\ stack' = (IF last /\ count = 1 THEN <<>>
                             ELSE Emits(IF last THEN gone ELSE events, "removeListener"))
                            \o Below
    /\ UNCHANGED <<fired, calls, dropped, ran>>

(***************************************************************************)
(* removeAllListeners(type).  With somebody listening to 'removeListener'   *)
(* the listeners go one by one, from the last, until the array's first      *)
(* place is empty.                                                          *)
(***************************************************************************)
Clear ==
    /\ Runs("clear")
    /\ LET s == heap[Top.arr]
       IN  stack' = IF s = <<>> \/ s[1] = Undefined THEN Below
                    ELSE << Removing(Top.type, s[Len(s)]) >> \o stack
    /\ UNCHANGED <<events, count, heap, fired, calls, list, dropped, ran>>

RemoveAll(t) ==
    LET e == events[t]
        quiet == events["removeListener"].kind = "none"
    IN  IF quiet
        THEN /\ events' = IF e.kind # "none" /\ count = 1 THEN NoEvents
                          ELSE [events EXCEPT ![t] = Nobody]
             /\ count' = IF e.kind = "none" THEN count ELSE count - 1
             /\ list' = [list EXCEPT ![t] = <<>>]
             /\ dropped' = dropped \union {e.arr}
             /\ UNCHANGED stack
        ELSE /\ stack' = CASE e.kind = "none" -> stack
                           [] e.kind = "function" -> << Removing(t, e.fn) >> \o stack
                           [] e.kind = "array" -> << Clearing(t, e.arr) >> \o stack
             /\ UNCHANGED <<events, count, list, dropped>>

(***************************************************************************)
(* What clients do: at first, and inside a listener that is being called.   *)
(***************************************************************************)
Client ==
    /\ stack = <<>> \/ Runs("client")
    /\ calls < MaxCalls /\ calls' = calls + 1
    /\ \E t \in Types :
          \/ \E l \in Listeners, once, prepend \in BOOLEAN :
                (prepend => t \notin Meta) /\ stack' = Emits(events, "newListener")
                         \o << Adding(t, Entry(l, IF once THEN calls + 1 ELSE 0), prepend) >>
                         \o stack
             /\ UNCHANGED <<events, count, list, dropped>>
          \/ /\ \E l \in Listeners : stack' = << Removing(t, Entry(l, 0)) >> \o stack
             /\ UNCHANGED <<events, count, list, dropped>>
          \/ /\ t \notin Meta /\ stack' = << Emitting(t) >> \o stack
             /\ UNCHANGED <<events, count, list, dropped>>
          \/ RemoveAll(t)
    /\ UNCHANGED <<heap, fired, ran>>

EventsNext == \/ Emit \/ CallListener \/ Called \/ Return
              \/ AddListener \/ RemoveListener \/ Clear \/ Client
EventsSpec == EventsInit /\ [][EventsNext]_evars

(***************************************************************************)
(* Properties.                                                              *)
(***************************************************************************)
EventsTypeOK == /\ count \in 0..Cardinality(Types)
                /\ \A t \in Types : events[t].arr \in 0..Len(heap)
                /\ calls \in 0..MaxCalls

(* However calls are nested, the emitter's own structures are the list of   *)
(* listeners of each event, in order: nothing is kept in an array nobody    *)
(* will read again, no hole is ever called, and _eventsCount is the number  *)
(* of events with a listener.                                               *)
IsTheList ==
    /\ \A t \in Types : Of(t) = list[t]
    /\ count = Cardinality({ t \in Types : list[t] # <<>> })

(* A once listener runs once, even when it is emitted again while it is     *)
(* being removed; and a listener is never called out of an event's order:   *)
(* what an emit still has to call was in the list, in that order, when it   *)
(* began, so nothing it holds is a hole.                                    *)
OnceRunsOnce ==
    /\ \A w \in Wrappers : ran[w] <= 1
    /\ \A k \in 1..Len(stack) : \A j \in 1..Len(stack[k].rest) : stack[k].rest[j] # Undefined

(* removeAllListeners comes to an end: while it takes listeners out of an   *)
(* array, that is the array of the event, or an empty one.  The exception   *)
(* is an array whose event a listener to 'removeListener' has cleared when  *)
(* nobody else listened to that: nothing empties it any more, and the loop  *)
(* of events.js 372-375 goes on for ever.                                   *)
ClearingEnds ==
    \A k \in 1..Len(stack) :
       LET f == stack[k]
       IN  f.do = "clear" => \/ f.arr \in {events[f.type].arr} \union dropped
                             \/ heap[f.arr] = <<Undefined>>

EmitterKept == IsTheList /\ OnceRunsOnce /\ ClearingEnds
=============================================================================
