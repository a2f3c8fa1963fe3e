------------------------------ MODULE EventBus ------------------------------
(***************************************************************************)
(* The event bus of a process (src/lib/events.ts).                         *)
(*                                                                         *)
(* A subscription is a number, given in the order of registration.  An     *)
(* emission is a call of emitAsync(): it calls handlers one at a time and  *)
(* awaits each, so emissions interleave with each other and with calls of  *)
(* on(), off() and the like; what happens between two awaits is one step.  *)
(* It takes a copy of the exact listeners, but iterates over the live Sets *)
(* of namespace and wildcard handlers.                                     *)
(***************************************************************************)
EXTENDS Naturals, Sequences, FiniteSets

CONSTANTS
    Events,         \* event names; LISTENER_ERROR_EVENT is one more
    Prefixes,       \* prefixes somebody subscribes to
    Covers,         \* prefix -> the events that start with it
    Handlers,       \* handler functions
    Methods,        \* methods used for exact events: on, once
    MaxSubs,        \* bound: subscriptions ever made
    MaxEmits,       \* bound: calls of emit() and emitAsync() by anybody
    MaxEmissions    \* bound: emissions ever made, those of errors included

ListenerError == "listener_error"
AllEvents == Events \cup {ListenerError}

ASSUME BusAssumption ==
    /\ Covers \in [Prefixes -> SUBSET AllEvents]
    /\ Methods \subseteq {"on", "once"}
    /\ MaxSubs \in Nat /\ MaxEmits \in Nat /\ MaxEmissions \in Nat

VARIABLES
    subs,       \* subscription -> what was registered, and whether it still is
    emissions,  \* emission -> where it is
    fallback    \* emissions that called onUnhandledListenerError(), a list

vars == <<subs, emissions, fallback>>

None == 0
Ids == 1 .. Len(subs)
Emissions == 1 .. Len(emissions)

Sub ==
    [kind : {"on", "once"}, to : AllEvents, handler : Handlers, live : BOOLEAN]
      \cup [kind : {"namespace"}, to : Prefixes, handler : Handlers, live : BOOLEAN]
      \cup [kind : {"any"}, to : {None}, handler : Handlers, live : BOOLEAN]

Emission ==
    [event   : AllEvents,
     cause   : Nat,             \* the emission whose listener failed, or None
     todo    : SUBSET Ids,      \* what is left of the copied listeners
     at      : [kind : {"exact", "namespace", "any"}, id : Nat],    \* the iterator
     running : 0 .. Len(subs),  \* whose handler is awaited
     done    : BOOLEAN,
     failed  : Nat,             \* handlers of it that threw or rejected
     heard   : Seq(Ids),        \* history: whose handler was called, in order
     owed    : SUBSET Ids]      \* history: registered for it ever since it began

Init == subs = <<>> /\ emissions = <<>> /\ fallback = <<>>

-----------------------------------------------------------------------------
(* Subscribing.                                                            *)

Subscribe(kind, to, handler) ==
    /\ Len(subs) < MaxSubs
    /\ subs' = Append(subs, [kind |-> kind, to |-> to, handler |-> handler, live |-> TRUE])
    /\ UNCHANGED <<emissions, fallback>>

\* The iterators of emissions skip what is gone; copies of listeners do not.
Unsubscribe(id) ==
    /\ subs' = [subs EXCEPT ![id].live = FALSE]
    /\ emissions' = [m \in Emissions |->
                       [emissions[m] EXCEPT !.owed = @ \ ({id} \ emissions[m].todo)]]
    /\ UNCHANGED fallback

Exact(event) == {i \in Ids : subs[i].live /\ subs[i].kind \in {"on", "once"} /\ subs[i].to = event}

\* once() wraps the handler, but emitAsync() takes the bare function from
\* emitter.listeners() and calls that: nothing ever removes the wrapper.
OnExact(kind, event, handler) == Subscribe(kind, event, handler)

\* off(), and what on() and once() return: the newest registration goes.
Off(event, handler) ==
    \E i \in Exact(event) :
        /\ subs[i].handler = handler
        /\ \A j \in Exact(event) : subs[j].handler = handler => j <= i
        /\ Unsubscribe(i)

OnNamespace(prefix, handler) == Subscribe("namespace", prefix, handler)

OffNamespace(id) ==
    /\ subs[id].live /\ subs[id].kind = "namespace"
    /\ Unsubscribe(id)

Anys == {i \in Ids : subs[i].live /\ subs[i].kind = "any"}

\* Mutant: a handler that is in the set is added again, as to an array.
AddedAgain(handler) == handler \in Handlers

\* Set.add() of a handler that is in the set changes nothing.
AddedToSet(handler) == \A i \in Anys : subs[i].handler # handler

OnAny(handler) ==
    /\ AddedToSet(handler)
    /\ Subscribe("any", None, handler)

OffAny(id) == id \in Anys /\ Unsubscribe(id)

-----------------------------------------------------------------------------
(* Emitting.                                                               *)

Matches(i, event) ==
    /\ subs[i].live
    /\ subs[i].kind = "namespace" => event \in Covers[subs[i].to]
    /\ subs[i].kind \in {"on", "once"} => subs[i].to = event

Least(S) == CHOOSE i \in S : \A j \in S : i <= j

\* Mutant: the iterator is an index and loses its place when an earlier
\* entry goes, as in an array that unsubscribing splices.
BeyondIndex(m, kind) ==
    {i \in Ids : /\ subs[i].kind = kind /\ Matches(i, m.event)
                 /\ Cardinality({j \in 1 .. i : subs[j].live /\ subs[j].kind = kind})
                      > IF m.at.kind = kind
                        THEN Cardinality({h \in DOMAIN m.heard : subs[m.heard[h]].kind = kind})
                        ELSE 0}

\* What the iteration over a live Set has yet to reach.
Beyond(m, kind) ==
    {i \in Ids : /\ subs[i].kind = kind /\ Matches(i, m.event)
                 /\ m.at.kind = kind => i > m.at.id}

\* Mutant: wildcard handlers before namespace handlers.
AnysFirst(m) ==
    IF m.todo # {} THEN "exact"
    ELSE IF m.at.kind # "namespace" /\ Beyond(m, "any") # {} THEN "any"
    ELSE IF Beyond(m, "namespace") # {} THEN "namespace" ELSE "none"

\* Where the next handler comes from.
NextKind(m) ==
    IF m.todo # {} THEN "exact"
    ELSE IF m.at.kind # "any" /\ Beyond(m, "namespace") # {} THEN "namespace"
    ELSE IF Beyond(m, "any") # {} THEN "any" ELSE "none"

Calls(m, kind, id) ==
    [m EXCEPT !.todo = @ \ {id}, !.at = [kind |-> kind, id |-> id],
              !.running = id, !.heard = Append(@, id)]

\* The emission calls its next handler, or resolves.
Advance(m) ==
    LET kind == NextKind(m) IN
    CASE kind = "none" -> [m EXCEPT !.running = None, !.done = TRUE]
      [] kind = "exact" -> Calls(m, "exact", Least(m.todo))
      [] OTHER -> Calls(m, kind, Least(Beyond(m, kind)))

\* emitAsync() up to its first await, which emit() and runHandler() just call.
NewEmission(event, cause) ==
    Advance([event |-> event, cause |-> cause, todo |-> Exact(event),
             at |-> [kind |-> "exact", id |-> None], running |-> None, done |-> FALSE,
             failed |-> 0, heard |-> <<>>, owed |-> {i \in Ids : Matches(i, event)}])

Emit(event) ==
    /\ Len(emissions) < MaxEmissions
    /\ Cardinality({m \in Emissions : emissions[m].cause = None}) < MaxEmits
    /\ emissions' = Append(emissions, NewEmission(event, None))
    /\ UNCHANGED <<subs, fallback>>

\* The handler that m awaits settles well.
HandlerReturns(m) ==
    /\ emissions[m].running # None
    /\ emissions' = [emissions EXCEPT ![m] = Advance(@)]
    /\ UNCHANGED <<subs, fallback>>

\* Mutant: wildcard handlers count as listeners of the error event.
AnyoneListens(event) ==
    event # ListenerError /\ \E i \in Ids : Matches(i, ListenerError)

Forwarded(event) == event # ListenerError /\ Exact(ListenerError) # {}

Failed(m) == Advance([emissions[m] EXCEPT !.failed = @ + 1])

\* It throws or rejects: the error is emitted, or goes to the fallback.
HandlerFails(m) ==
    /\ emissions[m].running # None
    /\ IF Forwarded(emissions[m].event)
       THEN /\ Len(emissions) < MaxEmissions
            /\ emissions' = Append([emissions EXCEPT ![m] = Failed(m)],
                                   NewEmission(ListenerError, m))
            /\ UNCHANGED fallback
       ELSE /\ emissions' = [emissions EXCEPT ![m] = Failed(m)]
            /\ fallback' = Append(fallback, m)
    /\ UNCHANGED subs

-----------------------------------------------------------------------------

Subscribing ==
    \E handler \in Handlers :
        \/ \E kind \in Methods, event \in AllEvents : OnExact(kind, event, handler)
        \/ \E event \in AllEvents : Off(event, handler)
        \/ \E prefix \in Prefixes : OnNamespace(prefix, handler)
        \/ OnAny(handler)

Unsubscribing == \E id \in Ids : OffNamespace(id) \/ OffAny(id)

Next ==
    \/ Subscribing
    \/ Unsubscribing
    \/ \E event \in Events : Emit(event)
    \/ \E m \in Emissions : HandlerReturns(m) \/ HandlerFails(m)

Spec == Init /\ [][Next]_vars

-----------------------------------------------------------------------------
(* Properties.                                                             *)

TypeOK ==
    /\ subs \in Seq(Sub) /\ Len(subs) <= MaxSubs
    /\ emissions \in Seq(Emission) /\ Len(emissions) <= MaxEmissions
    /\ \A m \in Emissions : emissions[m].done => emissions[m].running = None
    /\ fallback \in Seq(Emissions)
    /\ \A i, j \in Anys : subs[i].handler = subs[j].handler => i = j

Rank(id) ==
    CASE subs[id].kind = "namespace" -> 2 [] subs[id].kind = "any" -> 3 [] OTHER -> 1

(* docs/event-system.md:8-9: exact, namespace, wildcard, each in the order *)
(* of registration; so no handler is called twice for one registration,    *)
(* whoever subscribes or unsubscribes while the emission is under way.     *)
InOrder ==
    \A m \in Emissions : \A i, j \in DOMAIN emissions[m].heard :
        LET a == emissions[m].heard[i]
            b == emissions[m].heard[j]
        IN  i < j => Rank(a) < Rank(b) \/ (Rank(a) = Rank(b) /\ a < b)

(* emitAsync() reaches every handler that is registered for the event from *)
(* its start to its end, whatever other handlers come and go or fail.      *)
AllHear ==
    \A m \in Emissions : emissions[m].done =>
        \A i \in emissions[m].owed : \E h \in DOMAIN emissions[m].heard : emissions[m].heard[h] = i

(* docs/event-system.md:180-198: every error of a listener is reported     *)
(* once, to the fallback or by an event that some listener of that event   *)
(* hears; and since errors of those are not emitted again, no error sets   *)
(* off an endless chain of events.                                         *)
ErrorsReported ==
    \A m \in Emissions :
        /\ emissions[m].failed = Cardinality({n \in Emissions : emissions[n].cause = m})
                                   + Cardinality({f \in DOMAIN fallback : fallback[f] = m})
        /\ emissions[m].cause # None =>
             /\ emissions[m].heard # <<>>
             /\ subs[emissions[m].heard[1]].kind \in {"on", "once"}
             /\ emissions[emissions[m].cause].cause = None

(* src/lib/events.ts:122: once() subscribes once.                          *)
OnceOnly ==
    \A i \in Ids : subs[i].kind = "once" =>
        Cardinality({m \in Emissions :
            \E h \in DOMAIN emissions[m].heard : emissions[m].heard[h] = i}) <= 1
=============================================================================
