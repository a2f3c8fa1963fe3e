-------------------------- MODULE ServiceRegistry --------------------------
(***************************************************************************)
(* ServiceRegistry (src/lib/services/service-registry.ts): the services of *)
(* a process by name, and shutdownAll(), which visits them one after the   *)
(* other and awaits each.                                                  *)
(*                                                                         *)
(* The code iterates over the live Map.  A Map is a list of slots that     *)
(* only grows: delete() and clear() empty slots, set() on a present key    *)
(* changes the slot's value in place, and an iterator is a position in the *)
(* list.  What happens between two awaits is one step.                     *)
(***************************************************************************)
EXTENDS RegistryConstants

CONSTANT Callers    \* who may call shutdownAll(), once each

VARIABLES
    slots,      \* the Map: a list of slots
    made,       \* how many services were registered; the last one's identity
    calls       \* caller -> its call of shutdownAll()

vars == <<slots, made, calls>>

NoService == 0

Slot == [name    : Names,
         service : 1 .. made,
         held    : SUBSET (1 .. made),  \* all services it has held (history)
         live    : BOOLEAN]

Call == [status : {"idle", "running", "returned"},
         at     : Nat,                  \* the iterator's position
         waits  : 0 .. made,            \* the service it awaits, or NoService
         asked  : SUBSET (1 .. made)]   \* services it has asked to shut down

NewSlot(name, service) ==
    [name |-> name, service |-> service, held |-> {service}, live |-> TRUE]

Init ==
    /\ slots = [k \in 1 .. Len(Boot) |-> NewSlot(Boot[k], k)]
    /\ made = Len(Boot)
    /\ calls = [c \in Callers |->
                  [status |-> "idle", at |-> 0, waits |-> NoService, asked |-> {}]]

Live == {k \in DOMAIN slots : slots[k].live}

Has(name) == \E k \in Live : slots[k].name = name

-----------------------------------------------------------------------------
(* Registration.                                                           *)

\* register(), or set() of a new name.  (register() of a taken one throws.)
Add(name) ==
    /\ made < MaxInstances /\ ~Has(name)
    /\ made' = made + 1
    /\ slots' = Append(slots, NewSlot(name, made + 1))
    /\ UNCHANGED calls

\* set() of a name that is taken: the slot keeps its place.
Replace(name) ==
    /\ made < MaxInstances /\ Has(name)
    /\ made' = made + 1
    /\ slots' = [k \in DOMAIN slots |->
                   IF slots[k].live /\ slots[k].name = name
                   THEN [slots[k] EXCEPT !.service = made + 1, !.held = @ \cup {made + 1}]
                   ELSE slots[k]]
    /\ UNCHANGED calls

\* delete() and remove().
Delete(name) ==
    /\ Has(name)
    /\ slots' = [k \in DOMAIN slots |->
                   [slots[k] EXCEPT !.live = @ /\ slots[k].name # name]]
    /\ UNCHANGED <<made, calls>>

-----------------------------------------------------------------------------
(* shutdownAll().                                                          *)

Closable(k) == slots[k].live /\ slots[k].name \notin Plain

\* Slots the iterator has yet to stop at; services without a method to call
\* are passed over with a warning.
Ahead(c) == {k \in DOMAIN slots : Closable(k) /\ k > calls[c].at}

\* The loop goes on to the next service and calls it.
Visit(c) ==
    /\ \E k \in Ahead(c) :
         /\ \A l \in Ahead(c) : k <= l
         /\ calls' = [calls EXCEPT ![c] =
                        [status |-> "running", at |-> k, waits |-> slots[k].service,
                         asked |-> @.asked \cup {slots[k].service}]]
    /\ UNCHANGED <<slots, made>>

\* The loop is over: clear(), and the promise resolves.
Finish(c) ==
    /\ Ahead(c) = {}
    /\ slots' = [k \in DOMAIN slots |-> [slots[k] EXCEPT !.live = FALSE]]
    /\ calls' = [calls EXCEPT ![c] = [@ EXCEPT !.status = "returned", !.waits = NoService]]
    /\ UNCHANGED made

Advance(c) == Visit(c) \/ Finish(c)

\* Mutant: the try block is around the loop.
GiveUp(c) ==
    /\ calls' = [calls EXCEPT ![c] = [@ EXCEPT !.status = "returned", !.waits = NoService]]
    /\ UNCHANGED <<slots, made>>

\* The catch block reports the error, and the loop goes on.
AfterError(c) == Advance(c)

Begin(c) ==
    /\ calls[c].status = "idle"
    /\ Advance(c)

\* The promise of the service that c awaits settles.
Settle(c, ok) ==
    /\ calls[c].waits # NoService
    /\ IF ok THEN Advance(c) ELSE AfterError(c)

-----------------------------------------------------------------------------

Application ==
    \E name \in Names :
        \/ Add(name)
        \/ name \in MayReplace /\ Replace(name)
        \/ Delete(name)

Caller(c) == Begin(c) \/ \E ok \in BOOLEAN : Settle(c, ok)

Next == Application \/ \E c \in Callers : Caller(c)

Spec == Init /\ [][Next]_vars

-----------------------------------------------------------------------------
(* Properties.                                                             *)

TypeOK ==
    /\ made \in 0 .. MaxInstances
    /\ slots \in Seq(Slot)
    /\ \A k, l \in Live : slots[k].name = slots[l].name => k = l
    /\ calls \in [Callers -> Call]

\* Call c has asked slot k's service, or one that set() has since replaced.
Asked(c, k) == slots[k].held \cap calls[c].asked # {}

(* docs/service-registry.md:51: shutdownAll() calls a method of each       *)
(* registered service.  When a call returns, it has asked a service under  *)
(* every name that is then registered, whatever failed, was added or was   *)
(* removed and whatever another call of shutdownAll() did in the meantime. *)
(* (A service set() in the place of one that was asked is not asked.)      *)
SweepComplete ==
    [][\A c \in Callers :
          calls[c].status # "returned" /\ calls'[c].status = "returned" =>
             \A k \in DOMAIN slots : Closable(k) => Asked(c, k)]_vars
=============================================================================
