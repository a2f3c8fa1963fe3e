----------------------- MODULE ServiceRegistryProofs -----------------------
(***************************************************************************)
(* Proofs about ServiceRegistry, for every set of names, every number of   *)
(* callers of shutdownAll() and every bound.                               *)
(***************************************************************************)
EXTENDS ServiceRegistry, SequenceTheorems, TLAPS

\* A slot has held what it holds.
SlotsHold == \A k \in DOMAIN slots : slots[k].service \in slots[k].held

\* An iterator never runs past the list, which only grows; a call waits for a
\* service only while it runs, and has asked none before.
CallsPlaced ==
    \A c \in Callers :
        /\ calls[c].at <= Len(slots)
        /\ calls[c].status = "idle" => calls[c].at = 0 /\ calls[c].asked = {}
        /\ calls[c].status # "running" => calls[c].waits = NoService

\* What SweepComplete needs: nothing closable lies unasked behind an iterator.
SweptBehind ==
    \A c \in Callers, k \in DOMAIN slots :
        Closable(k) /\ k <= calls[c].at => Asked(c, k)

IInv == TypeOK /\ SlotsHold /\ CallsPlaced /\ SweptBehind

\* A function on 1 .. n with values in S is a list of n elements of S.
LEMMA ListOf ==
    ASSUME NEW S, NEW n \in Nat, NEW f \in [1 .. n -> S]
    PROVE  f \in Seq(S) /\ Len(f) = n /\ DOMAIN f = 1 .. n
BY DEF Seq

\* Reading the invariant without sequences.
LEMMA SlotsAreList ==
    ASSUME TypeOK
    PROVE  /\ Len(slots) \in Nat /\ DOMAIN slots = 1 .. Len(slots)
           /\ slots \in [1 .. Len(slots) -> Slot]
           /\ \A k \in DOMAIN slots :
                 /\ slots[k] \in Slot
                 /\ slots[k].name \in Names
                 /\ slots[k].service \in 1 .. made
                 /\ slots[k].held \subseteq 1 .. made
                 /\ slots[k].live \in BOOLEAN
<1>1. slots \in Seq(Slot)
  BY DEF TypeOK
<1>2. Len(slots) \in Nat /\ DOMAIN slots = 1 .. Len(slots)
      /\ slots \in [1 .. Len(slots) -> Slot]
  BY <1>1, LenProperties
<1>. QED  BY <1>2 DEF Slot

\* The list of slots evolves: it may grow, a slot keeps its name and what it
\* has held, an empty slot stays empty.
Evolves ==
    /\ made' \in made .. MaxInstances
    /\ Len(slots') \in Nat /\ DOMAIN slots' = 1 .. Len(slots')
    /\ Len(slots) <= Len(slots')
    /\ \A k \in DOMAIN slots' :
          /\ slots'[k].name \in Names
          /\ slots'[k] \in Slot'
          /\ slots'[k].service \in slots'[k].held
    /\ \A k \in DOMAIN slots :
          /\ slots'[k].name = slots[k].name
          /\ slots[k].held \subseteq slots'[k].held
          /\ slots'[k].live => slots[k].live
    /\ slots' \in Seq(Slot')
    /\ \A k, l \in DOMAIN slots' :
          slots'[k].live /\ slots'[l].live /\ slots'[k].name = slots'[l].name => k = l

\* Whatever happens to the list, no call loses what it has asked.
LEMMA EvolvesKeeps ==
    ASSUME RegistryAssumption, IInv, Evolves, UNCHANGED calls PROVE IInv'
<1>1. TypeOK /\ made \in Nat /\ made' \in Nat /\ made <= made' /\ made' <= MaxInstances
  BY DEF IInv, TypeOK, Evolves, RegistryAssumption
<1>2. Len(slots) \in Nat /\ DOMAIN slots = 1 .. Len(slots)
      /\ DOMAIN slots \subseteq DOMAIN slots'
  BY <1>1, SlotsAreList DEF Evolves
<1>3. calls' \in [Callers -> Call']
  BY <1>1 DEF TypeOK, Call
<1>4. TypeOK'
  BY <1>1, <1>3 DEF Evolves, TypeOK, Live
<1>5. SlotsHold'
  BY DEF Evolves, SlotsHold
<1>6. CallsPlaced'
  BY <1>1, <1>2 DEF IInv, CallsPlaced, Evolves, NoService, TypeOK, Call
<1>7. SweptBehind'
  <2>1. SUFFICES ASSUME NEW c \in Callers, NEW k \in DOMAIN slots', Closable(k)',
                        k <= calls[c].at
                 PROVE  Asked(c, k)'
    BY DEF SweptBehind
  <2>2. calls[c].at <= Len(slots) /\ calls[c].at \in Nat
    BY <1>1 DEF IInv, CallsPlaced, TypeOK, Call
  <2>3. k \in DOMAIN slots
    BY <1>2, <2>1, <2>2 DEF Evolves
  <2>4. Closable(k)
    BY <2>1, <2>3 DEF Closable, Evolves
  <2>5. Asked(c, k)
    BY <2>1, <2>3, <2>4 DEF IInv, SweptBehind
  <2>. QED  BY <2>3, <2>5 DEF Asked, Evolves
<1>. QED  BY <1>4, <1>5, <1>6, <1>7 DEF IInv

\* A list of the same length that keeps every slot's name.
LEMMA SameLengthEvolves ==
    ASSUME RegistryAssumption, IInv, NEW f,
           made' \in made .. MaxInstances,
           f \in [1 .. Len(slots) -> Slot'], slots' = f,
           \A k \in DOMAIN slots :
              /\ f[k].name = slots[k].name
              /\ slots[k].held \subseteq f[k].held
              /\ f[k].service \in f[k].held
              /\ f[k].live => slots[k].live
    PROVE  Evolves
<1>1. TypeOK /\ Len(slots) \in Nat /\ DOMAIN slots = 1 .. Len(slots)
      /\ \A k \in DOMAIN slots : slots[k].name \in Names
  BY SlotsAreList DEF IInv
<1>2. f \in Seq(Slot') /\ Len(f) = Len(slots) /\ DOMAIN f = 1 .. Len(slots)
  BY <1>1, ListOf
<1>. QED  BY <1>1, <1>2 DEF Evolves, TypeOK, Live

LEMMA AddEvolves ==
    ASSUME RegistryAssumption, IInv, NEW name \in Names, Add(name) PROVE Evolves
<1>1. TypeOK /\ made \in Nat /\ MaxInstances \in Nat
  BY DEF IInv, TypeOK, RegistryAssumption
<1>2. /\ made' = made + 1 /\ made' \in made .. MaxInstances
      /\ slots' = Append(slots, NewSlot(name, made + 1))
      /\ \A k \in Live : slots[k].name # name
  BY <1>1 DEF Add, Has
<1>3. PICK new : new = NewSlot(name, made + 1)
  OBVIOUS
<1>4. /\ new \in Slot' /\ new.name = name /\ new.service \in new.held
  BY <1>1, <1>2, <1>3 DEF NewSlot, Slot
<1>5. slots \in Seq(Slot')
  <2>1. slots \in Seq(Slot) /\ Slot \subseteq Slot'
    BY <1>1, <1>2 DEF TypeOK, Slot
  <2>. QED  BY <2>1, SeqMonotonic
<1>6. Len(slots) \in Nat /\ DOMAIN slots = 1 .. Len(slots)
      /\ \A k \in DOMAIN slots : slots[k] \in Slot' /\ slots[k].name \in Names
  BY <1>1, <1>5, SlotsAreList, ElementOfSeq
<1>7. /\ slots' \in Seq(Slot') /\ Len(slots') = Len(slots) + 1
      /\ \A k \in 1 .. Len(slots) : slots'[k] = slots[k]
      /\ slots'[Len(slots) + 1] = new
  BY <1>2, <1>3, <1>4, <1>5, AppendProperties
<1>8. DOMAIN slots' = 1 .. Len(slots) + 1
  BY <1>7, LenProperties
<1>9. \A k \in DOMAIN slots' : k \in DOMAIN slots \/ k = Len(slots) + 1
  BY <1>6, <1>8
<1>10. \A k, l \in DOMAIN slots' :
          slots'[k].live /\ slots'[l].live /\ slots'[k].name = slots'[l].name => k = l
  BY <1>1, <1>2, <1>4, <1>6, <1>7, <1>9 DEF TypeOK, Live
<1>. QED
  BY <1>1, <1>2, <1>4, <1>6, <1>7, <1>8, <1>9, <1>10 DEF Evolves, IInv, SlotsHold

LEMMA ReplaceEvolves ==
    ASSUME RegistryAssumption, IInv, NEW name \in Names, Replace(name) PROVE Evolves
<1>1. TypeOK /\ made \in Nat /\ MaxInstances \in Nat
  BY DEF IInv, TypeOK, RegistryAssumption
<1>2. PICK new \in Nat : new = made + 1
  BY <1>1
<1>3. made' = new /\ new \in 1 .. made' /\ made' \in made .. MaxInstances
  <2>1. made' = new /\ made < MaxInstances
    BY <1>2 DEF Replace
  <2>. QED  BY <1>1, <1>2, <2>1
<1>4. /\ DOMAIN slots = 1 .. Len(slots) /\ Len(slots) \in Nat
      /\ \A k \in DOMAIN slots : slots[k] \in Slot /\ slots[k].held \subseteq 1 .. made
      /\ \A k \in DOMAIN slots : slots[k].service \in slots[k].held
  BY <1>1, SlotsAreList DEF IInv, SlotsHold
<1>5. /\ slots' = [k \in DOMAIN slots |-> slots'[k]]
      /\ \A k \in DOMAIN slots :
            \/ slots'[k] = slots[k]
            \/ slots'[k] = [slots[k] EXCEPT !.service = new, !.held = @ \cup {new}]
  BY <1>2 DEF Replace
<1>6. ASSUME NEW k \in DOMAIN slots
      PROVE  /\ slots'[k] \in Slot' /\ slots'[k].name = slots[k].name
             /\ slots[k].held \subseteq slots'[k].held
             /\ slots'[k].service \in slots'[k].held
             /\ slots'[k].live = slots[k].live
  <2>1. 1 .. made \subseteq 1 .. made'
    BY <1>1, <1>3
  <2>2. slots[k] \in Slot /\ slots[k] \in Slot'
    BY <1>4, <2>1 DEF Slot
  <2>3. CASE slots'[k] = slots[k]
    BY <1>4, <2>2, <2>3
  <2>4. CASE slots'[k] = [slots[k] EXCEPT !.service = new, !.held = @ \cup {new}]
    <3>1. slots[k].held \cup {new} \in SUBSET (1 .. made')
      BY <1>3, <1>4, <2>1
    <3>2. PICK h \in SUBSET (1 .. made') : h = slots[k].held \cup {new}
      BY <3>1
    <3>3. slots'[k] = [slots[k] EXCEPT !.service = new, !.held = h]
      BY <2>4, <3>2
    <3>4. slots'[k] \in Slot'
      BY <1>3, <2>2, <3>3 DEF Slot
    <3>5. /\ slots'[k].name = slots[k].name /\ slots'[k].live = slots[k].live
          /\ slots'[k].held = h /\ slots'[k].service = new
      BY <2>2, <3>3 DEF Slot
    <3>. QED  BY <3>2, <3>4, <3>5
  <2>. QED  BY <1>5, <2>3, <2>4
<1>7. slots' \in [1 .. Len(slots) -> Slot']
  BY <1>4, <1>5, <1>6
<1>. QED  BY <1>3, <1>4, <1>6, <1>7, SameLengthEvolves

\* Slots are emptied: delete() and clear().
LEMMA EmptyEvolves ==
    ASSUME RegistryAssumption, IInv, UNCHANGED made,
           slots' = [k \in DOMAIN slots |-> slots'[k]],
           \A k \in DOMAIN slots :
              \/ slots'[k] = slots[k]
              \/ slots'[k] = [slots[k] EXCEPT !.live = FALSE]
    PROVE  Evolves
<1>1. TypeOK /\ made \in Nat /\ made' \in made .. MaxInstances /\ Slot' = Slot
  BY DEF IInv, TypeOK, RegistryAssumption, Slot
<1>2. /\ DOMAIN slots = 1 .. Len(slots)
      /\ \A k \in DOMAIN slots : slots[k] \in Slot /\ slots[k].service \in slots[k].held
  BY <1>1, SlotsAreList DEF IInv, SlotsHold
<1>3. ASSUME NEW k \in DOMAIN slots
      PROVE  /\ slots'[k] \in Slot' /\ slots'[k].name = slots[k].name
             /\ slots[k].held \subseteq slots'[k].held
             /\ slots'[k].service \in slots'[k].held
             /\ slots'[k].live => slots[k].live
  BY <1>1, <1>2 DEF Slot
<1>4. slots' \in [1 .. Len(slots) -> Slot']
  BY <1>2, <1>3
<1>. QED  BY <1>1, <1>3, <1>4, SameLengthEvolves

LEMMA DeleteEvolves ==
    ASSUME RegistryAssumption, IInv, NEW name, Delete(name) PROVE Evolves
<1>1. /\ UNCHANGED made /\ TypeOK
      /\ slots' = [k \in DOMAIN slots |-> [slots[k] EXCEPT !.live = @ /\ slots[k].name # name]]
  BY DEF Delete, IInv
<1>2. ASSUME NEW k \in DOMAIN slots
      PROVE  \/ slots'[k] = slots[k]
             \/ slots'[k] = [slots[k] EXCEPT !.live = FALSE]
  <2>1. slots[k] \in Slot
    BY <1>1, SlotsAreList
  <2>2. slots'[k] = [slots[k] EXCEPT !.live = slots[k].live /\ slots[k].name # name]
    BY <1>1
  <2>3. CASE slots[k].name # name
    BY <2>1, <2>2, <2>3 DEF Slot
  <2>4. CASE slots[k].name = name
    BY <2>1, <2>2, <2>4 DEF Slot
  <2>. QED  BY <2>3, <2>4
<1>. QED  BY <1>1, <1>2, EmptyEvolves

\* The slots between two services a call stops at have nothing to close.
LEMMA VisitKeeps ==
    ASSUME IInv, NEW c \in Callers, Visit(c) PROVE IInv'
<1>1. TypeOK /\ calls \in [Callers -> Call] /\ UNCHANGED <<slots, made>>
      /\ \A k \in DOMAIN slots : slots[k].service \in slots[k].held
  BY DEF IInv, TypeOK, Visit, SlotsHold
<1>2. PICK k \in Ahead(c) :
         /\ \A l \in Ahead(c) : k <= l
         /\ calls' = [calls EXCEPT ![c] =
                        [status |-> "running", at |-> k, waits |-> slots[k].service,
                         asked |-> calls[c].asked \cup {slots[k].service}]]
  BY DEF Visit
<1>3. /\ Len(slots) \in Nat /\ DOMAIN slots = 1 .. Len(slots) /\ k \in 1 .. Len(slots)
      /\ slots[k].service \in 1 .. made
      /\ calls[c].asked \in SUBSET (1 .. made) /\ calls[c].at \in Nat
  BY <1>1, <1>2, SlotsAreList DEF Ahead, Call
<1>4. /\ calls'[c].status = "running" /\ calls'[c].at = k
      /\ calls'[c].waits = slots[k].service
      /\ calls'[c].asked = calls[c].asked \cup {slots[k].service}
      /\ \A d \in Callers : d # c => calls'[d] = calls[d]
  BY <1>1, <1>2
<1>5. calls'[c] \in Call'
  <2>1. made' = made /\ made \in Nat
    BY <1>1, <1>3 DEF TypeOK
  <2>2. slots[k].service \in 0 .. made /\ k \in Nat
        /\ calls[c].asked \cup {slots[k].service} \in SUBSET (1 .. made)
    BY <1>3, <2>1
  <2>3. calls'[c] = [status |-> "running", at |-> k, waits |-> slots[k].service,
                     asked |-> calls[c].asked \cup {slots[k].service}]
    BY <1>1, <1>2
  <2>. QED  BY <2>1, <2>2, <2>3 DEF Call
<1>6. Call' = Call /\ calls' \in [Callers -> Call']
  BY <1>1, <1>2, <1>5 DEF Call
<1>7. TypeOK'
  BY <1>1, <1>6 DEF TypeOK, Slot, Live
<1>8. SlotsHold'
  BY <1>1 DEF SlotsHold
<1>9. CallsPlaced'
  BY <1>1, <1>3, <1>4 DEF IInv, CallsPlaced, NoService
<1>10. SweptBehind'
  <2>1. SUFFICES ASSUME NEW d \in Callers, NEW l \in DOMAIN slots, Closable(l),
                        l <= calls'[d].at
                 PROVE  Asked(d, l)'
    BY <1>1 DEF SweptBehind, Closable
  <2>2. CASE l <= calls[d].at
    <3>1. Asked(d, l)
      BY <2>1, <2>2 DEF IInv, SweptBehind
    <3>2. calls[d].asked \subseteq calls'[d].asked
      BY <1>4
    <3>. QED  BY <1>1, <3>1, <3>2 DEF Asked
  <2>3. CASE ~(l <= calls[d].at)
    <3>1. d = c /\ l <= k
      BY <1>4, <2>1, <2>3
    <3>2. l \in Ahead(c)
      BY <1>3, <2>1, <2>3, <3>1 DEF Ahead
    <3>3. l = k
      BY <1>2, <1>3, <2>1, <3>1, <3>2
    <3>. QED  BY <1>1, <1>3, <1>4, <3>1, <3>3 DEF Asked
  <2>. QED  BY <2>2, <2>3
<1>. QED  BY <1>7, <1>8, <1>9, <1>10 DEF IInv

LEMMA FinishKeeps ==
    ASSUME RegistryAssumption, IInv, NEW c \in Callers, Finish(c) PROVE IInv'
<1>1. /\ TypeOK /\ calls \in [Callers -> Call] /\ UNCHANGED made /\ made \in Nat
      /\ slots' = [k \in DOMAIN slots |-> [slots[k] EXCEPT !.live = FALSE]]
  BY DEF IInv, TypeOK, Finish
<1>2. Evolves
  BY <1>1, EmptyEvolves
<1>3. PICK q : q = [calls[c] EXCEPT !.status = "returned", !.waits = NoService]
  OBVIOUS
<1>4. /\ calls[c] \in Call /\ calls' = [calls EXCEPT ![c] = q] /\ Call' = Call
      /\ NoService \in 0 .. made
  BY <1>1, <1>3 DEF Finish, Call, NoService
<1>5. q \in Call
  BY <1>3, <1>4 DEF Call
<1>6. q.status = "returned" /\ q.waits = NoService /\ q.at = calls[c].at
  BY <1>3, <1>4 DEF Call
<1>7. calls' \in [Callers -> Call'] /\ calls'[c] = q
      /\ \A d \in Callers : d # c => calls'[d] = calls[d]
  BY <1>1, <1>4, <1>5
<1>8. TypeOK'
  BY <1>1, <1>2, <1>7 DEF Evolves, TypeOK, Live
<1>9. SlotsHold'
  BY <1>2 DEF Evolves, SlotsHold
<1>10. CallsPlaced'
  <2>1. \A d \in Callers : calls'[d].at = calls[d].at /\ calls[d].at \in Nat
    BY <1>1, <1>6, <1>7 DEF Call
  <2>2. Len(slots) \in Nat /\ Len(slots') \in Nat /\ Len(slots) <= Len(slots')
    BY <1>1, <1>2, SlotsAreList DEF Evolves
  <2>3. \A d \in Callers : calls'[d].at <= Len(slots')
    BY <2>1, <2>2 DEF IInv, CallsPlaced
  <2>. QED  BY <1>6, <1>7, <2>3 DEF IInv, CallsPlaced, NoService
<1>11. SweptBehind'
  <2>1. \A k \in DOMAIN slots : slots[k] \in Slot /\ ~slots'[k].live
    BY <1>1, SlotsAreList DEF Slot
  <2>2. DOMAIN slots' = DOMAIN slots
    BY <1>1
  <2>. QED  BY <2>1, <2>2 DEF SweptBehind, Closable
<1>. QED  BY <1>8, <1>9, <1>10, <1>11 DEF IInv

LEMMA IInvInit == RegistryAssumption /\ Init => IInv
<1>1. SUFFICES ASSUME RegistryAssumption, Init PROVE IInv
  OBVIOUS
<1>2. /\ Len(Boot) \in Nat /\ DOMAIN Boot = 1 .. Len(Boot)
      /\ \A k \in 1 .. Len(Boot) : Boot[k] \in Names
      /\ made = Len(Boot) /\ made \in 0 .. MaxInstances
  BY <1>1, LenProperties, ElementOfSeq DEF Init, RegistryAssumption
<1>3. \A k \in 1 .. Len(Boot) :
         /\ slots[k] = NewSlot(Boot[k], k) /\ slots[k] \in Slot
         /\ slots[k].name = Boot[k] /\ slots[k].service \in slots[k].held
  BY <1>1, <1>2 DEF Init, NewSlot, Slot
<1>4. slots \in [1 .. Len(Boot) -> Slot]
  BY <1>1, <1>3 DEF Init
<1>5. slots \in Seq(Slot) /\ Len(slots) = Len(Boot) /\ DOMAIN slots = 1 .. Len(Boot)
  BY <1>2, <1>4, ListOf
<1>6. /\ calls \in [Callers -> Call]
      /\ \A c \in Callers : /\ calls[c].at = 0 /\ calls[c].asked = {}
                            /\ calls[c].waits = NoService
  BY <1>1, <1>2 DEF Init, Call, NoService
<1>7. TypeOK
  BY <1>1, <1>2, <1>3, <1>5, <1>6 DEF TypeOK, Live, RegistryAssumption
<1>8. SlotsHold
  BY <1>3, <1>5 DEF SlotsHold
<1>9. CallsPlaced
  BY <1>2, <1>5, <1>6 DEF CallsPlaced
<1>10. SweptBehind
  BY <1>2, <1>5, <1>6 DEF SweptBehind
<1>. QED  BY <1>7, <1>8, <1>9, <1>10 DEF IInv

LEMMA IInvStep == RegistryAssumption /\ IInv /\ [Next]_vars => IInv'
<1>1. SUFFICES ASSUME RegistryAssumption, IInv, [Next]_vars PROVE IInv'
  OBVIOUS
<1>2. CASE UNCHANGED vars
  BY <1>1, <1>2 DEF vars, IInv, TypeOK, SlotsHold, CallsPlaced, SweptBehind,
                    Slot, Call, Live, Closable, Asked
<1>3. ASSUME NEW name \in Names, Add(name) \/ Replace(name) \/ Delete(name)
      PROVE  IInv'
  <2>1. UNCHANGED calls
    BY <1>3 DEF Add, Replace, Delete
  <2>. QED
    BY <1>1, <1>3, <2>1, AddEvolves, ReplaceEvolves, DeleteEvolves, EvolvesKeeps
<1>4. ASSUME NEW c \in Callers, Caller(c) PROVE IInv'
  <2>1. Visit(c) \/ Finish(c)
    BY <1>4 DEF Caller, Begin, Settle, AfterError, Advance
  <2>. QED  BY <1>1, <2>1, VisitKeeps, FinishKeeps
<1>. QED  BY <1>1, <1>2, <1>3, <1>4 DEF Next, Application

LEMMA IInvAlways == Spec => []IInv
<1>1. RegistryAssumption
  BY RegistryAssumption
<1>. QED  BY <1>1, IInvInit, IInvStep, PTL DEF Spec

\* A call that returns has nothing closable ahead of it, and so nothing that
\* it has not asked.
LEMMA SweepStep ==
    IInv /\ [Next]_vars =>
        [\A c \in Callers :
            calls[c].status # "returned" /\ calls'[c].status = "returned" =>
               \A k \in DOMAIN slots : Closable(k) => Asked(c, k)]_vars
<1>1. SUFFICES ASSUME IInv, Next, NEW c \in Callers,
                      calls[c].status # "returned", calls'[c].status = "returned",
                      NEW k \in DOMAIN slots, Closable(k)
               PROVE  Asked(c, k)
  BY DEF vars
<1>2. calls \in [Callers -> Call] /\ k \in Nat /\ calls[c].at \in Nat
  BY <1>1, SlotsAreList DEF IInv, TypeOK, Call
<1>3. Finish(c)
  <2>1. PICK d \in Callers : Visit(d) \/ Finish(d)
    BY <1>1 DEF Next, Application, Add, Replace, Delete, Caller, Begin, Settle,
                AfterError, Advance
  <2>2. CASE Visit(d)
    BY <1>1, <1>2, <2>2 DEF Visit
  <2>3. CASE Finish(d)
    BY <1>1, <1>2, <2>3 DEF Finish
  <2>. QED  BY <2>1, <2>2, <2>3
<1>4. k <= calls[c].at
  BY <1>1, <1>2, <1>3 DEF Finish, Ahead
<1>. QED  BY <1>1, <1>4 DEF IInv, SweptBehind

\* The registry keeps its shape: at most one live slot per name, and no call
\* waits for or has asked a service that was never registered.
THEOREM TypesHold == Spec => []TypeOK
<1>1. IInv => TypeOK
  BY DEF IInv
<1>. QED  BY <1>1, IInvAlways, PTL

\* shutdownAll() passes over nothing: when a call returns it has asked a
\* service in every slot that has something to close, for any number of
\* concurrent calls and whatever the application does to the map meanwhile.
THEOREM SweepIsComplete == Spec => SweepComplete
<1>. QED  BY IInvAlways, SweepStep, PTL DEF Spec, SweepComplete

=============================================================================
