--------------------------- MODULE EventBusProofs ---------------------------
(***************************************************************************)
(* Proofs about EventBus, for all events, prefixes and handlers and every  *)
(* bound.                                                                  *)
(***************************************************************************)
EXTENDS EventBus, SequenceTheorems, FiniteSetTheorems, WellFoundedInduction, TLAPS

KindRank(kind) == CASE kind = "exact" -> 1 [] kind = "namespace" -> 2 [] OTHER -> 3

IsHeard(m, i) == \E h \in DOMAIN m.heard : m.heard[h] = i

\* The iterator of emission m has yet to come by subscription i.
Ahead(m, i) ==
    /\ i \in Ids /\ Matches(i, m.event)
    /\ \/ /\ subs[i].kind = "namespace"
          /\ m.at.kind = "exact" \/ (m.at.kind = "namespace" /\ i > m.at.id)
       \/ /\ subs[i].kind = "any"
          /\ m.at.kind # "any" \/ i > m.at.id

\* What is true of an emission between two awaits: the copied listeners that
\* are left are newer than those called; nothing called is beyond the iterator;
\* who is owed a call has had it, is among the listeners left, or lies ahead.
Placed(m) ==
    /\ m \in Emission
    /\ \A t \in m.todo : subs[t].kind \in {"on", "once"}
    /\ m.todo # {} => m.at.kind = "exact"
    /\ \A h \in DOMAIN m.heard :
          /\ Rank(m.heard[h]) <= KindRank(m.at.kind)
          /\ Rank(m.heard[h]) = KindRank(m.at.kind) => m.heard[h] <= m.at.id
          /\ \A t \in m.todo : m.heard[h] < t
    /\ \A i, j \in DOMAIN m.heard : i < j =>
          \/ Rank(m.heard[i]) < Rank(m.heard[j])
          \/ Rank(m.heard[i]) = Rank(m.heard[j]) /\ m.heard[i] < m.heard[j]
    /\ \A i \in m.owed : i \in m.todo \/ IsHeard(m, i) \/ Ahead(m, i)

Good(m) ==
    /\ Placed(m)
    /\ m.done => m.running = None /\ \A i \in m.owed : IsHeard(m, i)

\* The errors of emission m: each was emitted or went to the fallback.
Children(m) == {n \in Emissions : emissions[n].cause = m}
Fallbacks(m) == {f \in DOMAIN fallback : fallback[f] = m}

Counted(m) ==
    emissions[m].failed = Cardinality(Children(m)) + Cardinality(Fallbacks(m))

\* Who reports an error has a listener to report to, and reports no report.
Origin(m) ==
    emissions[m].cause # None =>
      /\ emissions[m].cause \in Emissions
      /\ emissions[m].event = ListenerError
      /\ emissions[m].heard # <<>>
      /\ subs[emissions[m].heard[1]].kind \in {"on", "once"}
      /\ emissions[emissions[m].cause].cause = None

IInv ==
    /\ subs \in Seq(Sub) /\ Len(subs) <= MaxSubs
    /\ \A i, j \in Anys : subs[i].handler = subs[j].handler => i = j
    /\ emissions \in Seq(Emission) /\ Len(emissions) <= MaxEmissions
    /\ \A m \in Emissions : Good(emissions[m])
    /\ fallback \in Seq(Emissions)
    /\ \A m \in Emissions : Origin(m) /\ Counted(m)

LEMMA LeastIs ==
    ASSUME NEW S \in SUBSET Nat, S # {}
    PROVE  Least(S) \in S /\ \A j \in S : Least(S) <= j
<1>. DEFINE R == {ss \in Nat \X Nat : ss[1] < ss[2]}
<1>1. IsWellFoundedOn(R, Nat)
  BY NatLessThanWellFounded DEF OpToRel
<1>2. PICK x \in S : \A y \in S : ~ (<<y, x>> \in R)
  BY <1>1, WFMin
<1>3. ASSUME NEW y \in S PROVE x <= y
  <2>1. x \in Nat /\ y \in Nat /\ ~ (<<y, x>> \in R)
    BY <1>2, <1>3
  <2>2. ~ (y < x)
    BY <2>1
  <2>. QED  BY <2>1, <2>2
<1>. QED  BY <1>2, <1>3 DEF Least

LEMMA SubFacts ==
    ASSUME subs \in Seq(Sub)
    PROVE  /\ Len(subs) \in Nat /\ DOMAIN subs = Ids /\ Ids \subseteq Nat \ {0}
           /\ \A i \in Ids :
                 /\ subs[i] \in Sub
                 /\ subs[i].kind \in {"on", "once", "namespace", "any"}
                 /\ subs[i].kind \in {"on", "once"} => Rank(i) = 1
                 /\ subs[i].kind = "namespace" => Rank(i) = 2
                 /\ subs[i].kind = "any" => Rank(i) = 3
                 /\ Rank(i) \in {1, 2, 3}
<1>1. Len(subs) \in Nat /\ DOMAIN subs = Ids
  BY LenProperties DEF Ids
<1>2. \A i \in Ids : subs[i] \in Sub
  BY <1>1, ElementOfSeq DEF Ids
<1>3. \A i \in Ids : subs[i].kind \in {"on", "once", "namespace", "any"}
  BY <1>2 DEF Sub
<1>. QED  BY <1>1, <1>2, <1>3 DEF Ids, Rank

\* What changes in an emission that calls the handler of subscription id.
LEMMA CallsFields ==
    ASSUME subs \in Seq(Sub), NEW m \in Emission, NEW id \in Ids,
           NEW kind \in {"exact", "namespace", "any"},
           NEW x, x = Calls(m, kind, id)
    PROVE  /\ x \in Emission
           /\ x.event = m.event /\ x.cause = m.cause /\ x.done = m.done
           /\ x.failed = m.failed /\ x.owed = m.owed
           /\ x.todo = m.todo \ {id} /\ x.running = id
           /\ x.at.kind = kind /\ x.at.id = id
           /\ x.heard = Append(m.heard, id)
<1>1. Len(subs) \in Nat /\ id \in Nat /\ id \in 0 .. Len(subs)
  BY SubFacts DEF Ids
<1>2. m.todo \in SUBSET Ids /\ m.heard \in Seq(Ids)
  BY DEF Emission
<1>3. PICK todo \in SUBSET Ids : todo = m.todo \ {id}
  BY <1>2
<1>4. PICK heard \in Seq(Ids) : heard = Append(m.heard, id)
  BY <1>2, AppendProperties
<1>5. PICK at \in [kind : {"exact", "namespace", "any"}, id : Nat] :
         at = [kind |-> kind, id |-> id]
  BY <1>1
<1>6. x = [m EXCEPT !.todo = todo, !.at = at, !.running = id, !.heard = heard]
  BY <1>3, <1>4, <1>5 DEF Calls
<1>7. x \in Emission
  BY <1>1, <1>6 DEF Emission
<1>. QED  BY <1>3, <1>4, <1>5, <1>6, <1>7 DEF Emission

\* What one more call leaves of the history of calls.
LEMMA HeardMore ==
    ASSUME NEW m \in Emission, NEW x \in Emission, NEW id \in Ids,
           x.heard = Append(m.heard, id)
    PROVE  /\ Len(m.heard) \in Nat
           /\ DOMAIN m.heard = 1 .. Len(m.heard)
           /\ DOMAIN x.heard = 1 .. Len(m.heard) + 1
           /\ \A h \in DOMAIN m.heard :
                 m.heard[h] \in Ids /\ h \in DOMAIN x.heard /\ x.heard[h] = m.heard[h]
           /\ x.heard[Len(m.heard) + 1] = id
           /\ \A i : IsHeard(x, i) <=> IsHeard(m, i) \/ i = id
<1>1. m.heard \in Seq(Ids) /\ x.heard \in Seq(Ids)
  BY DEF Emission
<1>2. /\ Len(m.heard) \in Nat /\ DOMAIN m.heard = 1 .. Len(m.heard)
      /\ Len(x.heard) = Len(m.heard) + 1 /\ DOMAIN x.heard = 1 .. Len(m.heard) + 1
      /\ \A h \in 1 .. Len(m.heard) : x.heard[h] = m.heard[h]
      /\ x.heard[Len(m.heard) + 1] = id
      /\ \A h \in 1 .. Len(m.heard) : m.heard[h] \in Ids
  BY <1>1, LenProperties, AppendProperties, ElementOfSeq
<1>3. \A h \in DOMAIN x.heard : h \in DOMAIN m.heard \/ h = Len(m.heard) + 1
  BY <1>2
<1>. QED  BY <1>2, <1>3 DEF IsHeard

\* A handler is called where it belongs: after all that were called, before all
\* that are left.
LEMMA CallsPlaced ==
    ASSUME subs \in Seq(Sub), NEW m, Placed(m), NEW id \in Ids,
           NEW kind \in {"exact", "namespace", "any"}, NEW x, x = Calls(m, kind, id),
           Rank(id) = KindRank(kind),
           \A h \in DOMAIN m.heard :
              \/ Rank(m.heard[h]) < Rank(id)
              \/ Rank(m.heard[h]) = Rank(id) /\ m.heard[h] < id,
           kind # "exact" => m.todo = {},
           \A t \in m.todo : id <= t,
           \A i \in m.owed : Ahead(m, i) => i = id \/ Ahead(x, i)
    PROVE  Placed(x)
<1>1. /\ m \in Emission /\ x \in Emission /\ id \in Nat
      /\ x.owed = m.owed /\ x.todo = m.todo \ {id}
      /\ x.at.kind = kind /\ x.at.id = id /\ x.heard = Append(m.heard, id)
  <2>1. m \in Emission
    BY DEF Placed
  <2>2. id \in Nat
    BY SubFacts
  <2>3. /\ x \in Emission
        /\ x.owed = m.owed /\ x.todo = m.todo \ {id}
        /\ x.at.kind = kind /\ x.at.id = id /\ x.heard = Append(m.heard, id)
    BY <2>1, CallsFields
  <2>. QED  BY <2>1, <2>2, <2>3
<1>2. /\ Len(m.heard) \in Nat /\ DOMAIN m.heard = 1 .. Len(m.heard)
      /\ DOMAIN x.heard = 1 .. Len(m.heard) + 1
      /\ \A h \in DOMAIN m.heard :
            m.heard[h] \in Ids /\ h \in DOMAIN x.heard /\ x.heard[h] = m.heard[h]
      /\ x.heard[Len(m.heard) + 1] = id
      /\ \A i : IsHeard(x, i) <=> IsHeard(m, i) \/ i = id
  BY <1>1, HeardMore
<1>3. \A h \in DOMAIN x.heard : h \in DOMAIN m.heard \/ h = Len(m.heard) + 1
  BY <1>2
<1>4. m.todo \subseteq Ids /\ Ids \subseteq Nat \ {0}
      /\ \A i \in Ids : Rank(i) \in {1, 2, 3}
  BY <1>1, SubFacts DEF Emission
<1>5. \A t \in x.todo : subs[t].kind \in {"on", "once"}
  BY <1>1 DEF Placed
<1>6. x.todo # {} => x.at.kind = "exact"
  BY <1>1
<1>7. ASSUME NEW h \in DOMAIN x.heard
      PROVE  /\ Rank(x.heard[h]) <= KindRank(x.at.kind)
             /\ Rank(x.heard[h]) = KindRank(x.at.kind) => x.heard[h] <= x.at.id
             /\ \A t \in x.todo : x.heard[h] < t
  <2>1. KindRank(x.at.kind) = Rank(id) /\ x.at.id = id
    BY <1>1
  <2>2. CASE h = Len(m.heard) + 1
    <3>1. x.heard[h] = id
      BY <1>2, <2>2
    <3>2. \A t \in x.todo : t \in m.todo /\ t # id /\ id <= t /\ t \in Nat
      BY <1>1, <1>4
    <3>3. \A t \in x.todo : id < t
      BY <1>1, <3>2
    <3>4. Rank(id) <= Rank(id) /\ id <= id
      BY <1>1, <1>4
    <3>. QED  BY <2>1, <3>1, <3>3, <3>4
  <2>3. CASE h \in DOMAIN m.heard
    <3>1. x.heard[h] = m.heard[h] /\ m.heard[h] \in Ids /\ m.heard[h] \in Nat
      BY <1>2, <1>4, <2>3
    <3>2. \A t \in m.todo : m.heard[h] < t
      BY <2>3 DEF Placed
    <3>3. Rank(m.heard[h]) \in {1, 2, 3} /\ Rank(id) \in {1, 2, 3}
      BY <1>4, <3>1
    <3>4. \/ Rank(m.heard[h]) < Rank(id)
          \/ Rank(m.heard[h]) = Rank(id) /\ m.heard[h] < id
      BY <2>3
    <3>5. /\ Rank(m.heard[h]) <= Rank(id)
          /\ Rank(m.heard[h]) = Rank(id) => m.heard[h] <= id
      BY <1>1, <3>1, <3>3, <3>4
    <3>. QED  BY <1>1, <2>1, <3>1, <3>2, <3>5
  <2>. QED  BY <1>3, <2>2, <2>3
<1>8. ASSUME NEW i \in DOMAIN x.heard, NEW j \in DOMAIN x.heard, i < j
      PROVE  \/ Rank(x.heard[i]) < Rank(x.heard[j])
             \/ Rank(x.heard[i]) = Rank(x.heard[j]) /\ x.heard[i] < x.heard[j]
  <2>1. i \in DOMAIN m.heard /\ (j \in DOMAIN m.heard \/ j = Len(m.heard) + 1)
    BY <1>2, <1>3, <1>8
  <2>. QED  BY <1>2, <1>8, <2>1 DEF Placed
<1>9. ASSUME NEW i \in x.owed PROVE i \in x.todo \/ IsHeard(x, i) \/ Ahead(x, i)
  BY <1>1, <1>2 DEF Placed
<1>. QED  BY <1>1, <1>5, <1>6, <1>7, <1>8, <1>9 DEF Placed

LEMMA NextKindCases ==
    ASSUME NEW m
    PROVE  \/ NextKind(m) = "exact" /\ m.todo # {}
           \/ /\ NextKind(m) = "namespace" /\ m.todo = {}
              /\ m.at.kind # "any" /\ Beyond(m, "namespace") # {}
           \/ /\ NextKind(m) = "any" /\ m.todo = {} /\ Beyond(m, "any") # {}
              /\ m.at.kind = "any" \/ Beyond(m, "namespace") = {}
           \/ /\ NextKind(m) = "none" /\ m.todo = {} /\ Beyond(m, "any") = {}
              /\ m.at.kind = "any" \/ Beyond(m, "namespace") = {}
BY DEF NextKind

LEMMA BeyondIs ==
    ASSUME subs \in Seq(Sub), NEW m \in Emission, NEW kind \in {"namespace", "any"},
           Beyond(m, kind) # {}, NEW id, id = Least(Beyond(m, kind))
    PROVE  /\ id \in Ids /\ id \in Nat /\ subs[id].kind = kind /\ Rank(id) = KindRank(kind)
           /\ m.at.kind = kind => id > m.at.id
           /\ \A i \in Beyond(m, kind) : i \in Nat /\ id <= i
<1>1. Ids \subseteq Nat
  BY SubFacts
<1>2. Beyond(m, kind) \in SUBSET Nat
  BY <1>1 DEF Beyond
<1>3. id \in Beyond(m, kind) /\ \A i \in Beyond(m, kind) : id <= i
  BY <1>2, LeastIs
<1>4. id \in Ids /\ subs[id].kind = kind /\ (m.at.kind = kind => id > m.at.id)
  BY <1>3 DEF Beyond
<1>5. Rank(id) = KindRank(kind)
  BY <1>4, SubFacts DEF KindRank
<1>. QED  BY <1>1, <1>2, <1>3, <1>4, <1>5

\* The next handler of a live Set belongs after all that were called, and what
\* was ahead of the iterator stays ahead or is called.
LEMMA IteratorPlaced ==
    ASSUME subs \in Seq(Sub), NEW m, Placed(m), NEW kind \in {"namespace", "any"},
           m.todo = {}, Beyond(m, kind) # {},
           NEW id, id = Least(Beyond(m, kind)), NEW x, x = Calls(m, kind, id),
           kind = "namespace" => m.at.kind # "any",
           kind = "any" => m.at.kind = "any" \/ Beyond(m, "namespace") = {}
    PROVE  Placed(x)
<1>1. m \in Emission
  BY DEF Placed
<1>2. /\ id \in Ids /\ id \in Nat /\ subs[id].kind = kind /\ Rank(id) = KindRank(kind)
      /\ m.at.kind = kind => id > m.at.id
      /\ \A i \in Beyond(m, kind) : i \in Nat /\ id <= i
  BY <1>1, BeyondIs
<1>3. m.at.kind \in {"exact", "namespace", "any"} /\ m.at.id \in Nat
      /\ m.heard \in Seq(Ids)
  BY <1>1 DEF Emission
<1>4. ASSUME NEW h \in DOMAIN m.heard
      PROVE  \/ Rank(m.heard[h]) < Rank(id)
             \/ Rank(m.heard[h]) = Rank(id) /\ m.heard[h] < id
  <2>1. m.heard[h] \in Ids
    BY <1>3, LenProperties, ElementOfSeq
  <2>2. m.heard[h] \in Nat /\ Rank(m.heard[h]) \in {1, 2, 3}
    BY <2>1, SubFacts
  <2>3. /\ Rank(m.heard[h]) <= KindRank(m.at.kind)
        /\ Rank(m.heard[h]) = KindRank(m.at.kind) => m.heard[h] <= m.at.id
    BY DEF Placed
  <2>4. CASE m.at.kind = kind
    BY <1>2, <1>3, <2>2, <2>3, <2>4 DEF KindRank
  <2>5. CASE m.at.kind # kind
    <3>1. KindRank(m.at.kind) < KindRank(kind)
      BY <1>3, <2>5 DEF KindRank
    <3>2. KindRank(m.at.kind) \in Nat /\ KindRank(kind) \in Nat
      BY DEF KindRank
    <3>. QED  BY <1>2, <2>2, <2>3, <3>1, <3>2
  <2>. QED  BY <2>4, <2>5
<1>5. /\ x.event = m.event /\ x.at.kind = kind /\ x.at.id = id
  BY <1>1, <1>2, CallsFields
<1>6. ASSUME NEW i \in m.owed, Ahead(m, i) PROVE i = id \/ Ahead(x, i)
  <2>1. /\ i \in Ids /\ Matches(i, m.event) /\ i \in Nat
    BY <1>6, SubFacts DEF Ahead
  <2>2. CASE subs[i].kind = "namespace"
    <3>1. m.at.kind # "any" /\ i \in Beyond(m, "namespace")
      BY <1>6, <2>1, <2>2 DEF Ahead, Beyond
    <3>2. kind = "namespace" /\ id <= i
      BY <1>2, <3>1
    <3>. QED  BY <1>2, <1>5, <2>1, <2>2, <3>2 DEF Ahead
  <2>3. CASE subs[i].kind = "any"
    <3>1. i \in Beyond(m, "any")
      BY <1>6, <2>1, <2>3 DEF Ahead, Beyond
    <3>2. kind = "any" => id <= i
      BY <1>2, <3>1
    <3>. QED  BY <1>2, <1>5, <2>1, <2>3, <3>2 DEF Ahead
  <2>. QED  BY <1>6, <2>2, <2>3 DEF Ahead
<1>. QED  BY <1>2, <1>4, <1>6, CallsPlaced

\* The oldest copied listener that is left belongs after those called.
LEMMA CopyPlaced ==
    ASSUME subs \in Seq(Sub), NEW m, Placed(m), m.todo # {},
           NEW id, id = Least(m.todo), NEW x, x = Calls(m, "exact", id)
    PROVE  Placed(x) /\ id \in Ids /\ subs[id].kind \in {"on", "once"}
<1>1. m \in Emission /\ m.at.kind = "exact"
  BY DEF Placed
<1>2. m.todo \subseteq Ids /\ Ids \subseteq Nat /\ m.heard \in Seq(Ids)
  BY <1>1, SubFacts DEF Emission
<1>3. m.todo \in SUBSET Nat
  BY <1>2
<1>4. id \in m.todo /\ \A t \in m.todo : id <= t
  BY <1>3, LeastIs
<1>5. id \in Ids /\ subs[id].kind \in {"on", "once"}
  BY <1>2, <1>4 DEF Placed
<1>6. Rank(id) = 1 /\ KindRank("exact") = 1
  BY <1>5, SubFacts DEF KindRank
<1>7. ASSUME NEW h \in DOMAIN m.heard
      PROVE  \/ Rank(m.heard[h]) < Rank(id)
             \/ Rank(m.heard[h]) = Rank(id) /\ m.heard[h] < id
  <2>1. m.heard[h] \in Ids
    BY <1>2, LenProperties, ElementOfSeq
  <2>2. Rank(m.heard[h]) \in {1, 2, 3}
    BY <2>1, SubFacts
  <2>3. Rank(m.heard[h]) <= 1 /\ m.heard[h] < id
    BY <1>1, <1>4, <1>6 DEF Placed
  <2>. QED  BY <1>6, <2>2, <2>3
<1>8. x.event = m.event /\ x.at.kind = "exact" /\ x.at.id = id
  BY <1>1, <1>5, CallsFields
<1>9. \A i \in m.owed : Ahead(m, i) => Ahead(x, i)
  BY <1>1, <1>8 DEF Ahead
<1>10. Placed(x)
  BY <1>4, <1>5, <1>6, <1>7, <1>9, CallsPlaced
<1>. QED  BY <1>5, <1>10

\* An emission that has nobody left to call has called all it owes a call.
LEMMA EndPlaced ==
    ASSUME subs \in Seq(Sub), NEW m, Placed(m), m.todo = {}, Beyond(m, "any") = {},
           m.at.kind = "any" \/ Beyond(m, "namespace") = {},
           NEW x, x = [m EXCEPT !.running = None, !.done = TRUE]
    PROVE  /\ Good(x) /\ x.event = m.event /\ x.cause = m.cause /\ x.failed = m.failed
           /\ x.owed = m.owed /\ x.heard = m.heard
<1>1. m \in Emission /\ Len(subs) \in Nat
  BY SubFacts DEF Placed
<1>2. x \in Emission
  <2>1. None \in 0 .. Len(subs)
    BY <1>1 DEF None
  <2>. QED  BY <1>1, <2>1 DEF Emission
<1>3. /\ x.event = m.event /\ x.cause = m.cause /\ x.failed = m.failed
      /\ x.owed = m.owed /\ x.heard = m.heard /\ x.todo = m.todo /\ x.at = m.at
      /\ x.running = None
  BY <1>1 DEF Emission
<1>4. \A i : Ahead(x, i) <=> Ahead(m, i)
  BY <1>3 DEF Ahead
<1>5. Placed(x)
  BY <1>2, <1>3, <1>4 DEF Placed, IsHeard
<1>6. \A i : ~ Ahead(m, i)
  BY <1>1 DEF Ahead, Beyond
<1>7. \A i \in x.owed : IsHeard(x, i)
  BY <1>3, <1>6 DEF Placed, IsHeard
<1>. QED  BY <1>3, <1>5, <1>7 DEF Good

\* Advancing keeps an emission good, and only adds to what was called; the
\* first handler called is a copied listener when there was one.
LEMMA AdvanceGood ==
    ASSUME subs \in Seq(Sub), NEW m, Placed(m), ~ m.done, NEW x, x = Advance(m)
    PROVE  /\ Good(x) /\ x.event = m.event /\ x.cause = m.cause
           /\ x.failed = m.failed /\ x.owed = m.owed
           /\ m.heard # <<>> => x.heard # <<>> /\ x.heard[1] = m.heard[1]
           /\ m.heard = <<>> /\ m.todo # {} =>
                x.heard # <<>> /\ subs[x.heard[1]].kind \in {"on", "once"}
<1>. DEFINE K == NextKind(m)
<1>1. m \in Emission /\ m.heard \in Seq(Ids)
  BY DEF Placed, Emission
<1>2. ASSUME NEW kind \in {"exact", "namespace", "any"}, NEW id \in Ids,
             x = Calls(m, kind, id), Placed(x),
             m.todo # {} => subs[id].kind \in {"on", "once"}
      PROVE  /\ Good(x) /\ x.event = m.event /\ x.cause = m.cause
             /\ x.failed = m.failed /\ x.owed = m.owed
             /\ m.heard # <<>> => x.heard # <<>> /\ x.heard[1] = m.heard[1]
             /\ m.heard = <<>> /\ m.todo # {} =>
                  x.heard # <<>> /\ subs[x.heard[1]].kind \in {"on", "once"}
  <2>1. /\ x.event = m.event /\ x.cause = m.cause /\ x.done = m.done
        /\ x.failed = m.failed /\ x.owed = m.owed /\ x.heard = Append(m.heard, id)
    <3>1. m \in Emission /\ id \in Ids /\ kind \in {"exact", "namespace", "any"}
      BY <1>1, <1>2
    <3>2. x = Calls(m, kind, id)
      BY <1>2
    <3>. QED  BY <3>1, <3>2, CallsFields
  <2>2. /\ x.heard # <<>>
        /\ m.heard # <<>> => x.heard[1] = m.heard[1]
        /\ m.heard = <<>> => x.heard[1] = id
    BY <1>1, <2>1, AppendProperties, LenProperties, EmptySeq
  <2>. QED  BY <1>2, <2>1, <2>2 DEF Good
<1>3. CASE K = "exact" /\ m.todo # {}
  <2>1. PICK id : id = Least(m.todo)
    OBVIOUS
  <2>2. x = Calls(m, "exact", id)
    BY <1>3, <2>1 DEF Advance
  <2>3. Placed(x) /\ id \in Ids /\ subs[id].kind \in {"on", "once"}
    BY <1>3, <2>1, <2>2, CopyPlaced
  <2>. QED  BY <1>2, <2>2, <2>3
<1>4. CASE K = "namespace" /\ m.todo = {} /\ m.at.kind # "any" /\ Beyond(m, "namespace") # {}
  <2>1. PICK id : id = Least(Beyond(m, "namespace"))
    OBVIOUS
  <2>2. x = Calls(m, "namespace", id)
    BY <1>4, <2>1 DEF Advance
  <2>3. id \in Ids
    BY <1>1, <1>4, <2>1, BeyondIs
  <2>4. Placed(x)
    BY <1>4, <2>1, <2>2, IteratorPlaced
  <2>. QED  BY <1>2, <1>4, <2>2, <2>3, <2>4
<1>5. CASE /\ K = "any" /\ m.todo = {} /\ Beyond(m, "any") # {}
           /\ m.at.kind = "any" \/ Beyond(m, "namespace") = {}
  <2>1. PICK id : id = Least(Beyond(m, "any"))
    OBVIOUS
  <2>2. x = Calls(m, "any", id)
    BY <1>5, <2>1 DEF Advance
  <2>3. id \in Ids
    BY <1>1, <1>5, <2>1, BeyondIs
  <2>4. Placed(x)
    BY <1>5, <2>1, <2>2, IteratorPlaced
  <2>. QED  BY <1>2, <1>5, <2>2, <2>3, <2>4
<1>6. CASE /\ K = "none" /\ m.todo = {} /\ Beyond(m, "any") = {}
           /\ m.at.kind = "any" \/ Beyond(m, "namespace") = {}
  <2>1. x = [m EXCEPT !.running = None, !.done = TRUE]
    BY <1>6 DEF Advance
  <2>2. /\ Good(x) /\ x.event = m.event /\ x.cause = m.cause /\ x.failed = m.failed
        /\ x.owed = m.owed /\ x.heard = m.heard
    BY <1>6, <2>1, EndPlaced
  <2>. QED  BY <1>6, <2>2
<1>. QED  BY <1>3, <1>4, <1>5, <1>6, NextKindCases

\* emitAsync() takes its copy of the exact listeners and calls the first.
LEMMA NewEmissionGood ==
    ASSUME subs \in Seq(Sub), NEW event \in AllEvents, NEW cause \in Nat,
           NEW x, x = NewEmission(event, cause)
    PROVE  /\ Good(x) /\ x.event = event /\ x.cause = cause /\ x.failed = 0
           /\ Exact(event) # {} =>
                x.heard # <<>> /\ subs[x.heard[1]].kind \in {"on", "once"}
<1>1. Len(subs) \in Nat /\ None \in 0 .. Len(subs) /\ None \in Nat
  BY SubFacts DEF None
<1>2. PICK owed \in SUBSET Ids : owed = {i \in Ids : Matches(i, event)}
  OBVIOUS
<1>3. PICK todo \in SUBSET Ids : todo = Exact(event)
  BY DEF Exact
<1>4. PICK at \in [kind : {"exact", "namespace", "any"}, id : Nat] :
         at = [kind |-> "exact", id |-> None]
  BY <1>1
<1>5. PICK m : m = [event |-> event, cause |-> cause, todo |-> todo, at |-> at,
                    running |-> None, done |-> FALSE, failed |-> 0, heard |-> <<>>,
                    owed |-> owed]
  OBVIOUS
<1>6. x = Advance(m)
  BY <1>2, <1>3, <1>4, <1>5 DEF NewEmission
<1>7. <<>> \in Seq(Ids) /\ DOMAIN <<>> = {}
  BY EmptySeq
<1>8. m \in Emission
  BY <1>1, <1>5, <1>7 DEF Emission
<1>9. /\ m.event = event /\ m.cause = cause /\ m.todo = todo /\ m.at.kind = "exact"
      /\ m.done = FALSE /\ m.failed = 0 /\ m.heard = <<>> /\ m.owed = owed
  BY <1>4, <1>5
<1>10. ASSUME NEW i \in m.owed PROVE i \in m.todo \/ Ahead(m, i)
  <2>1. i \in Ids /\ Matches(i, event)
    BY <1>2, <1>9
  <2>2. subs[i].kind \in {"on", "once", "namespace", "any"}
    BY <2>1, SubFacts
  <2>3. CASE subs[i].kind \in {"on", "once"}
    BY <1>3, <1>9, <2>1, <2>3 DEF Matches, Exact
  <2>4. CASE subs[i].kind \in {"namespace", "any"}
    BY <1>9, <2>1, <2>4 DEF Ahead
  <2>. QED  BY <2>2, <2>3, <2>4
<1>11. Placed(m)
  BY <1>3, <1>7, <1>8, <1>9, <1>10 DEF Placed, Exact
<1>. QED  BY <1>3, <1>6, <1>9, <1>11, AdvanceGood

\* Subscriptions come and go, but none changes its kind or what it is to.
SubsKept ==
    /\ subs' \in Seq(Sub)
    /\ \A i \in Ids : i \in Ids' /\ subs'[i].kind = subs[i].kind /\ subs'[i].to = subs[i].to

LEMMA EmissionKept ==
    ASSUME subs \in Seq(Sub), SubsKept, NEW m \in Emission
    PROVE  m \in Emission'
<1>1. Ids \subseteq Ids'
  BY DEF SubsKept
<1>2. m.todo \in SUBSET Ids' /\ m.owed \in SUBSET Ids'
  BY <1>1 DEF Emission
<1>3. m.heard \in Seq(Ids')
  BY <1>1, SeqMonotonic DEF Emission
<1>4. m.running \in 0 .. Len(subs')
  <2>1. Len(subs) \in Nat /\ Len(subs') \in Nat
    BY LenProperties DEF SubsKept
  <2>2. m.running \in 0 .. Len(subs)
    BY DEF Emission
  <2>3. \A i \in 1 .. Len(subs) : i \in 1 .. Len(subs')
    BY <1>1 DEF Ids
  <2>. QED  BY <2>1, <2>2, <2>3
<1>. QED  BY <1>2, <1>3, <1>4 DEF Emission

\* A good emission x is still one when what it is owed is still there.
LEMMA GoodKept ==
    ASSUME subs \in Seq(Sub), SubsKept, NEW m, Good(m), NEW x \in Emission,
           x.event = m.event, x.todo = m.todo, x.at = m.at, x.running = m.running,
           x.done = m.done, x.heard = m.heard, x.owed \subseteq m.owed,
           \A i \in x.owed : i \in m.todo \/ (subs[i].live => subs'[i].live)
    PROVE  Good(x)'
<1>1. m \in Emission /\ x \in Emission'
  BY EmissionKept DEF Good, Placed
<1>2. /\ m.todo \subseteq Ids /\ m.owed \subseteq Ids
      /\ \A h \in DOMAIN m.heard : m.heard[h] \in Ids
  BY <1>1, LenProperties, ElementOfSeq DEF Emission
<1>3. \A i \in Ids : i \in Ids' /\ subs'[i].kind = subs[i].kind /\ subs'[i].to = subs[i].to
  BY DEF SubsKept
<1>4. \A i \in Ids : Rank(i)' = Rank(i)
  BY <1>3 DEF Rank
<1>5. \A t \in x.todo : subs'[t].kind \in {"on", "once"}
  BY <1>2, <1>3 DEF Good, Placed
<1>6. ASSUME NEW h \in DOMAIN x.heard
      PROVE  /\ Rank(x.heard[h])' <= KindRank(x.at.kind)
             /\ Rank(x.heard[h])' = KindRank(x.at.kind) => x.heard[h] <= x.at.id
             /\ \A t \in x.todo : x.heard[h] < t
  BY <1>2, <1>4 DEF Good, Placed
<1>7. ASSUME NEW i \in DOMAIN x.heard, NEW j \in DOMAIN x.heard, i < j
      PROVE  \/ Rank(x.heard[i])' < Rank(x.heard[j])'
             \/ Rank(x.heard[i])' = Rank(x.heard[j])' /\ x.heard[i] < x.heard[j]
  BY <1>2, <1>4, <1>7 DEF Good, Placed
<1>8. ASSUME NEW i \in x.owed PROVE i \in x.todo \/ IsHeard(x, i) \/ Ahead(x, i)'
  <2>1. i \in m.todo \/ IsHeard(m, i) \/ Ahead(m, i)
    BY DEF Good, Placed
  <2>2. CASE Ahead(m, i) /\ i \notin m.todo
    <3>1. i \in Ids /\ Matches(i, m.event) /\ (subs[i].live => subs'[i].live)
      BY <2>2 DEF Ahead
    <3>2. Matches(i, x.event)'
      BY <1>3, <3>1 DEF Matches
    <3>. QED  BY <1>3, <2>2, <3>1, <3>2 DEF Ahead
  <2>. QED  BY <2>1, <2>2 DEF IsHeard
<1>9. Placed(x)'
  BY <1>1, <1>5, <1>6, <1>7, <1>8 DEF Good, Placed, IsHeard
<1>10. x.done => x.running = None /\ \A i \in x.owed : IsHeard(x, i)
  BY DEF Good, IsHeard
<1>. QED  BY <1>9, <1>10 DEF Good, IsHeard

LEMMA EmissionFacts ==
    ASSUME IInv
    PROVE  /\ Len(emissions) \in Nat /\ DOMAIN emissions = Emissions
           /\ \A m \in Emissions :
                 /\ m \in Nat /\ m # None
                 /\ emissions[m] \in Emission
                 /\ emissions[m].heard # <<>> => emissions[m].heard[1] \in Ids
<1>1. Len(emissions) \in Nat /\ DOMAIN emissions = Emissions
  BY LenProperties DEF IInv, Emissions
<1>2. \A m \in Emissions : emissions[m] \in Emission
  BY <1>1, ElementOfSeq DEF IInv, Emissions
<1>3. \A m \in Emissions : m \in Nat /\ m # None
  BY <1>1 DEF Emissions, None
<1>4. ASSUME NEW m \in Emissions, emissions[m].heard # <<>>
      PROVE  emissions[m].heard[1] \in Ids
  <2>1. emissions[m].heard \in Seq(Ids)
    BY <1>2 DEF Emission
  <2>2. Len(emissions[m].heard) \in Nat \ {0}
    BY <1>4, <2>1, LenProperties, EmptySeq
  <2>. QED  BY <2>1, <2>2, ElementOfSeq
<1>. QED  BY <1>1, <1>2, <1>3, <1>4

\* An emission keeps its event, its cause and the first handler it called.
EmissionsKept ==
    \A n \in Emissions :
        /\ n \in Emissions'
        /\ emissions'[n].event = emissions[n].event
        /\ emissions'[n].cause = emissions[n].cause
        /\ emissions[n].heard # <<>> =>
             emissions'[n].heard # <<>> /\ emissions'[n].heard[1] = emissions[n].heard[1]

LEMMA OriginKept ==
    ASSUME IInv, SubsKept, EmissionsKept, NEW m \in Emissions
    PROVE  Origin(m)'
<1>1. Origin(m)
  BY DEF IInv
<1>2. emissions[m].heard # <<>> => emissions[m].heard[1] \in Ids
  BY EmissionFacts
<1>. QED  BY <1>1, <1>2 DEF Origin, SubsKept, EmissionsKept

\* Causes and the fallback name emissions there are.
LEMMA ErrorFacts ==
    ASSUME IInv, NEW m \in Nat
    PROVE  /\ IsFiniteSet(Children(m)) /\ Cardinality(Children(m)) \in Nat
           /\ IsFiniteSet(Fallbacks(m)) /\ Cardinality(Fallbacks(m)) \in Nat
           /\ m \notin Emissions /\ m # None =>
                Cardinality(Children(m)) = 0 /\ Cardinality(Fallbacks(m)) = 0
<1>1. Len(emissions) \in Nat /\ Len(fallback) \in Nat /\ DOMAIN fallback = 1 .. Len(fallback)
  BY EmissionFacts, LenProperties DEF IInv
<1>2. IsFiniteSet(Emissions) /\ IsFiniteSet(DOMAIN fallback)
  BY <1>1, FS_Interval DEF Emissions
<1>3. Children(m) \in SUBSET Emissions /\ Fallbacks(m) \in SUBSET DOMAIN fallback
  BY DEF Children, Fallbacks
<1>4. /\ IsFiniteSet(Children(m)) /\ Cardinality(Children(m)) \in Nat
      /\ IsFiniteSet(Fallbacks(m)) /\ Cardinality(Fallbacks(m)) \in Nat
  BY <1>2, <1>3, FS_Subset, FS_CardinalityType
<1>5. ASSUME m \notin Emissions, m # None
      PROVE  Children(m) = {} /\ Fallbacks(m) = {}
  <2>1. \A n \in Emissions : emissions[n].cause # None => emissions[n].cause \in Emissions
    BY DEF IInv, Origin
  <2>2. \A f \in DOMAIN fallback : fallback[f] \in Emissions
    BY <1>1, ElementOfSeq DEF IInv
  <2>. QED  BY <1>5, <2>1, <2>2 DEF Children, Fallbacks
<1>. QED  BY <1>4, <1>5, FS_EmptySet

\* A step that makes no emission and calls no fallback.
LEMMA CountedKept ==
    ASSUME IInv, EmissionsKept, Emissions' = Emissions, UNCHANGED fallback,
           NEW m \in Emissions, emissions'[m].failed = emissions[m].failed
    PROVE  Counted(m)'
<1>1. Children(m)' = Children(m) /\ Fallbacks(m)' = Fallbacks(m)
  BY DEF Children, Fallbacks, EmissionsKept
<1>2. Counted(m)
  BY DEF IInv
<1>. QED  BY <1>1, <1>2 DEF Counted

LEMMA SubscribeKeeps ==
    ASSUME IInv, NEW kind, NEW to, NEW handler \in Handlers, Subscribe(kind, to, handler),
           [kind |-> kind, to |-> to, handler |-> handler, live |-> TRUE] \in Sub,
           kind = "any" => AddedToSet(handler)
    PROVE  IInv'
<1>1. PICK new \in Sub : new = [kind |-> kind, to |-> to, handler |-> handler, live |-> TRUE]
  OBVIOUS
<1>2. /\ subs \in Seq(Sub) /\ subs' = Append(subs, new) /\ Len(subs) < MaxSubs
      /\ emissions' = emissions /\ fallback' = fallback
  BY <1>1 DEF IInv, Subscribe
<1>3. /\ Len(subs) \in Nat /\ subs' \in Seq(Sub) /\ Len(subs') = Len(subs) + 1
      /\ \A i \in 1 .. Len(subs) : subs'[i] = subs[i]
      /\ subs'[Len(subs) + 1] = new
  BY <1>2, LenProperties, AppendProperties
<1>4. /\ \A i \in Ids : i \in Ids' /\ subs'[i] = subs[i]
      /\ \A i \in Ids' : i \in Ids \/ i = Len(subs) + 1
  BY <1>3 DEF Ids
<1>5. SubsKept
  BY <1>3, <1>4 DEF SubsKept
<1>6. Len(subs') <= MaxSubs
  BY <1>2, <1>3, BusAssumption DEF BusAssumption
<1>7. (\A i, j \in Anys : subs[i].handler = subs[j].handler => i = j)'
  <2>1. \A i \in Anys' : i \in Anys \/ (i = Len(subs) + 1 /\ kind = "any")
    BY <1>1, <1>3, <1>4 DEF Anys
  <2>2. kind = "any" => \A i \in Anys : subs[i].handler # handler
    BY DEF AddedToSet
  <2>3. \A i \in Anys : subs'[i] = subs[i]
    BY <1>4 DEF Anys
  <2>4. subs'[Len(subs) + 1].handler = handler
    BY <1>1, <1>3
  <2>5. ASSUME NEW i \in Anys', NEW j \in Anys', subs'[i].handler = subs'[j].handler
        PROVE  i = j
    BY <2>1, <2>2, <2>3, <2>4, <2>5 DEF IInv
  <2>. QED  BY <2>5
<1>8. Emissions' = Emissions /\ EmissionsKept
  BY <1>2 DEF Emissions, EmissionsKept
<1>9. ASSUME NEW k \in Emissions'
      PROVE  emissions'[k] \in Emission' /\ Good(emissions[k])' /\ Origin(k)' /\ Counted(k)'
  <2>1. PICK m : m = emissions[k]
    OBVIOUS
  <2>2. k \in Emissions /\ m \in Emission /\ Good(m) /\ m = emissions'[k]
    BY <1>2, <1>8, <2>1, EmissionFacts DEF IInv
  <2>3. \A i \in m.owed : i \in Ids
    BY <2>2 DEF Emission
  <2>4. Good(m)'
    BY <1>2, <1>4, <1>5, <2>2, <2>3, GoodKept
  <2>5. emissions'[k] \in Emission' /\ Good(emissions[k])'
    BY <1>2, <1>5, <2>2, <2>4, EmissionKept
  <2>6. Origin(k)'
    BY <1>5, <1>8, <2>2, OriginKept
  <2>7. Counted(k)'
    BY <1>2, <1>8, <2>2, CountedKept
  <2>. QED  BY <2>5, <2>6, <2>7
<1>10. emissions' \in Seq(Emission') /\ fallback' \in Seq(Emissions')
  <2>1. \A m \in Emission : m \in Emission'
    BY <1>2, <1>5, EmissionKept
  <2>2. emissions \in Seq(Emission')
    BY <2>1, SeqMonotonic DEF IInv
  <2>. QED  BY <1>2, <1>8, <2>2 DEF IInv
<1>. QED  BY <1>2, <1>3, <1>6, <1>7, <1>9, <1>10 DEF IInv

LEMMA UnsubscribeKeeps ==
    ASSUME IInv, NEW id \in Ids, Unsubscribe(id)
    PROVE  IInv'
<1>1. /\ subs \in Seq(Sub) /\ subs' = [subs EXCEPT ![id].live = FALSE]
      /\ emissions' = [m \in Emissions |->
                         [emissions[m] EXCEPT !.owed = @ \ ({id} \ emissions[m].todo)]]
      /\ fallback' = fallback
  BY DEF IInv, Unsubscribe
<1>2. PICK old \in Sub : old = subs[id]
  BY <1>1, SubFacts
<1>3. PICK new \in Sub : new = [old EXCEPT !.live = FALSE]
  BY DEF Sub
<1>4. new.kind = old.kind /\ new.to = old.to /\ new.handler = old.handler /\ new.live = FALSE
  BY <1>2, <1>3 DEF Sub
<1>5. subs' = [subs EXCEPT ![id] = new]
  BY <1>1, <1>2, <1>3
<1>6. /\ subs' \in Seq(Sub) /\ Len(subs') = Len(subs) /\ DOMAIN subs = Ids
  <2>1. id \in 1 .. Len(subs) /\ DOMAIN subs = Ids
    BY <1>1, SubFacts DEF Ids
  <2>2. subs \in Seq(Sub)
    BY <1>1
  <2>3. /\ [subs EXCEPT ![id] = new] \in Seq(Sub)
        /\ Len([subs EXCEPT ![id] = new]) = Len(subs)
    BY <2>1, <2>2, ExceptSeq
  <2>. QED  BY <1>5, <2>1, <2>3
<1>7. Ids' = Ids
  BY <1>6 DEF Ids
<1>8. \A i \in Ids : subs'[i] = IF i = id THEN new ELSE subs[i]
  BY <1>5, <1>6
<1>9. SubsKept
  BY <1>2, <1>4, <1>6, <1>7, <1>8 DEF SubsKept
<1>10. (\A i, j \in Anys : subs[i].handler = subs[j].handler => i = j)'
  <2>1. \A i \in Anys' : i \in Anys /\ subs'[i] = subs[i]
    BY <1>4, <1>7, <1>8 DEF Anys
  <2>2. ASSUME NEW i \in Anys', NEW j \in Anys', subs'[i].handler = subs'[j].handler
        PROVE  i = j
    BY <2>1, <2>2 DEF IInv
  <2>. QED  BY <2>2
<1>11. /\ Len(emissions) \in Nat /\ Len(emissions') = Len(emissions)
       /\ DOMAIN emissions' = 1 .. Len(emissions) /\ Emissions' = Emissions
  <2>1. Len(emissions) \in Nat /\ DOMAIN emissions' = 1 .. Len(emissions)
    BY <1>1, EmissionFacts DEF Emissions
  <2>2. Len(emissions') = Len(emissions)
    BY <2>1
  <2>. QED  BY <2>1, <2>2 DEF Emissions
<1>12. ASSUME NEW k \in Emissions
       PROVE  /\ emissions'[k] \in Emission' /\ Good(emissions[k])'
              /\ emissions'[k].event = emissions[k].event
              /\ emissions'[k].cause = emissions[k].cause
              /\ emissions'[k].failed = emissions[k].failed
              /\ emissions'[k].heard = emissions[k].heard
  <2>1. PICK m \in Emission : m = emissions[k] /\ Good(m)
    BY EmissionFacts DEF IInv
  <2>2. PICK owed \in SUBSET Ids : owed = m.owed \ ({id} \ m.todo)
    BY DEF Emission
  <2>3. PICK x \in Emission : x = [m EXCEPT !.owed = owed]
    BY DEF Emission
  <2>4. x = emissions'[k]
    BY <1>1, <2>1, <2>2, <2>3
  <2>5. /\ x.event = m.event /\ x.cause = m.cause /\ x.todo = m.todo /\ x.at = m.at
        /\ x.running = m.running /\ x.done = m.done /\ x.failed = m.failed
        /\ x.heard = m.heard /\ x.owed = owed
    BY <2>3 DEF Emission
  <2>6. \A i \in x.owed : i \in m.todo \/ (subs[i].live => subs'[i].live)
    BY <1>8, <2>2, <2>5
  <2>7. Good(x)'
    BY <1>1, <1>9, <2>1, <2>2, <2>5, <2>6, GoodKept
  <2>8. x \in Emission'
    BY <1>1, <1>9, EmissionKept
  <2>. QED  BY <2>1, <2>4, <2>5, <2>7, <2>8
<1>13. EmissionsKept
  BY <1>11, <1>12 DEF EmissionsKept
<1>14. \A k \in Emissions' : Good(emissions[k])' /\ Origin(k)' /\ Counted(k)'
  <2>1. ASSUME NEW k \in Emissions PROVE Origin(k)'
    BY <1>9, <1>13, OriginKept
  <2>2. ASSUME NEW k \in Emissions PROVE Counted(k)'
    BY <1>1, <1>11, <1>12, <1>13, CountedKept
  <2>. QED  BY <1>11, <1>12, <2>1, <2>2
<1>15. emissions' \in Seq(Emission')
  <2>1. \A k \in 1 .. Len(emissions) : emissions'[k] \in Emission'
    BY <1>12 DEF Emissions
  <2>2. emissions' \in [1 .. Len(emissions) -> Emission']
    BY <1>1, <1>11, <2>1 DEF Emissions
  <2>. QED  BY <1>11, <2>2 DEF Seq
<1>16. Len(subs') <= MaxSubs /\ Len(emissions') <= MaxEmissions
  BY <1>6, <1>11 DEF IInv
<1>17. fallback' \in Seq(Emissions')
  BY <1>1, <1>11 DEF IInv
<1>. QED  BY <1>6, <1>10, <1>14, <1>15, <1>16, <1>17 DEF IInv

\* What a step of emissions has to keep.
LEMMA EmittingKeeps ==
    ASSUME IInv, UNCHANGED subs, EmissionsKept,
           emissions' \in Seq(Emission), Len(emissions') <= MaxEmissions,
           fallback' \in Seq(Emissions'),
           \A n \in Emissions' : Good(emissions'[n]),
           \A n \in Emissions' : n \in Emissions \/ Origin(n)',
           \A n \in Emissions' : Counted(n)'
    PROVE  IInv'
<1>1. subs \in Seq(Sub) /\ Ids' = Ids /\ SubsKept
  BY DEF IInv, SubsKept, Ids
<1>2. Anys' = Anys
  BY <1>1 DEF Anys
<1>3. \A m \in Emission : m \in Emission'
  BY <1>1, EmissionKept
<1>4. emissions' \in Seq(Emission')
  BY <1>3, SeqMonotonic
<1>5. ASSUME NEW n \in Emissions' PROVE Good(emissions[n])'
  <2>1. PICK m : m = emissions'[n]
    OBVIOUS
  <2>2. Good(m) /\ m \in Emission
    BY <2>1 DEF Good, Placed
  <2>3. Good(m)'
    BY <1>1, <2>2, GoodKept
  <2>. QED  BY <2>1, <2>3
<1>6. \A n \in Emissions' : Origin(n)'
  BY <1>1, OriginKept
<1>. QED  BY <1>1, <1>2, <1>4, <1>5, <1>6 DEF IInv

\* Counting an emission more.
LEMMA ChildAdded ==
    ASSUME IInv, EmissionsKept, NEW new, new = Len(emissions) + 1,
           Emissions' = Emissions \cup {new}, UNCHANGED fallback, NEW m \in Nat
    PROVE  /\ Cardinality(Children(m)') =
                Cardinality(Children(m)) + (IF emissions'[new].cause = m THEN 1 ELSE 0)
           /\ Fallbacks(m)' = Fallbacks(m)
<1>1. Len(emissions) \in Nat /\ new \notin Emissions
  BY EmissionFacts DEF Emissions
<1>2. IsFiniteSet(Children(m)) /\ Cardinality(Children(m)) \in Nat /\ new \notin Children(m)
  BY <1>1, ErrorFacts DEF Children
<1>3. CASE emissions'[new].cause = m
  <2>1. Children(m)' = Children(m) \cup {new}
    BY <1>3 DEF Children, EmissionsKept
  <2>2. Cardinality(Children(m) \cup {new}) = Cardinality(Children(m)) + 1
    BY <1>2, FS_AddElement
  <2>. QED  BY <1>3, <2>1, <2>2 DEF Fallbacks
<1>4. CASE emissions'[new].cause # m
  <2>1. Children(m)' = Children(m)
    BY <1>1, <1>4 DEF Children, EmissionsKept
  <2>. QED  BY <1>2, <1>4, <2>1 DEF Fallbacks
<1>. QED  BY <1>3, <1>4

\* Counting a call of the fallback more.
LEMMA FallbackAdded ==
    ASSUME IInv, EmissionsKept, Emissions' = Emissions, NEW k \in Emissions,
           fallback' = Append(fallback, k), NEW m \in Nat
    PROVE  /\ Cardinality(Fallbacks(m)') =
                Cardinality(Fallbacks(m)) + (IF k = m THEN 1 ELSE 0)
           /\ Children(m)' = Children(m)
<1>1. PICK new : new = Len(fallback) + 1
  OBVIOUS
<1>2. /\ Len(fallback) \in Nat /\ DOMAIN fallback = 1 .. Len(fallback)
      /\ DOMAIN fallback' = 1 .. Len(fallback) + 1
      /\ \A f \in 1 .. Len(fallback) : fallback'[f] = fallback[f]
      /\ fallback'[Len(fallback) + 1] = k
  BY AppendProperties, LenProperties DEF IInv
<1>3. /\ DOMAIN fallback' = DOMAIN fallback \cup {new} /\ new \notin DOMAIN fallback
      /\ fallback'[new] = k /\ \A f \in DOMAIN fallback : fallback'[f] = fallback[f]
  BY <1>1, <1>2
<1>4. IsFiniteSet(Fallbacks(m)) /\ Cardinality(Fallbacks(m)) \in Nat /\ new \notin Fallbacks(m)
  BY <1>3, ErrorFacts DEF Fallbacks
<1>5. Children(m)' = Children(m)
  BY DEF Children, EmissionsKept
<1>6. CASE k = m
  <2>1. Fallbacks(m)' = Fallbacks(m) \cup {new}
    BY <1>3, <1>6 DEF Fallbacks
  <2>2. Cardinality(Fallbacks(m) \cup {new}) = Cardinality(Fallbacks(m)) + 1
    BY <1>4, FS_AddElement
  <2>. QED  BY <1>5, <1>6, <2>1, <2>2
<1>7. CASE k # m
  <2>1. Fallbacks(m)' = Fallbacks(m)
    BY <1>3, <1>7 DEF Fallbacks
  <2>. QED  BY <1>4, <1>5, <1>7, <2>1
<1>. QED  BY <1>6, <1>7

LEMMA EmitKeeps ==
    ASSUME IInv, NEW event \in Events, Emit(event)
    PROVE  IInv'
<1>1. PICK x : x = NewEmission(event, None)
  OBVIOUS
<1>2. PICK new : new = Len(emissions) + 1
  OBVIOUS
<1>3. /\ emissions \in Seq(Emission) /\ subs \in Seq(Sub) /\ Len(emissions) < MaxEmissions
      /\ emissions' = Append(emissions, x) /\ subs' = subs /\ fallback' = fallback
  BY <1>1 DEF IInv, Emit
<1>4. Good(x) /\ x \in Emission /\ x.cause = None /\ x.failed = 0
  <2>1. event \in AllEvents /\ None \in Nat
    BY DEF AllEvents, None
  <2>. QED  BY <1>1, <1>3, <2>1, NewEmissionGood DEF Good, Placed
<1>5. /\ Len(emissions) \in Nat /\ emissions' \in Seq(Emission)
      /\ Len(emissions') = Len(emissions) + 1
      /\ \A n \in 1 .. Len(emissions) : emissions'[n] = emissions[n]
      /\ emissions'[new] = x
  BY <1>2, <1>3, <1>4, LenProperties, AppendProperties
<1>6. /\ Emissions' = Emissions \cup {new} /\ \A n \in Emissions : emissions'[n] = emissions[n]
      /\ new \in Nat /\ new # None /\ new \notin Emissions
  BY <1>2, <1>5 DEF Emissions, None
<1>7. EmissionsKept
  BY <1>6 DEF EmissionsKept
<1>8. \A n \in Emissions' : Good(emissions'[n])
  BY <1>4, <1>5, <1>6 DEF IInv
<1>9. Origin(new)'
  BY <1>4, <1>5 DEF Origin
<1>10. ASSUME NEW n \in Emissions' PROVE Counted(n)'
  <2>1. /\ Cardinality(Children(n)') = Cardinality(Children(n))
        /\ Fallbacks(n)' = Fallbacks(n) /\ n \in Nat
    <3>1. n \in Nat /\ n # None
      BY <1>6, EmissionFacts
    <3>2. Cardinality(Children(n)) \in Nat
      BY <3>1, ErrorFacts
    <3>3. /\ Cardinality(Children(n)') = Cardinality(Children(n)) + 0
          /\ Fallbacks(n)' = Fallbacks(n)
      BY <1>2, <1>3, <1>4, <1>5, <1>6, <1>7, <3>1, ChildAdded
    <3>. QED  BY <3>1, <3>2, <3>3
  <2>2. CASE n \in Emissions
    BY <1>6, <2>1, <2>2 DEF Counted, IInv
  <2>3. CASE n = new
    <3>1. Cardinality(Children(n)) = 0 /\ Cardinality(Fallbacks(n)) = 0
      BY <1>6, <2>3, ErrorFacts
    <3>2. emissions'[n].failed = 0
      BY <1>4, <1>5, <2>3
    <3>. QED  BY <2>1, <3>1, <3>2 DEF Counted
  <2>. QED  BY <1>6, <2>2, <2>3
<1>11. fallback' \in Seq(Emissions')
  BY <1>3, <1>6, SeqMonotonic DEF IInv
<1>12. Len(emissions') <= MaxEmissions
  BY <1>3, <1>5, BusAssumption DEF BusAssumption
<1>. QED
  BY <1>3, <1>5, <1>6, <1>7, <1>8, <1>9, <1>10, <1>11, <1>12, EmittingKeeps

\* An emission that awaits a handler, after the handler has settled.
LEMMA Settled ==
    ASSUME IInv, NEW k \in Emissions, emissions[k].running # None,
           NEW failed \in Nat, NEW m, m = [emissions[k] EXCEPT !.failed = failed],
           NEW x, x = Advance(m)
    PROVE  /\ Good(x) /\ x \in Emission /\ x.failed = failed
           /\ x.event = emissions[k].event /\ x.cause = emissions[k].cause
           /\ emissions[k].heard # <<>> => x.heard # <<>> /\ x.heard[1] = emissions[k].heard[1]
<1>1. PICK old \in Emission : old = emissions[k] /\ Good(old)
  BY EmissionFacts DEF IInv
<1>2. m = [old EXCEPT !.failed = failed] /\ m \in Emission
  BY <1>1 DEF Emission
<1>3. /\ m.event = old.event /\ m.cause = old.cause /\ m.todo = old.todo /\ m.at = old.at
      /\ m.running = old.running /\ m.done = old.done /\ m.heard = old.heard
      /\ m.owed = old.owed /\ m.failed = failed
  BY <1>2 DEF Emission
<1>4. \A i : Ahead(m, i) <=> Ahead(old, i)
  BY <1>3 DEF Ahead
<1>5. Placed(m)
  BY <1>1, <1>2, <1>3, <1>4 DEF Good, Placed, IsHeard
<1>6. ~ m.done
  BY <1>1, <1>3 DEF Good
<1>7. subs \in Seq(Sub)
  BY DEF IInv
<1>8. /\ Good(x) /\ x.event = m.event /\ x.cause = m.cause /\ x.failed = m.failed
      /\ m.heard # <<>> => x.heard # <<>> /\ x.heard[1] = m.heard[1]
  BY <1>5, <1>6, <1>7, AdvanceGood
<1>. QED  BY <1>1, <1>3, <1>8 DEF Good, Placed

LEMMA HandlerReturnsKeeps ==
    ASSUME IInv, NEW k \in Emissions, HandlerReturns(k)
    PROVE  IInv'
<1>1. PICK x : x = Advance(emissions[k])
  OBVIOUS
<1>2. /\ emissions \in Seq(Emission) /\ Len(emissions) <= MaxEmissions
      /\ emissions[k].running # None
      /\ emissions' = [emissions EXCEPT ![k] = x] /\ subs' = subs /\ fallback' = fallback
  BY <1>1 DEF IInv, HandlerReturns
<1>3. /\ Good(x) /\ x \in Emission /\ x.failed = emissions[k].failed
      /\ x.event = emissions[k].event /\ x.cause = emissions[k].cause
      /\ emissions[k].heard # <<>> => x.heard # <<>> /\ x.heard[1] = emissions[k].heard[1]
  <2>1. PICK old \in Emission : old = emissions[k]
    BY EmissionFacts
  <2>2. old.failed \in Nat /\ old = [old EXCEPT !.failed = old.failed]
    BY DEF Emission
  <2>. QED  BY <1>1, <1>2, <2>1, <2>2, Settled
<1>4. /\ emissions' \in Seq(Emission) /\ Len(emissions') = Len(emissions)
      /\ Emissions' = Emissions
      /\ \A n \in Emissions : emissions'[n] = IF n = k THEN x ELSE emissions[n]
  <2>1. /\ k \in 1 .. Len(emissions) /\ DOMAIN emissions = Emissions
    BY EmissionFacts DEF Emissions
  <2>2. /\ [emissions EXCEPT ![k] = x] \in Seq(Emission)
        /\ Len([emissions EXCEPT ![k] = x]) = Len(emissions)
    BY <1>2, <1>3, <2>1, ExceptSeq
  <2>. QED  BY <1>2, <2>1, <2>2 DEF Emissions
<1>5. EmissionsKept
  BY <1>3, <1>4 DEF EmissionsKept
<1>6. \A n \in Emissions' : Good(emissions'[n])
  BY <1>3, <1>4 DEF IInv
<1>7. ASSUME NEW n \in Emissions' PROVE Counted(n)'
  <2>1. n \in Emissions /\ emissions'[n].failed = emissions[n].failed
    BY <1>3, <1>4
  <2>. QED  BY <1>2, <1>4, <1>5, <2>1, CountedKept
<1>8. fallback' \in Seq(Emissions') /\ Len(emissions') <= MaxEmissions
  BY <1>2, <1>4 DEF IInv
<1>. QED  BY <1>2, <1>4, <1>5, <1>6, <1>7, <1>8, EmittingKeeps

LEMMA HandlerFailsKeeps ==
    ASSUME IInv, NEW k \in Emissions, HandlerFails(k)
    PROVE  IInv'
<1>1. PICK x : x = Failed(k)
  OBVIOUS
<1>2. /\ emissions \in Seq(Emission) /\ subs \in Seq(Sub) /\ Len(emissions) <= MaxEmissions
      /\ emissions[k].running # None /\ subs' = subs
  BY DEF IInv, HandlerFails
<1>3. PICK old \in Emission : old = emissions[k]
  BY EmissionFacts
<1>4. old.failed \in Nat /\ old.failed + 1 \in Nat
  BY DEF Emission
<1>5. /\ Good(x) /\ x \in Emission /\ x.failed = old.failed + 1
      /\ x.event = old.event /\ x.cause = old.cause
      /\ old.heard # <<>> => x.heard # <<>> /\ x.heard[1] = old.heard[1]
  <2>1. PICK m : m = [old EXCEPT !.failed = old.failed + 1]
    OBVIOUS
  <2>2. x = Advance(m)
    BY <1>1, <1>3, <2>1 DEF Failed
  <2>. QED  BY <1>2, <1>3, <1>4, <2>1, <2>2, Settled
<1>6. PICK settled : settled = [emissions EXCEPT ![k] = x]
  OBVIOUS
<1>7. /\ settled \in Seq(Emission) /\ Len(settled) = Len(emissions)
      /\ \A n \in Emissions : settled[n] = IF n = k THEN x ELSE emissions[n]
      /\ Len(emissions) \in Nat
  <2>1. /\ k \in 1 .. Len(emissions) /\ DOMAIN emissions = Emissions /\ Len(emissions) \in Nat
    BY EmissionFacts DEF Emissions
  <2>. QED  BY <1>2, <1>5, <1>6, <2>1, ExceptSeq
<1>8. \A n \in Emissions : n \in Nat /\ n # None
  BY EmissionFacts
<1>9. \A n \in Emissions : Counted(n) /\ Good(emissions[n]) /\ emissions[n].failed \in Nat
  BY EmissionFacts DEF IInv, Emission
<1>10. CASE ~ Forwarded(old.event)
  <2>1. emissions' = settled /\ fallback' = Append(fallback, k)
    BY <1>1, <1>3, <1>6, <1>10 DEF HandlerFails
  <2>2. Emissions' = Emissions /\ EmissionsKept
    BY <1>3, <1>5, <1>7, <2>1 DEF Emissions, EmissionsKept
  <2>3. \A n \in Emissions' : Good(emissions'[n])
    BY <1>5, <1>7, <1>9, <2>1, <2>2
  <2>4. ASSUME NEW n \in Emissions PROVE Counted(n)'
    <3>1. /\ Cardinality(Children(n)) \in Nat /\ Cardinality(Fallbacks(n)) \in Nat
          /\ Cardinality(Fallbacks(n)') = Cardinality(Fallbacks(n)) + (IF k = n THEN 1 ELSE 0)
          /\ Children(n)' = Children(n)
      BY <1>8, <2>1, <2>2, ErrorFacts, FallbackAdded
    <3>2. emissions'[n].failed = emissions[n].failed + (IF k = n THEN 1 ELSE 0)
      BY <1>3, <1>5, <1>7, <1>9, <2>1
    <3>. QED  BY <1>9, <3>1, <3>2 DEF Counted
  <2>5. fallback' \in Seq(Emissions')
    BY <2>1, <2>2, AppendProperties DEF IInv
  <2>. QED  BY <1>2, <1>7, <2>1, <2>2, <2>3, <2>4, <2>5, EmittingKeeps
<1>11. CASE Forwarded(old.event)
  <2>1. PICK y : y = NewEmission(ListenerError, k)
    OBVIOUS
  <2>2. PICK new : new = Len(emissions) + 1
    OBVIOUS
  <2>3. /\ emissions' = Append(settled, y) /\ fallback' = fallback
        /\ Len(emissions) < MaxEmissions
    BY <1>1, <1>3, <1>6, <1>11, <2>1 DEF HandlerFails
  <2>4. old.event # ListenerError /\ Exact(ListenerError) # {}
    BY <1>11 DEF Forwarded
  <2>5. /\ Good(y) /\ y \in Emission /\ y.event = ListenerError /\ y.cause = k
        /\ y.failed = 0 /\ y.heard # <<>> /\ subs[y.heard[1]].kind \in {"on", "once"}
    <3>1. ListenerError \in AllEvents /\ k \in Nat
      BY <1>8 DEF AllEvents
    <3>. QED  BY <1>2, <2>1, <2>4, <3>1, NewEmissionGood DEF Good, Placed
  <2>6. /\ emissions' \in Seq(Emission) /\ Len(emissions') = Len(emissions) + 1
        /\ \A n \in 1 .. Len(emissions) : emissions'[n] = settled[n]
        /\ emissions'[new] = y
    BY <1>7, <2>2, <2>3, <2>5, AppendProperties
  <2>7. /\ Emissions' = Emissions \cup {new} /\ new \in Nat /\ new # None /\ new \notin Emissions
        /\ \A n \in Emissions : emissions'[n] = IF n = k THEN x ELSE emissions[n]
    BY <1>7, <2>2, <2>6 DEF Emissions, None
  <2>8. EmissionsKept
    BY <1>3, <1>5, <2>7 DEF EmissionsKept
  <2>9. \A n \in Emissions' : Good(emissions'[n])
    BY <1>5, <1>9, <2>5, <2>6, <2>7
  <2>10. Origin(new)'
    <3>1. old.cause = None
      BY <1>3, <2>4 DEF IInv, Origin
    <3>2. k \in Emissions' /\ emissions'[k].cause = None
      BY <1>5, <2>7, <3>1
    <3>. QED  BY <1>2, <2>5, <2>6, <3>2 DEF Origin
  <2>11. ASSUME NEW n \in Emissions' PROVE Counted(n)'
    <3>1. n \in Nat /\ n # None
      BY <1>8, <2>7
    <3>2. /\ Cardinality(Children(n)) \in Nat /\ Cardinality(Fallbacks(n)) \in Nat
          /\ n \notin Emissions =>
               Cardinality(Children(n)) = 0 /\ Cardinality(Fallbacks(n)) = 0
      BY <3>1, ErrorFacts
    <3>3. /\ Cardinality(Children(n)') = Cardinality(Children(n)) + (IF k = n THEN 1 ELSE 0)
          /\ Fallbacks(n)' = Fallbacks(n)
      <4>1. emissions'[new].cause = k
        BY <2>5, <2>6
      <4>. QED  BY <2>2, <2>3, <2>7, <2>8, <3>1, <4>1, ChildAdded
    <3>4. CASE n \in Emissions
      <4>1. emissions'[n].failed = emissions[n].failed + (IF k = n THEN 1 ELSE 0)
        BY <1>3, <1>5, <1>9, <2>7, <3>4
      <4>. QED  BY <1>9, <3>2, <3>3, <3>4, <4>1 DEF Counted
    <3>5. CASE n = new
      <4>1. emissions'[n].failed = 0 /\ k # n /\ n \notin Emissions
        BY <2>5, <2>6, <2>7, <3>5
      <4>. QED  BY <3>2, <3>3, <4>1 DEF Counted
    <3>. QED  BY <2>7, <3>4, <3>5
  <2>12. fallback' \in Seq(Emissions')
    BY <2>3, <2>7, SeqMonotonic DEF IInv
  <2>13. Len(emissions') <= MaxEmissions
    BY <1>7, <2>3, <2>6, BusAssumption DEF BusAssumption
  <2>. QED
    BY <1>2, <2>6, <2>7, <2>8, <2>9, <2>10, <2>11, <2>12, <2>13, EmittingKeeps
<1>. QED  BY <1>10, <1>11

LEMMA IInvInit == Init => IInv
<1>1. /\ \A S : <<>> \in Seq(S)
      /\ Len(<<>>) = 0
  BY EmptySeq
<1>. SUFFICES ASSUME Init PROVE IInv
  OBVIOUS
<1>2. Ids = {} /\ Emissions = {}
  BY <1>1 DEF Init, Ids, Emissions
<1>3. Anys = {}
  BY <1>2 DEF Anys
<1>. QED  BY <1>1, <1>2, <1>3, BusAssumption DEF Init, IInv, BusAssumption

LEMMA IInvStep == IInv /\ [Next]_vars => IInv'
<1>. SUFFICES ASSUME IInv, [Next]_vars PROVE IInv'
  OBVIOUS
<1>1. ASSUME NEW handler \in Handlers, NEW kind \in Methods, NEW event \in AllEvents,
             OnExact(kind, event, handler)
      PROVE  IInv'
  <2>1. kind \in {"on", "once"}
    BY BusAssumption DEF BusAssumption
  <2>2. [kind |-> kind, to |-> event, handler |-> handler, live |-> TRUE] \in Sub
    BY <2>1 DEF Sub
  <2>. QED  BY <1>1, <2>1, <2>2, SubscribeKeeps DEF OnExact
<1>2. ASSUME NEW handler \in Handlers, NEW event \in AllEvents, Off(event, handler)
      PROVE  IInv'
  BY <1>2, UnsubscribeKeeps DEF Off, Exact
<1>3. ASSUME NEW handler \in Handlers, NEW prefix \in Prefixes, OnNamespace(prefix, handler)
      PROVE  IInv'
  <2>1. [kind |-> "namespace", to |-> prefix, handler |-> handler, live |-> TRUE] \in Sub
    BY DEF Sub
  <2>. QED  BY <1>3, <2>1, SubscribeKeeps DEF OnNamespace
<1>4. ASSUME NEW handler \in Handlers, OnAny(handler) PROVE IInv'
  <2>1. [kind |-> "any", to |-> None, handler |-> handler, live |-> TRUE] \in Sub
    BY DEF Sub
  <2>. QED  BY <1>4, <2>1, SubscribeKeeps DEF OnAny
<1>5. ASSUME NEW id \in Ids, OffNamespace(id) \/ OffAny(id) PROVE IInv'
  BY <1>5, UnsubscribeKeeps DEF OffNamespace, OffAny
<1>6. ASSUME NEW event \in Events, Emit(event) PROVE IInv'
  BY <1>6, EmitKeeps
<1>7. ASSUME NEW k \in Emissions, HandlerReturns(k) \/ HandlerFails(k) PROVE IInv'
  BY <1>7, HandlerReturnsKeeps, HandlerFailsKeeps
<1>8. CASE UNCHANGED vars
  <2>1. /\ subs' = subs /\ emissions' = emissions /\ fallback' = fallback
        /\ Emissions' = Emissions /\ EmissionsKept
    BY <1>8 DEF vars, Emissions, EmissionsKept
  <2>2. \A n \in Emissions : Counted(n)'
    BY <2>1, CountedKept
  <2>. QED  BY <2>1, <2>2, EmittingKeeps DEF IInv
<1>. QED
  BY <1>1, <1>2, <1>3, <1>4, <1>5, <1>6, <1>7, <1>8 DEF Next, Subscribing, Unsubscribing

LEMMA IInvAlways == Spec => []IInv
BY IInvInit, IInvStep, PTL DEF Spec

(* Every subscription and emission is well formed, whatever handlers do:   *)
(* an emission that is done awaits nobody, no handler is twice in the Set  *)
(* of wildcard handlers, and the fallback is called for emissions there are.*)
THEOREM TypesHold == Spec => []TypeOK
<1>1. IInv => TypeOK
  BY DEF IInv, TypeOK, Good
<1>. QED  BY <1>1, IInvAlways, PTL

(* emitAsync() calls exact, then namespace, then wildcard handlers, each   *)
(* in the order of registration, so none twice.                            *)
THEOREM CallsInOrder == Spec => []InOrder
<1>1. IInv => InOrder
  BY DEF IInv, InOrder, Good, Placed
<1>. QED  BY <1>1, IInvAlways, PTL

(* emitAsync() reaches everyone who listens from its start to its end.     *)
THEOREM EveryoneHears == Spec => []AllHear
<1>1. IInv => AllHear
  BY DEF IInv, AllHear, Good, IsHeard
<1>. QED  BY <1>1, IInvAlways, PTL

(* Every error of a listener is reported once, to somebody, and reports    *)
(* are not reported again.                                                 *)
THEOREM ErrorsAreReported == Spec => []ErrorsReported
<1>1. IInv => ErrorsReported
  BY DEF IInv, ErrorsReported, Origin, Counted, Children, Fallbacks
<1>. QED  BY <1>1, IInvAlways, PTL

=============================================================================
