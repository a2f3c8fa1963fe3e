----------------------- MODULE RequestPipelineProofs -----------------------
(***************************************************************************)
(* Proofs about RequestPipeline, for all routes and modes, any number of   *)
(* SECURITY hooks and of requests.                                         *)
(***************************************************************************)
EXTENDS RequestPipeline, SequenceTheorems, FiniteSetTheorems, WellFoundedInduction, TLAPS

\* createServer() builds the bottom of the stack; what comes later is neither
\* a guard nor a handler that a guard protects.
StackOK ==
    /\ stack \in Seq(Layers)
    /\ \A k, l \in DOMAIN stack : stack[k] = stack[l] => k = l
    /\ Len(BootStack) <= Len(stack)
    /\ \A k \in DOMAIN stack :
         IF k <= Len(BootStack) THEN stack[k] = BootStack[k]
                                ELSE stack[k] \in LateRoutes \cup {"errorHandler"}

HasVerdict(q, guard) == \E i \in DOMAIN q.verdicts : q.verdicts[i].guard = guard

AllowedBy(q, guard) ==
    \E i \in DOMAIN q.verdicts : q.verdicts[i].guard = guard /\ q.verdicts[i].result = "allowed"

ModeAt(k, path) == IF stack[k] = "opsGuard" THEN OpsMode ELSE Mode[path]

\* Guard k has let q through.
Through(q, k) ==
    stack[k] \in Guards /\ Applies(stack[k], q.path)
       => AllowedBy(q, stack[k]) /\ Fits(ModeAt(k, q.path), q.header)

\* Wherever q is in the stack: the guards before it have let it through, those
\* after it have not spoken, and a handler that ran lies behind it.
Walked(q) ==
    /\ q.at \in 0 .. Len(stack)
    /\ \A i, j \in DOMAIN q.verdicts : q.verdicts[i].guard = q.verdicts[j].guard => i = j
    /\ \A k \in DOMAIN stack :
          /\ k > q.at => ~ HasVerdict(q, stack[k])
          /\ k < q.at => Through(q, k)
    /\ "route" \in q.ran =>
          q.path \in Routes /\ \E k \in DOMAIN stack : k <= q.at /\ stack[k] = "route"
    /\ "ops" \in q.ran =>
          q.path \in OpsPaths /\ \E k \in DOMAIN stack : k <= q.at /\ stack[k] = "ops"

\* Nothing has gone wrong for q.
Welcome(q) ==
    /\ \A i \in DOMAIN q.verdicts : q.verdicts[i].result # "denied"
    /\ ~ q.refused /\ q.error = 0

\* q is at a guard that has yet to decide.
AtGuard(q) ==
    /\ q.at \in DOMAIN stack /\ stack[q.at] \in Guards
    /\ Applies(stack[q.at], q.path) /\ ~ HasVerdict(q, stack[q.at])

\* q may go on from where it is.
Cleared(q) == Welcome(q) /\ (q.at \in DOMAIN stack => Through(q, q.at))

Judged(q) ==
    /\ Walked(q)
    /\ q.phase = "none" => q.response = "open" /\ ~ q.closed
    /\ q.phase \in {"verifying", "hooks"} => AtGuard(q) /\ Welcome(q)
    /\ q.phase = "verifying" =>
          GuardMode(q) = "jwt" /\ "jwt" \in enabled /\ q.header \in {"bearer", "forged"}
    /\ q.phase = "hooks" => Fits(GuardMode(q), q.header) /\ GuardMode(q) \in {"none", q.user}
    /\ q.phase = "handling" => Cleared(q) /\ q.ran # {}
    /\ \A i \in DOMAIN q.verdicts : q.verdicts[i].result = "denied" =>
          i = Len(q.verdicts) /\ q.phase = "over" /\ q.error # 0
    /\ q.refused => \E i \in DOMAIN q.verdicts : q.verdicts[i].result = "denied"

\* The counts of answers and of ends of the span fit the response; only handlers
\* send headers and go on.
Tallied(q) ==
    /\ q.answers = IF q.response \in {"ended", "finished"} THEN 1 ELSE 0
    /\ q.response \in {"begun", "cut"} => q.ran # {}

Answered(q) == Tallied(q) /\ (q.error # 0 => q.response # "open")

Spanned(q) ==
    IF q.response = "finished" \/ q.closed
    THEN q.spanEnds = 1 /\ q.listens = {}
    ELSE q.spanEnds = 0 /\ q.listens = {"finish", "close"}

Unfinished ==
    {r \in Requests : requests[r].phase # "none" /\ requests[r].response # "finished"}

IInv ==
    /\ enabled \subseteq {"jwt", "basic"}
    /\ StackOK
    /\ requests \in [Requests -> Request]
    /\ \A r \in Requests :
          Judged(requests[r]) /\ Answered(requests[r]) /\ Spanned(requests[r])
    /\ inFlight = Cardinality(Unfinished)

LEMMA LeastIs ==
    ASSUME NEW S \in SUBSET Nat, S # {}
    PROVE  Least(S) \in S /\ \A k \in S : Least(S) <= k
<1>. DEFINE R == {ss \in Nat \X Nat : ss[1] < ss[2]}
<1>1. IsWellFoundedOn(R, Nat)
  BY NatLessThanWellFounded DEF OpToRel
<1>2. PICK x \in S : \A y \in S : ~ (<<y, x>> \in R)
  BY <1>1, WFMin
<1>3. ASSUME NEW y \in S PROVE x <= y
  <2>1. x \in Nat /\ y \in Nat /\ ~ (<<y, x>> \in R)
    BY <1>2, <1>3
  <2>2. ~ (y < x)
    BY <2>1
  <2>. QED  BY <2>1, <2>2
<1>. QED  BY <1>2, <1>3 DEF Least

LEMMA BootFacts ==
    /\ BootStack \in Seq(Layers)
    /\ Len(BootStack) = IF OpsMode = "off" THEN 2 ELSE IF OpsMode = "none" THEN 3 ELSE 4
    /\ BootStack[1] = "routeGuard" /\ BootStack[2] = "route"
    /\ OpsMode = "none" => BootStack[3] = "ops"
    /\ OpsMode \notin {"off", "none"} => BootStack[3] = "opsGuard" /\ BootStack[4] = "ops"
<1>. DEFINE Base == <<"routeGuard", "route">>
<1>1. /\ Base \in Seq(Layers) /\ Len(Base) = 2
      /\ Base[1] = "routeGuard" /\ Base[2] = "route"
  BY DEF Layers, Guards
<1>2. ASSUME NEW top \in Seq(Layers)
      PROVE  /\ Base \o top \in Seq(Layers)
             /\ Len(Base \o top) = 2 + Len(top)
             /\ (Base \o top)[1] = "routeGuard" /\ (Base \o top)[2] = "route"
             /\ Len(top) >= 1 => (Base \o top)[3] = top[1]
             /\ Len(top) >= 2 => (Base \o top)[4] = top[2]
  <2>1. /\ Base \o top \in Seq(Layers)
        /\ Len(top) \in Nat /\ Len(Base \o top) = 2 + Len(top)
        /\ \A i \in 1 .. 2 + Len(top) :
              (Base \o top)[i] = IF i <= 2 THEN Base[i] ELSE top[i - 2]
    BY <1>1, <1>2, ConcatProperties, LenProperties
  <2>. QED  BY <1>1, <2>1
<1>3. CASE OpsMode = "off"
  <2>1. PICK top : top = <<>>
    OBVIOUS
  <2>2. BootStack = Base \o top /\ top \in Seq(Layers) /\ 2 + Len(top) = 2
    BY <1>3, <2>1 DEF BootStack
  <2>3. BootStack \in Seq(Layers) /\ Len(BootStack) = 2
        /\ BootStack[1] = "routeGuard" /\ BootStack[2] = "route"
    BY <1>2, <2>2
  <2>. QED  BY <1>3, <2>3
<1>4. CASE OpsMode = "none"
  <2>1. PICK top : top = <<"ops">>
    OBVIOUS
  <2>2. BootStack = Base \o top /\ top \in Seq(Layers) /\ Len(top) = 1 /\ top[1] = "ops"
    BY <1>4, <2>1 DEF BootStack, Layers
  <2>3. Len(top) >= 1 /\ 2 + Len(top) = 3
    BY <2>2
  <2>4. /\ BootStack \in Seq(Layers) /\ Len(BootStack) = 3
        /\ BootStack[1] = "routeGuard" /\ BootStack[2] = "route" /\ BootStack[3] = "ops"
    BY <1>2, <2>2, <2>3
  <2>. QED  BY <1>4, <2>4
<1>5. CASE OpsMode \notin {"off", "none"}
  <2>1. PICK top : top = <<"opsGuard", "ops">>
    OBVIOUS
  <2>2. /\ BootStack = Base \o top /\ top \in Seq(Layers) /\ Len(top) = 2
        /\ top[1] = "opsGuard" /\ top[2] = "ops"
    BY <1>5, <2>1 DEF BootStack, Layers, Guards
  <2>3. Len(top) >= 1 /\ Len(top) >= 2 /\ 2 + Len(top) = 4
    BY <2>2
  <2>4. /\ BootStack \in Seq(Layers)
        /\ Len(BootStack) = 4 /\ BootStack[1] = "routeGuard" /\ BootStack[2] = "route"
        /\ BootStack[3] = "opsGuard" /\ BootStack[4] = "ops"
    BY <1>2, <2>2, <2>3
  <2>. QED  BY <1>5, <2>4
<1>. QED  BY <1>3, <1>4, <1>5

\* A guard lies before what it protects.
LEMMA StackFacts ==
    ASSUME StackOK
    PROVE  /\ Len(stack) \in Nat /\ DOMAIN stack = 1 .. Len(stack)
           /\ \A k \in DOMAIN stack :
                 /\ stack[k] \in Layers
                 /\ stack[k] = "route" => 1 \in DOMAIN stack /\ stack[1] = "routeGuard" /\ 1 < k
                 /\ stack[k] = "opsGuard" => OpsMode \in Modes
                 /\ stack[k] = "ops" /\ OpsMode # "none" =>
                      3 \in DOMAIN stack /\ stack[3] = "opsGuard" /\ 3 < k
<1>1. Len(stack) \in Nat /\ DOMAIN stack = 1 .. Len(stack)
  BY LenProperties DEF StackOK
<1>2. \A k \in DOMAIN stack : stack[k] \in Layers
  BY <1>1, ElementOfSeq DEF StackOK
<1>3. "route" \notin LateRoutes /\ "ops" \notin LateRoutes /\ "opsGuard" \notin LateRoutes
  BY PipelineAssumption DEF PipelineAssumption, Guards
<1>4. ASSUME NEW k \in DOMAIN stack, stack[k] \in {"route", "ops", "opsGuard"}
      PROVE  k <= Len(BootStack) /\ stack[k] = BootStack[k]
  BY <1>3, <1>4 DEF StackOK
<1>5. OpsMode \in {"none", "basic", "jwt", "off"}
  BY PipelineAssumption DEF PipelineAssumption, Modes
<1>6. ASSUME NEW k \in DOMAIN stack
      PROVE  /\ stack[k] = "route" => 1 \in DOMAIN stack /\ stack[1] = "routeGuard" /\ 1 < k
             /\ stack[k] = "opsGuard" => OpsMode \in Modes
             /\ stack[k] = "ops" /\ OpsMode # "none" =>
                  3 \in DOMAIN stack /\ stack[3] = "opsGuard" /\ 3 < k
  <2>1. CASE OpsMode = "off"
    <3>1. Len(BootStack) = 2 /\ BootStack[1] = "routeGuard" /\ BootStack[2] = "route"
      BY <2>1, BootFacts
    <3>2. stack[1] = "routeGuard" /\ stack[2] = "route" /\ 1 \in DOMAIN stack
      BY <1>1, <3>1 DEF StackOK
    <3>. QED  BY <1>1, <1>4, <3>1, <3>2
  <2>2. CASE OpsMode = "none"
    <3>1. /\ Len(BootStack) = 3 /\ BootStack[1] = "routeGuard" /\ BootStack[2] = "route"
          /\ BootStack[3] = "ops"
      BY <2>2, BootFacts
    <3>2. stack[1] = "routeGuard" /\ 1 \in DOMAIN stack
      BY <1>1, <3>1 DEF StackOK
    <3>. QED  BY <1>1, <1>4, <2>2, <3>1, <3>2 DEF Modes
  <2>3. CASE OpsMode \in {"basic", "jwt"}
    <3>1. /\ Len(BootStack) = 4 /\ BootStack[1] = "routeGuard" /\ BootStack[2] = "route"
          /\ BootStack[3] = "opsGuard" /\ BootStack[4] = "ops"
      BY <2>3, BootFacts
    <3>2. /\ stack[1] = "routeGuard" /\ 1 \in DOMAIN stack
          /\ stack[3] = "opsGuard" /\ 3 \in DOMAIN stack
      BY <1>1, <3>1 DEF StackOK
    <3>. QED  BY <1>1, <1>4, <2>3, <3>1, <3>2 DEF Modes
  <2>. QED  BY <1>5, <2>1, <2>2, <2>3
<1>. QED  BY <1>1, <1>2, <1>6

\* What of a request its walk leaves alone.
Same(q, p) ==
    /\ p.path = q.path /\ p.header = q.header /\ p.closed = q.closed
    /\ p.spanEnds = q.spanEnds /\ p.listens = q.listens
    /\ p.response = "finished" <=> q.response = "finished"

\* A request with one field set to a value of its type.
LEMMA WithPhase ==
    ASSUME NEW q \in Request, NEW v \in {"none", "verifying", "hooks", "handling", "over"}
    PROVE  [q EXCEPT !.phase = v] \in Request
BY DEF Request

LEMMA WithAt ==
    ASSUME NEW q \in Request, NEW v \in Nat
    PROVE  [q EXCEPT !.at = v] \in Request
BY DEF Request

LEMMA WithAgreed ==
    ASSUME NEW q \in Request, NEW v \in 0 .. Hooks
    PROVE  [q EXCEPT !.agreed = v] \in Request
BY DEF Request

LEMMA WithRefused ==
    ASSUME NEW q \in Request, NEW v \in BOOLEAN
    PROVE  [q EXCEPT !.refused = v] \in Request
BY DEF Request

LEMMA WithClosed ==
    ASSUME NEW q \in Request, NEW v \in BOOLEAN
    PROVE  [q EXCEPT !.closed = v] \in Request
BY DEF Request

LEMMA WithUser ==
    ASSUME NEW q \in Request, NEW v \in {"none", "basic", "jwt"}
    PROVE  [q EXCEPT !.user = v] \in Request
BY DEF Request

Errors == {0, 401, 403, 500, 503}

LEMMA WithError ==
    ASSUME NEW q \in Request, NEW v \in Errors
    PROVE  [q EXCEPT !.error = v] \in Request
BY DEF Request, Errors

LEMMA WithResponse ==
    ASSUME NEW q \in Request, NEW v \in Responses
    PROVE  [q EXCEPT !.response = v] \in Request
BY DEF Request

LEMMA WithAnswers ==
    ASSUME NEW q \in Request, NEW v \in Nat
    PROVE  [q EXCEPT !.answers = v] \in Request
BY DEF Request

LEMMA WithSpanEnds ==
    ASSUME NEW q \in Request, NEW v \in Nat
    PROVE  [q EXCEPT !.spanEnds = v] \in Request
BY DEF Request

LEMMA WithListens ==
    ASSUME NEW q \in Request, NEW v \in SUBSET {"finish", "close"}
    PROVE  [q EXCEPT !.listens = v] \in Request
BY DEF Request

LEMMA WithVerdicts ==
    ASSUME NEW q \in Request, NEW v \in Seq([guard : Guards, result : {"allowed", "denied"}])
    PROVE  [q EXCEPT !.verdicts = v] \in Request
BY DEF Request

LEMMA WithRan ==
    ASSUME NEW q \in Request, NEW v \in SUBSET Layers
    PROVE  [q EXCEPT !.ran = v] \in Request
BY DEF Request

LEMMA WalkedAs ==
    ASSUME NEW q, Walked(q), NEW p, p.at = q.at, p.path = q.path, p.header = q.header,
           p.verdicts = q.verdicts, p.ran = q.ran
    PROVE  /\ Walked(p) /\ GuardMode(p) = GuardMode(q)
           /\ AtGuard(q) => AtGuard(p)
           /\ Welcome(q) /\ p.refused = q.refused /\ p.error = q.error => Welcome(p)
           /\ Cleared(q) /\ p.refused = q.refused /\ p.error = q.error => Cleared(p)
<1>1. /\ \A guard : HasVerdict(p, guard) <=> HasVerdict(q, guard)
      /\ \A guard : AllowedBy(p, guard) <=> AllowedBy(q, guard)
  BY DEF HasVerdict, AllowedBy
<1>2. \A k : Through(p, k) <=> Through(q, k)
  BY <1>1 DEF Through
<1>. QED  BY <1>1, <1>2 DEF Walked, GuardMode, AtGuard, Welcome, Cleared

\* The response is ended.
LEMMA RespondIs ==
    ASSUME NEW q \in Request, Tallied(q), q.response \in {"open", "begun"},
           NEW p, p = Respond(q)
    PROVE  /\ p \in Request /\ Answered(p) /\ Same(q, p) /\ p.response # "open"
           /\ p.phase = q.phase /\ p.at = q.at /\ p.agreed = q.agreed
           /\ p.refused = q.refused /\ p.user = q.user /\ p.error = q.error
           /\ p.verdicts = q.verdicts /\ p.ran = q.ran
<1>1. q.answers = 0
  BY DEF Tallied
<1>2. PICK one \in Nat : one = 1
  OBVIOUS
<1>3. p = [q EXCEPT !.response = "ended", !.answers = one]
  BY <1>1, <1>2 DEF Respond
<1>4. p \in Request
  <2>1. PICK ended \in Request : ended = [q EXCEPT !.response = "ended"]
    <3>1. "ended" \in Responses
      BY DEF Responses
    <3>. QED  BY <3>1, WithResponse
  <2>2. p = [ended EXCEPT !.answers = one]
    BY <1>3, <2>1
  <2>. QED  BY <2>2, WithAnswers
<1>. QED  BY <1>2, <1>3, <1>4 DEF Request, Answered, Tallied, Same

\* After an answer of the error handler or of Express the response is not open.
LEMMA AnswerIs ==
    ASSUME NEW q \in Request, Tallied(q), NEW p, p = Answer(q) \/ p = LastResort(q)
    PROVE  /\ p \in Request /\ Answered(p) /\ Same(q, p) /\ p.response # "open"
           /\ p.phase = q.phase /\ p.at = q.at /\ p.agreed = q.agreed
           /\ p.refused = q.refused /\ p.user = q.user /\ p.error = q.error
           /\ p.verdicts = q.verdicts /\ p.ran = q.ran
<1>1. CASE q.response = "open"
  <2>1. p = Respond(q)
    BY <1>1 DEF Answer, LastResort
  <2>. QED  BY <1>1, <2>1, RespondIs
<1>2. CASE q.response = "begun" /\ p = LastResort(q)
  <2>1. p = [q EXCEPT !.response = "cut"]
    BY <1>2 DEF LastResort
  <2>2. p \in Request
    <3>1. "cut" \in Responses
      BY DEF Responses
    <3>. QED  BY <2>1, <3>1, WithResponse
  <2>. QED  BY <1>2, <2>1, <2>2 DEF Request, Answered, Tallied, Same
<1>3. CASE q.response # "open" /\ ~ (q.response = "begun" /\ p = LastResort(q))
  <2>1. p = q
    BY <1>3 DEF Answer, LastResort
  <2>. QED  BY <1>3, <2>1 DEF Answered, Same
<1>. QED  BY <1>1, <1>2, <1>3

\* A verdict of the guard a request is at.
LEMMA VerdictIs ==
    ASSUME StackOK, NEW q \in Request, Walked(q), AtGuard(q),
           NEW result \in {"allowed", "denied"}, NEW p, p = Verdict(q, result)
    PROVE  /\ p \in Request /\ Walked(p) /\ Same(q, p)
           /\ p.phase = q.phase /\ p.at = q.at /\ p.agreed = q.agreed
           /\ p.refused = q.refused /\ p.user = q.user /\ p.error = q.error
           /\ p.response = q.response /\ p.answers = q.answers /\ p.ran = q.ran
           /\ Len(p.verdicts) \in DOMAIN p.verdicts
           /\ p.verdicts[Len(p.verdicts)].guard = stack[q.at]
           /\ p.verdicts[Len(p.verdicts)].result = result
           /\ \A i \in DOMAIN p.verdicts : i # Len(p.verdicts) =>
                 i \in DOMAIN q.verdicts /\ p.verdicts[i] = q.verdicts[i]
           /\ \A i \in DOMAIN q.verdicts : i \in DOMAIN p.verdicts /\ p.verdicts[i] = q.verdicts[i]
<1>. DEFINE Told == [guard : Guards, result : {"allowed", "denied"}]
<1>1. PICK verdict \in Told : verdict = [guard |-> stack[q.at], result |-> result]
  BY DEF AtGuard
<1>2. q.verdicts \in Seq(Told)
  BY DEF Request
<1>3. PICK verdicts \in Seq(Told) : verdicts = Append(q.verdicts, verdict)
  BY <1>2, AppendProperties
<1>4. p = [q EXCEPT !.verdicts = verdicts]
  BY <1>1, <1>3 DEF Verdict
<1>5. p \in Request
  <2>1. verdicts \in Seq([guard : Guards, result : {"allowed", "denied"}])
    BY <1>3
  <2>2. [q EXCEPT !.verdicts = verdicts] \in Request
    BY <2>1, WithVerdicts
  <2>. QED  BY <1>4, <2>2
<1>6. /\ Same(q, p) /\ p.phase = q.phase /\ p.at = q.at /\ p.agreed = q.agreed
      /\ p.refused = q.refused /\ p.user = q.user /\ p.error = q.error
      /\ p.response = q.response /\ p.answers = q.answers /\ p.ran = q.ran
      /\ p.verdicts = verdicts
  BY <1>4 DEF Request, Same
<1>7. /\ Len(q.verdicts) \in Nat /\ DOMAIN q.verdicts = 1 .. Len(q.verdicts)
      /\ Len(verdicts) = Len(q.verdicts) + 1 /\ DOMAIN verdicts = 1 .. Len(q.verdicts) + 1
      /\ \A i \in 1 .. Len(q.verdicts) : verdicts[i] = q.verdicts[i]
      /\ verdicts[Len(q.verdicts) + 1] = verdict
  BY <1>2, <1>3, AppendProperties, LenProperties
<1>8. /\ Len(p.verdicts) \in DOMAIN p.verdicts
      /\ p.verdicts[Len(p.verdicts)] = verdict
      /\ \A i \in DOMAIN p.verdicts : i = Len(p.verdicts) \/
           (i # Len(p.verdicts) /\ i \in DOMAIN q.verdicts /\ p.verdicts[i] = q.verdicts[i])
      /\ \A i \in DOMAIN q.verdicts : i \in DOMAIN p.verdicts /\ p.verdicts[i] = q.verdicts[i]
  BY <1>6, <1>7
<1>9. verdict.guard = stack[q.at] /\ verdict.result = result
  BY <1>1
<1>10. /\ \A guard : HasVerdict(p, guard) => HasVerdict(q, guard) \/ guard = stack[q.at]
       /\ \A guard : AllowedBy(q, guard) => AllowedBy(p, guard)
  BY <1>8, <1>9 DEF HasVerdict, AllowedBy
<1>11. \A i \in DOMAIN q.verdicts : q.verdicts[i].guard # stack[q.at]
  BY DEF AtGuard, HasVerdict
<1>12. \A i, j \in DOMAIN p.verdicts : p.verdicts[i].guard = p.verdicts[j].guard => i = j
  BY <1>8, <1>9, <1>11 DEF Walked
<1>13. ASSUME NEW k \in DOMAIN stack
       PROVE  /\ k > p.at => ~ HasVerdict(p, stack[k])
              /\ k < p.at => Through(p, k)
  <2>1. k > q.at => stack[k] # stack[q.at]
    BY StackFacts DEF StackOK, AtGuard
  <2>2. Through(q, k) => Through(p, k)
    BY <1>6, <1>10 DEF Through, Same
  <2>. QED  BY <1>6, <1>10, <2>1, <2>2 DEF Walked
<1>14. Walked(p)
  BY <1>6, <1>12, <1>13 DEF Walked, Same
<1>. QED  BY <1>5, <1>6, <1>8, <1>9, <1>14

\* The walk takes q to p, and p is as a request should be.
WalksOn(q, p) ==
    p \in Request /\ Same(q, p) /\ Judged(p) /\ Answered(p) /\ p.phase # "none"

LEMMA DenyIs ==
    ASSUME StackOK, NEW q \in Request, Walked(q), AtGuard(q), Tallied(q),
           \A i \in DOMAIN q.verdicts : q.verdicts[i].result # "denied",
           NEW status \in {401, 403, 500, 503}, NEW p, p = Deny(q, status)
    PROVE  WalksOn(q, p)
<1>1. PICK v : v = Verdict(q, "denied")
  OBVIOUS
<1>2. /\ v \in Request /\ Walked(v) /\ Same(q, v) /\ Tallied(v)
      /\ v.refused = q.refused /\ v.phase = q.phase
      /\ Len(v.verdicts) \in DOMAIN v.verdicts
      /\ v.verdicts[Len(v.verdicts)].result = "denied"
      /\ \A i \in DOMAIN v.verdicts : i # Len(v.verdicts) => v.verdicts[i].result # "denied"
  <2>1. /\ v \in Request /\ Walked(v) /\ Same(q, v)
        /\ v.refused = q.refused /\ v.phase = q.phase
        /\ v.response = q.response /\ v.answers = q.answers /\ v.ran = q.ran
        /\ Len(v.verdicts) \in DOMAIN v.verdicts
        /\ v.verdicts[Len(v.verdicts)].result = "denied"
        /\ \A i \in DOMAIN v.verdicts : i # Len(v.verdicts) =>
              i \in DOMAIN q.verdicts /\ v.verdicts[i] = q.verdicts[i]
    <3>1. PICK result \in {"allowed", "denied"} : result = "denied"
      OBVIOUS
    <3>2. v = Verdict(q, result)
      BY <1>1, <3>1
    <3>3. /\ v \in Request /\ Walked(v) /\ Same(q, v)
          /\ v.refused = q.refused /\ v.phase = q.phase
          /\ v.response = q.response /\ v.answers = q.answers /\ v.ran = q.ran
          /\ Len(v.verdicts) \in DOMAIN v.verdicts
          /\ v.verdicts[Len(v.verdicts)].result = result
          /\ \A i \in DOMAIN v.verdicts : i # Len(v.verdicts) =>
                i \in DOMAIN q.verdicts /\ v.verdicts[i] = q.verdicts[i]
      BY <3>2, VerdictIs
    <3>. QED  BY <3>1, <3>3
  <2>. QED  BY <2>1 DEF Tallied
<1>3. PICK over \in Request : over = [v EXCEPT !.phase = "over"]
  BY <1>2, WithPhase
<1>4. PICK f \in Request : f = [over EXCEPT !.error = status]
  <2>1. status \in Errors
    BY DEF Errors
  <2>2. [over EXCEPT !.error = status] \in Request
    BY <2>1, WithError
  <2>. QED  BY <2>2
<1>5. /\ f.phase = "over" /\ f.error = status /\ Tallied(f) /\ Same(v, f)
      /\ f.at = v.at /\ f.path = v.path /\ f.header = v.header /\ f.verdicts = v.verdicts
      /\ f.ran = v.ran /\ f.refused = v.refused
  BY <1>2, <1>3, <1>4 DEF Request, Tallied, Same
<1>6. p = Answer(f) \/ p = LastResort(f)
  BY <1>1, <1>3, <1>4 DEF Deny, Fail, ErrorHandler
<1>7. /\ p \in Request /\ Answered(p) /\ Same(f, p)
      /\ p.phase = "over" /\ p.at = v.at /\ p.error = status
      /\ p.verdicts = v.verdicts /\ p.ran = v.ran
  BY <1>5, <1>6, AnswerIs
<1>8. Same(q, p) /\ p.path = v.path /\ p.header = v.header
  BY <1>2, <1>5, <1>7 DEF Same
<1>9. Walked(p)
  BY <1>2, <1>7, <1>8, WalkedAs
<1>10. Judged(p)
  BY <1>2, <1>7, <1>9 DEF Judged
<1>. QED  BY <1>7, <1>8, <1>10 DEF WalksOn

LEMMA ToHooksIs ==
    ASSUME NEW q \in Request, Walked(q), AtGuard(q), Welcome(q), Answered(q),
           NEW user \in {"none", "basic", "jwt"},
           Fits(GuardMode(q), q.header), GuardMode(q) \in {"none", user},
           NEW p, p = ToHooks(q, user)
    PROVE  WalksOn(q, p)
<1>1. PICK a \in Request : a = [q EXCEPT !.phase = "hooks"]
  BY WithPhase
<1>2. PICK b \in Request : b = [a EXCEPT !.agreed = 0]
  <2>1. 0 \in 0 .. Hooks
    BY PipelineAssumption DEF PipelineAssumption
  <2>. QED  BY <2>1, WithAgreed
<1>3. PICK c \in Request : c = [b EXCEPT !.user = user]
  BY WithUser
<1>4. p = c
  BY <1>1, <1>2, <1>3 DEF ToHooks
<1>5. /\ p \in Request /\ Same(q, p) /\ p.phase = "hooks" /\ p.user = user /\ Answered(p)
      /\ p.at = q.at /\ p.path = q.path /\ p.header = q.header /\ p.verdicts = q.verdicts
      /\ p.ran = q.ran /\ p.refused = q.refused /\ p.error = q.error
  BY <1>1, <1>2, <1>3, <1>4 DEF Request, Same, Answered, Tallied
<1>6. Walked(p) /\ AtGuard(p) /\ Welcome(p) /\ GuardMode(p) = GuardMode(q)
  BY <1>5, WalkedAs
<1>7. Judged(p)
  BY <1>5, <1>6 DEF Judged, Welcome
<1>. QED  BY <1>5, <1>7 DEF WalksOn

LEMMA AuthorizeIs ==
    ASSUME StackOK, NEW q \in Request, Walked(q), AtGuard(q), Welcome(q), Answered(q),
           NEW p, p = Authorize(q)
    PROVE  WalksOn(q, p)
<1>1. GuardMode(q) \in Modes
  <2>1. CASE stack[q.at] = "opsGuard"
    BY <2>1, StackFacts DEF AtGuard, GuardMode
  <2>2. CASE stack[q.at] = "routeGuard"
    <3>1. q.path \in Routes
      BY <2>2 DEF AtGuard, Applies
    <3>. QED  BY <2>2, <3>1, PipelineAssumption DEF PipelineAssumption, GuardMode
  <2>. QED  BY <2>1, <2>2 DEF AtGuard, Guards
<1>2. /\ q.user \in {"none", "basic", "jwt"} /\ Tallied(q)
      /\ \A i \in DOMAIN q.verdicts : q.verdicts[i].result # "denied"
  BY DEF Request, Answered, Welcome
<1>3. ASSUME NEW status \in {401, 403, 500, 503}, p = Deny(q, status) PROVE WalksOn(q, p)
  BY <1>2, <1>3, DenyIs
<1>4. CASE GuardMode(q) = "none"
  <2>1. p = ToHooks(q, q.user)
    BY <1>4 DEF Authorize
  <2>. QED  BY <1>2, <1>4, <2>1, ToHooksIs DEF Fits
<1>5. CASE GuardMode(q) = "basic"
  <2>1. p = HandleBasic(q)
    BY <1>5 DEF Authorize
  <2>2. CASE "basic" \in enabled /\ q.header = "basic"
    <3>1. p = ToHooks(q, "basic") /\ Fits(GuardMode(q), q.header)
      BY <1>5, <2>1, <2>2 DEF HandleBasic, Fits
    <3>. QED  BY <1>5, <3>1, ToHooksIs
  <2>3. CASE ~ ("basic" \in enabled /\ q.header = "basic")
    BY <1>3, <2>1, <2>3 DEF HandleBasic
  <2>. QED  BY <2>2, <2>3
<1>6. CASE GuardMode(q) = "jwt"
  <2>1. p = HandleJwt(q)
    BY <1>6 DEF Authorize
  <2>2. CASE "jwt" \in enabled /\ q.header \in {"bearer", "forged"}
    <3>1. p = [q EXCEPT !.phase = "verifying"]
      BY <2>1, <2>2 DEF HandleJwt
    <3>2. p \in Request
      BY <3>1, WithPhase
    <3>3. /\ Same(q, p) /\ p.phase = "verifying" /\ Answered(p)
          /\ p.at = q.at /\ p.path = q.path /\ p.header = q.header /\ p.verdicts = q.verdicts
          /\ p.ran = q.ran /\ p.refused = q.refused /\ p.error = q.error
      BY <3>1 DEF Request, Same, Answered, Tallied
    <3>4. Walked(p) /\ AtGuard(p) /\ Welcome(p) /\ GuardMode(p) = GuardMode(q)
      BY <3>3, WalkedAs
    <3>5. Judged(p)
      BY <1>6, <2>2, <3>3, <3>4 DEF Judged, Welcome
    <3>. QED  BY <3>2, <3>3, <3>5 DEF WalksOn
  <2>3. CASE ~ ("jwt" \in enabled /\ q.header \in {"bearer", "forged"})
    BY <1>3, <2>1, <2>3 DEF HandleJwt
  <2>. QED  BY <2>2, <2>3
<1>. QED  BY <1>1, <1>4, <1>5, <1>6 DEF Modes

LEMMA PassIs ==
    ASSUME StackOK, NEW q \in Request, Walked(q), Cleared(q), Answered(q),
           NEW p, p = Pass(q)
    PROVE  WalksOn(q, p)
<1>1. /\ Welcome(q) /\ q.at \in Nat /\ Len(stack) \in Nat /\ DOMAIN stack = 1 .. Len(stack)
      /\ q.ran \in SUBSET Layers
  BY StackFacts DEF Cleared, Request
<1>2. CASE Ahead(q) = {}
  <2>1. PICK over \in Request : over = [q EXCEPT !.phase = "over"]
    BY WithPhase
  <2>2. /\ Same(q, over) /\ over.phase = "over" /\ Tallied(over)
        /\ over.at = q.at /\ over.path = q.path /\ over.header = q.header
        /\ over.verdicts = q.verdicts /\ over.ran = q.ran
        /\ over.refused = q.refused /\ over.error = q.error
    BY <2>1 DEF Request, Same, Answered, Tallied
  <2>3. p = Answer(over)
    BY <1>2, <2>1 DEF Pass
  <2>4. /\ p \in Request /\ Answered(p) /\ Same(over, p)
        /\ p.phase = "over" /\ p.at = q.at /\ p.refused = q.refused /\ p.error = q.error
        /\ p.verdicts = q.verdicts /\ p.ran = q.ran
    BY <2>2, <2>3, AnswerIs
  <2>5. Same(q, p) /\ p.path = q.path /\ p.header = q.header
    BY <2>2, <2>4 DEF Same
  <2>6. Walked(p) /\ Welcome(p)
    BY <1>1, <2>4, <2>5, WalkedAs
  <2>7. Judged(p)
    BY <2>4, <2>6 DEF Judged, Welcome
  <2>. QED  BY <2>4, <2>5, <2>7 DEF WalksOn
<1>3. CASE Ahead(q) # {}
  <2>1. PICK k : k = Least(Ahead(q))
    OBVIOUS
  <2>2. Ahead(q) \in SUBSET Nat
    BY <1>1 DEF Ahead
  <2>3. k \in Ahead(q) /\ \A l \in Ahead(q) : k <= l
    BY <1>3, <2>1, <2>2, LeastIs
  <2>4. k \in DOMAIN stack /\ k \in Nat /\ k > q.at /\ Applies(stack[k], q.path)
    BY <1>1, <2>3 DEF Ahead
  <2>5. \A l \in DOMAIN stack : l > q.at /\ l < k => ~ Applies(stack[l], q.path)
    BY <1>1, <2>3, <2>4 DEF Ahead
  <2>6. PICK n \in Request : n = [q EXCEPT !.at = k]
    BY <2>4, WithAt
  <2>7. /\ Same(q, n) /\ n.phase = q.phase /\ Answered(n) /\ n.at = k /\ n.path = q.path
        /\ n.header = q.header /\ n.verdicts = q.verdicts /\ n.ran = q.ran
        /\ n.refused = q.refused /\ n.error = q.error
    BY <2>6 DEF Request, Same, Answered, Tallied
  <2>8. /\ \A guard : HasVerdict(n, guard) <=> HasVerdict(q, guard)
        /\ \A l : Through(n, l) <=> Through(q, l)
    BY <2>7 DEF HasVerdict, AllowedBy, Through
  <2>9. ASSUME NEW l \in DOMAIN stack
        PROVE  /\ l > k => ~ HasVerdict(n, stack[l])
               /\ l < k => Through(n, l)
    <3>1. l > k => ~ HasVerdict(n, stack[l])
      BY <1>1, <2>4, <2>8 DEF Walked
    <3>2. CASE l < q.at
      BY <2>8, <3>1, <3>2 DEF Walked
    <3>3. CASE l = q.at
      BY <2>8, <3>1, <3>3 DEF Cleared
    <3>4. CASE l > q.at
      BY <2>5, <2>8, <3>1, <3>4 DEF Through
    <3>. QED  BY <1>1, <3>2, <3>3, <3>4
  <2>10. Walked(n)
    <3>1. k \in 0 .. Len(stack) /\ \A l \in DOMAIN stack : l <= q.at => l <= k
      BY <1>1, <2>4
    <3>. QED  BY <2>7, <2>9, <3>1 DEF Walked
  <2>11. Welcome(n)
    BY <1>1, <2>7 DEF Welcome
  <2>12. CASE stack[k] \in Guards
    <3>1. AtGuard(n)
      BY <2>4, <2>7, <2>8, <2>12 DEF AtGuard, Walked
    <3>2. p = Authorize(n)
      BY <1>3, <2>1, <2>6, <2>7, <2>12 DEF Pass
    <3>3. WalksOn(n, p)
      BY <2>7, <2>10, <2>11, <3>1, <3>2, AuthorizeIs
    <3>. QED  BY <2>7, <3>3 DEF WalksOn, Same
  <2>13. CASE stack[k] \notin Guards
    <3>1. PICK ran \in SUBSET Layers : ran = q.ran \cup {stack[k]}
      BY <1>1, <2>4, StackFacts
    <3>2. PICK h \in Request : h = [n EXCEPT !.phase = "handling"]
      BY WithPhase
    <3>3. PICK m \in Request : m = [h EXCEPT !.ran = ran]
      BY WithRan
    <3>4. p = m
      BY <1>3, <2>1, <2>6, <2>7, <2>13, <3>1, <3>2, <3>3 DEF Pass
    <3>5. /\ Same(q, p) /\ p.phase = "handling" /\ Answered(p) /\ p.at = k /\ p.path = q.path
          /\ p.header = q.header /\ p.verdicts = q.verdicts /\ p.ran = ran
          /\ p.refused = q.refused /\ p.error = q.error /\ p \in Request
      BY <2>7, <3>1, <3>2, <3>3, <3>4 DEF Request, Same, Answered, Tallied
    <3>6. /\ \A guard : HasVerdict(p, guard) <=> HasVerdict(n, guard)
          /\ \A l : Through(p, l) <=> Through(n, l)
      BY <2>7, <3>5 DEF HasVerdict, AllowedBy, Through
    <3>7. k <= k
      BY <2>4
    <3>8. "route" \in p.ran =>
             p.path \in Routes /\ \E l \in DOMAIN stack : l <= p.at /\ stack[l] = "route"
      <4>1. CASE "route" \in q.ran
        BY <2>7, <2>10, <3>5, <4>1 DEF Walked
      <4>2. CASE stack[k] = "route"
        BY <2>4, <3>5, <3>7, <4>2 DEF Applies
      <4>. QED  BY <3>1, <3>5, <4>1, <4>2
    <3>9. "ops" \in p.ran =>
             p.path \in OpsPaths /\ \E l \in DOMAIN stack : l <= p.at /\ stack[l] = "ops"
      <4>1. CASE "ops" \in q.ran
        BY <2>7, <2>10, <3>5, <4>1 DEF Walked
      <4>2. CASE stack[k] = "ops"
        BY <2>4, <3>5, <3>7, <4>2 DEF Applies
      <4>. QED  BY <3>1, <3>5, <4>1, <4>2
    <3>10. Walked(p)
      BY <2>7, <2>10, <3>5, <3>6, <3>8, <3>9 DEF Walked
    <3>11. Cleared(p)
      BY <1>1, <2>13, <3>5 DEF Cleared, Through, Welcome
    <3>12. Judged(p)
      BY <3>1, <3>5, <3>10, <3>11 DEF Judged, Cleared, Welcome
    <3>. QED  BY <3>5, <3>12 DEF WalksOn
  <2>. QED  BY <2>12, <2>13
<1>. QED  BY <1>2, <1>3

LEMMA SameJudgement ==
    ASSUME UNCHANGED <<enabled, stack>>, NEW q
    PROVE  Judged(q)' <=> Judged(q)
<1>1. \A k, path, header : Fits(ModeAt(k, path), header)' <=> Fits(ModeAt(k, path), header)
  BY DEF Fits, ModeAt
<1>2. \A k : Through(q, k)' <=> Through(q, k)
  BY <1>1 DEF Through, HasVerdict, AllowedBy
<1>3. Walked(q)' <=> Walked(q)
  BY <1>2 DEF Walked, HasVerdict
<1>4. (AtGuard(q)' <=> AtGuard(q)) /\ (Cleared(q)' <=> Cleared(q))
  BY <1>2 DEF AtGuard, Cleared, Welcome, HasVerdict
<1>5. /\ GuardMode(q)' = GuardMode(q)
      /\ Fits(GuardMode(q), q.header)' <=> Fits(GuardMode(q), q.header)
  BY DEF Fits, GuardMode
<1>. QED  BY <1>3, <1>4, <1>5 DEF Judged, Welcome

LEMMA UnfinishedFacts ==
    /\ IsFiniteSet(Unfinished) /\ Cardinality(Unfinished) \in Nat
<1>1. IsFiniteSet(Requests) /\ Unfinished \in SUBSET Requests
  BY PipelineAssumption DEF PipelineAssumption, Unfinished
<1>. QED  BY <1>1, FS_Subset, FS_CardinalityType

\* A request goes from q to p.
LEMMA BecomesKeeps ==
    ASSUME IInv, UNCHANGED <<enabled, stack>>, NEW r \in Requests, NEW p, Becomes(r, p),
           p \in Request, Judged(p), Answered(p), Spanned(p),
           inFlight' = Cardinality(Unfinished')
    PROVE  IInv'
<1>1. /\ requests' = [requests EXCEPT ![r] = p] /\ requests \in [Requests -> Request]
  BY DEF IInv, Becomes
<1>2. /\ requests' \in [Requests -> Request]
      /\ \A s \in Requests : requests'[s] = IF s = r THEN p ELSE requests[s]
  BY <1>1
<1>3. ASSUME NEW s \in Requests
      PROVE  Judged(requests[s])' /\ Answered(requests'[s]) /\ Spanned(requests'[s])
  <2>1. PICK q : q = requests'[s]
    OBVIOUS
  <2>2. Judged(q) /\ Answered(q) /\ Spanned(q)
    BY <1>2, <2>1 DEF IInv
  <2>3. Judged(q)'
    BY <2>2, SameJudgement
  <2>. QED  BY <2>1, <2>2, <2>3
<1>4. StackOK'
  BY DEF IInv, StackOK
<1>5. \A s \in Requests : Answered(requests[s])' /\ Spanned(requests[s])'
  BY <1>3 DEF Answered, Tallied, Spanned
<1>. QED  BY <1>2, <1>3, <1>4, <1>5 DEF IInv

LEMMA UnfinishedSame ==
    ASSUME IInv, NEW r \in Requests, NEW p, Becomes(r, p), p.phase # "none",
           requests[r].phase # "none",
           p.response = "finished" <=> requests[r].response = "finished"
    PROVE  Unfinished' = Unfinished
<1>1. \A s \in Requests : requests'[s] = IF s = r THEN p ELSE requests[s]
  BY DEF IInv, Becomes
<1>. QED  BY <1>1 DEF Unfinished

\* Most steps are a piece of the walk of a request.
LEMMA WalkKeeps ==
    ASSUME IInv, UNCHANGED <<enabled, stack, inFlight>>, NEW r \in Requests, NEW p,
           Becomes(r, p), requests[r].phase # "none", WalksOn(requests[r], p)
    PROVE  IInv'
<1>1. PICK q : q = requests[r]
  OBVIOUS
<1>2. Spanned(q) /\ WalksOn(q, p)
  BY <1>1 DEF IInv
<1>3. Spanned(p) /\ p \in Request /\ Judged(p) /\ Answered(p) /\ p.phase # "none"
      /\ (p.response = "finished" <=> q.response = "finished")
  BY <1>2 DEF WalksOn, Same, Spanned
<1>4. Unfinished' = Unfinished
  BY <1>1, <1>3, UnfinishedSame
<1>. QED  BY <1>3, <1>4, BecomesKeeps DEF IInv

LEMMA NewRequestIs ==
    ASSUME StackOK, NEW path \in Paths, NEW header \in Headers,
           NEW n, n = NewRequest(path, header)
    PROVE  /\ n \in Request /\ Walked(n) /\ Cleared(n) /\ Answered(n)
           /\ n.response = "open" /\ ~ n.closed /\ n.spanEnds = 0
           /\ n.listens = {"finish", "close"}
<1>1. 0 \in 0 .. Hooks /\ 0 \in Errors /\ 0 \in 0 .. Len(stack) /\ 0 \notin DOMAIN stack
  BY StackFacts, PipelineAssumption DEF PipelineAssumption, Errors
<1>2. PICK verdicts \in Seq([guard : Guards, result : {"allowed", "denied"}]) :
         verdicts = <<>> /\ DOMAIN verdicts = {}
  <2>1. <<>> \in Seq([guard : Guards, result : {"allowed", "denied"}])
    BY EmptySeq
  <2>2. DOMAIN <<>> = {}
    OBVIOUS
  <2>. QED  BY <2>1, <2>2
<1>3. n = [phase |-> "over", at |-> 0, path |-> path, header |-> header, agreed |-> 0,
           refused |-> FALSE, user |-> "none", error |-> 0, response |-> "open",
           answers |-> 0, closed |-> FALSE, spanEnds |-> 0,
           listens |-> {"finish", "close"}, verdicts |-> verdicts, ran |-> {}]
  BY <1>2 DEF NewRequest
<1>4. n \in Request
  BY <1>1, <1>3 DEF Request, Responses, Errors
<1>5. /\ n.phase = "over" /\ n.at = 0 /\ n.refused = FALSE /\ n.error = 0
      /\ n.response = "open" /\ n.answers = 0 /\ n.closed = FALSE /\ n.spanEnds = 0
      /\ n.listens = {"finish", "close"} /\ DOMAIN n.verdicts = {} /\ n.ran = {}
  BY <1>2, <1>3
<1>6. \A k \in DOMAIN stack : ~ (k < 0)
  BY StackFacts
<1>7. Walked(n) /\ Cleared(n)
  BY <1>1, <1>5, <1>6 DEF Walked, Cleared, Welcome, HasVerdict
<1>. QED  BY <1>4, <1>5, <1>7 DEF Answered, Tallied

LEMMA ArriveKeeps ==
    ASSUME IInv, NEW r \in Requests, NEW path \in Paths, NEW header \in Headers,
           Arrive(r, path, header)
    PROVE  IInv'
<1>1. PICK n : n = NewRequest(path, header)
  OBVIOUS
<1>2. PICK p : p = Pass(n)
  OBVIOUS
<1>3. /\ Becomes(r, p) /\ UNCHANGED <<enabled, stack>> /\ inFlight' = inFlight + 1
      /\ requests[r].phase = "none" /\ StackOK
  BY <1>1, <1>2 DEF Arrive, IInv
<1>4. /\ n \in Request /\ Walked(n) /\ Cleared(n) /\ Answered(n)
      /\ n.response = "open" /\ ~ n.closed /\ n.spanEnds = 0
      /\ n.listens = {"finish", "close"}
  BY <1>1, <1>3, NewRequestIs
<1>5. WalksOn(n, p)
  BY <1>2, <1>3, <1>4, PassIs
<1>6. /\ p \in Request /\ Judged(p) /\ Answered(p) /\ Spanned(p)
      /\ p.phase # "none" /\ p.response # "finished"
  BY <1>4, <1>5 DEF WalksOn, Same, Spanned
<1>7. \A s \in Requests : requests'[s] = IF s = r THEN p ELSE requests[s]
  BY <1>3 DEF IInv, Becomes
<1>8. Unfinished' = Unfinished \cup {r} /\ r \notin Unfinished
  BY <1>3, <1>6, <1>7 DEF Unfinished
<1>9. Cardinality(Unfinished \cup {r}) = Cardinality(Unfinished) + 1
  BY <1>8, UnfinishedFacts, FS_AddElement
<1>10. inFlight' = Cardinality(Unfinished')
  BY <1>3, <1>8, <1>9 DEF IInv
<1>. QED  BY <1>3, <1>6, <1>10, BecomesKeeps

LEMMA JudgedAs ==
    ASSUME NEW q, Judged(q), q.phase # "none", NEW p, p.phase = q.phase, p.at = q.at,
           p.path = q.path, p.header = q.header, p.verdicts = q.verdicts, p.ran = q.ran,
           p.refused = q.refused, p.error = q.error, p.user = q.user
    PROVE  Judged(p)
<1>1. Walked(q)
  BY DEF Judged
<1>2. /\ Walked(p) /\ GuardMode(p) = GuardMode(q)
      /\ AtGuard(q) => AtGuard(p)
      /\ Welcome(q) => Welcome(p)
      /\ Cleared(q) => Cleared(p)
  BY <1>1, WalkedAs
<1>. QED  BY <1>2 DEF Judged

LEMMA VerifiedKeeps ==
    ASSUME IInv, NEW r \in Requests, Verified(r)
    PROVE  IInv'
<1>1. PICK q \in Request : q = requests[r]
  BY DEF IInv
<1>2. PICK p : p = IF q.header = "bearer" THEN ToHooks(q, "jwt") ELSE Deny(q, 403)
  OBVIOUS
<1>3. /\ Becomes(r, p) /\ UNCHANGED <<enabled, stack, inFlight>> /\ q.phase = "verifying"
  BY <1>1, <1>2 DEF Verified
<1>4. /\ StackOK /\ Walked(q) /\ AtGuard(q) /\ Welcome(q) /\ Answered(q) /\ Tallied(q)
      /\ GuardMode(q) = "jwt" /\ "jwt" \in enabled
      /\ \A i \in DOMAIN q.verdicts : q.verdicts[i].result # "denied"
  BY <1>1, <1>3 DEF IInv, Judged, Welcome, Answered
<1>5. CASE q.header = "bearer"
  <2>1. p = ToHooks(q, "jwt") /\ Fits(GuardMode(q), q.header)
    BY <1>2, <1>4, <1>5 DEF Fits
  <2>2. WalksOn(q, p)
    BY <1>4, <2>1, ToHooksIs
  <2>. QED  BY <1>1, <1>3, <2>2, WalkKeeps
<1>6. CASE q.header # "bearer"
  <2>1. p = Deny(q, 403)
    BY <1>2, <1>6
  <2>2. WalksOn(q, p)
    BY <1>4, <2>1, DenyIs
  <2>. QED  BY <1>1, <1>3, <2>2, WalkKeeps
<1>. QED  BY <1>5, <1>6

LEMMA HookAgreesKeeps ==
    ASSUME IInv, NEW r \in Requests, HookAgrees(r)
    PROVE  IInv'
<1>1. PICK q \in Request : q = requests[r]
  BY DEF IInv
<1>2. q.agreed < Hooks /\ q.agreed \in 0 .. Hooks /\ q.phase = "hooks"
  BY <1>1 DEF HookAgrees, Request
<1>3. PICK agreed \in 0 .. Hooks : agreed = q.agreed + 1
  BY <1>2, PipelineAssumption DEF PipelineAssumption
<1>4. PICK p \in Request : p = [q EXCEPT !.agreed = agreed]
  BY WithAgreed
<1>5. Becomes(r, p) /\ UNCHANGED <<enabled, stack, inFlight>>
  BY <1>1, <1>3, <1>4 DEF HookAgrees
<1>6. Judged(q) /\ Answered(q)
  BY <1>1 DEF IInv
<1>7. /\ Same(q, p) /\ Answered(p) /\ p.phase = q.phase /\ p.at = q.at
      /\ p.path = q.path /\ p.header = q.header /\ p.verdicts = q.verdicts /\ p.ran = q.ran
      /\ p.refused = q.refused /\ p.error = q.error /\ p.user = q.user
  BY <1>4, <1>6 DEF Request, Same, Answered, Tallied
<1>8. WalksOn(q, p)
  BY <1>2, <1>6, <1>7, JudgedAs DEF WalksOn
<1>. QED  BY <1>1, <1>2, <1>5, <1>8, WalkKeeps

LEMMA HookThrowsKeeps ==
    ASSUME IInv, NEW r \in Requests, NEW status \in {403, 500}, HookThrows(r, status)
    PROVE  IInv'
<1>1. PICK q \in Request : q = requests[r]
  BY DEF IInv
<1>2. PICK m \in Request : m = [q EXCEPT !.refused = TRUE]
  BY WithRefused
<1>3. PICK code \in {401, 403, 500, 503} : code = status
  OBVIOUS
<1>4. PICK p : p = Deny(m, code)
  OBVIOUS
<1>5. Becomes(r, p) /\ UNCHANGED <<enabled, stack, inFlight>> /\ q.phase = "hooks"
  BY <1>1, <1>2, <1>3, <1>4 DEF HookThrows, Rethrown
<1>6. /\ StackOK /\ Walked(q) /\ AtGuard(q) /\ Tallied(q)
      /\ \A i \in DOMAIN q.verdicts : q.verdicts[i].result # "denied"
  BY <1>1, <1>5 DEF IInv, Judged, Welcome, Answered
<1>7. /\ Same(q, m) /\ Tallied(m) /\ m.at = q.at
      /\ m.path = q.path /\ m.header = q.header /\ m.verdicts = q.verdicts /\ m.ran = q.ran
  BY <1>2, <1>6 DEF Request, Same, Tallied
<1>8. Walked(m) /\ AtGuard(m) /\ \A i \in DOMAIN m.verdicts : m.verdicts[i].result # "denied"
  BY <1>6, <1>7, WalkedAs
<1>9. WalksOn(m, p)
  BY <1>4, <1>6, <1>7, <1>8, DenyIs
<1>10. WalksOn(q, p)
  BY <1>7, <1>9 DEF WalksOn, Same
<1>. QED  BY <1>1, <1>5, <1>10, WalkKeeps

LEMMA HooksDoneKeeps ==
    ASSUME IInv, NEW r \in Requests, HooksDone(r)
    PROVE  IInv'
<1>1. PICK q \in Request : q = requests[r]
  BY DEF IInv
<1>2. PICK result \in {"allowed", "denied"} : result = "allowed"
  OBVIOUS
<1>3. PICK v : v = Verdict(q, result)
  OBVIOUS
<1>4. PICK p : p = Pass(v)
  OBVIOUS
<1>5. Becomes(r, p) /\ UNCHANGED <<enabled, stack, inFlight>> /\ q.phase = "hooks"
  BY <1>1, <1>2, <1>3, <1>4 DEF HooksDone, Allowed
<1>6. /\ StackOK /\ Walked(q) /\ AtGuard(q) /\ Welcome(q) /\ Answered(q)
      /\ Fits(GuardMode(q), q.header)
  BY <1>1, <1>5 DEF IInv, Judged
<1>7. /\ v \in Request /\ Walked(v) /\ Same(q, v) /\ v.at = q.at
      /\ v.refused = q.refused /\ v.error = q.error
      /\ v.response = q.response /\ v.answers = q.answers /\ v.ran = q.ran
      /\ Len(v.verdicts) \in DOMAIN v.verdicts
      /\ v.verdicts[Len(v.verdicts)].guard = stack[q.at]
      /\ v.verdicts[Len(v.verdicts)].result = result
      /\ \A i \in DOMAIN v.verdicts : i # Len(v.verdicts) =>
            i \in DOMAIN q.verdicts /\ v.verdicts[i] = q.verdicts[i]
  BY <1>3, <1>6, VerdictIs
<1>8. Welcome(v) /\ AllowedBy(v, stack[v.at])
  BY <1>2, <1>6, <1>7 DEF Welcome, AllowedBy
<1>9. Through(v, v.at)
  <2>1. ModeAt(v.at, v.path) = GuardMode(q) /\ v.header = q.header
    BY <1>7 DEF ModeAt, GuardMode, Same
  <2>. QED  BY <1>6, <1>8, <2>1 DEF Through
<1>10. Cleared(v) /\ Answered(v)
  BY <1>6, <1>7, <1>8, <1>9 DEF Cleared, Answered, Tallied
<1>11. WalksOn(v, p)
  BY <1>4, <1>6, <1>7, <1>10, PassIs
<1>12. WalksOn(q, p)
  BY <1>7, <1>11 DEF WalksOn, Same
<1>. QED  BY <1>1, <1>5, <1>12, WalkKeeps

LEMMA HandlerKeeps ==
    ASSUME IInv, NEW r \in Requests, Handler(r)
    PROVE  IInv'
<1>1. PICK q \in Request : q = requests[r]
  BY DEF IInv
<1>2. q.phase = "handling" /\ UNCHANGED <<enabled, stack, inFlight>>
  BY <1>1 DEF Handler, HandlerBegins, HandlerResponds, HandlerReturns, HandlerThrows, HandlerPasses
<1>3. /\ StackOK /\ Judged(q) /\ Walked(q) /\ Cleared(q) /\ Welcome(q)
      /\ Answered(q) /\ Tallied(q) /\ q.ran # {}
  BY <1>1, <1>2 DEF IInv, Judged, Cleared, Answered
<1>4. ASSUME NEW p, Becomes(r, p), WalksOn(q, p) PROVE IInv'
  BY <1>1, <1>2, <1>4, WalkKeeps
<1>5. CASE HandlerResponds(r)
  <2>1. PICK p : p = Respond(q)
    OBVIOUS
  <2>2. /\ p \in Request /\ Answered(p) /\ Same(q, p)
        /\ p.phase = q.phase /\ p.at = q.at /\ p.refused = q.refused /\ p.user = q.user
        /\ p.error = q.error /\ p.verdicts = q.verdicts /\ p.ran = q.ran
    <3>1. q.response \in {"open", "begun"}
      BY <1>1, <1>5 DEF HandlerResponds
    <3>. QED  BY <1>3, <2>1, <3>1, RespondIs
  <2>3. p.path = q.path /\ p.header = q.header
    BY <2>2 DEF Same
  <2>4. WalksOn(q, p)
    BY <1>2, <1>3, <2>2, <2>3, JudgedAs DEF WalksOn
  <2>5. Becomes(r, p)
    BY <1>1, <1>5, <2>1 DEF HandlerResponds
  <2>. QED  BY <1>4, <2>4, <2>5
<1>6. CASE HandlerReturns(r)
  <2>1. PICK p \in Request : p = [q EXCEPT !.phase = "over"]
    BY WithPhase
  <2>2. /\ Same(q, p) /\ Answered(p) /\ p.phase = "over" /\ p.at = q.at
        /\ p.path = q.path /\ p.header = q.header /\ p.verdicts = q.verdicts /\ p.ran = q.ran
        /\ p.refused = q.refused /\ p.error = q.error
    BY <1>3, <2>1 DEF Request, Same, Answered, Tallied
  <2>3. Walked(p) /\ Welcome(p)
    BY <1>3, <2>2, WalkedAs
  <2>4. WalksOn(q, p)
    BY <2>2, <2>3 DEF WalksOn, Judged, Welcome
  <2>5. Becomes(r, p)
    BY <1>1, <1>6, <2>1 DEF HandlerReturns
  <2>. QED  BY <1>4, <2>4, <2>5
<1>7. CASE HandlerThrows(r)
  <2>1. PICK over \in Request : over = [q EXCEPT !.phase = "over"]
    BY WithPhase
  <2>2. PICK f \in Request : f = [over EXCEPT !.error = 500]
    <3>1. 500 \in Errors
      BY DEF Errors
    <3>. QED  BY <3>1, WithError
  <2>3. /\ Same(q, f) /\ Tallied(f) /\ f.phase = "over" /\ f.error = 500 /\ f.at = q.at
        /\ f.path = q.path /\ f.header = q.header /\ f.verdicts = q.verdicts /\ f.ran = q.ran
        /\ f.refused = q.refused
    BY <1>3, <2>1, <2>2 DEF Request, Same, Tallied
  <2>4. PICK p : p = Fail(q, 500)
    OBVIOUS
  <2>5. /\ p \in Request /\ Answered(p) /\ Same(f, p)
        /\ p.phase = "over" /\ p.at = q.at /\ p.refused = q.refused
        /\ p.error = 500 /\ p.verdicts = q.verdicts /\ p.ran = q.ran
    <3>1. p = Answer(f) \/ p = LastResort(f)
      BY <2>1, <2>2, <2>4 DEF Fail, ErrorHandler
    <3>. QED  BY <2>3, <3>1, AnswerIs
  <2>6. Same(q, p) /\ p.path = q.path /\ p.header = q.header
    BY <2>3, <2>5 DEF Same
  <2>7. Walked(p)
    BY <1>3, <2>5, <2>6, WalkedAs
  <2>8. WalksOn(q, p)
    BY <1>3, <2>5, <2>6, <2>7 DEF WalksOn, Judged, Welcome
  <2>9. Becomes(r, p)
    BY <1>1, <1>7, <2>4 DEF HandlerThrows
  <2>. QED  BY <1>4, <2>8, <2>9
<1>8. CASE HandlerPasses(r)
  <2>1. PICK p : p = Pass(q)
    OBVIOUS
  <2>2. WalksOn(q, p)
    BY <1>3, <2>1, PassIs
  <2>3. Becomes(r, p)
    BY <1>1, <1>8, <2>1 DEF HandlerPasses
  <2>. QED  BY <1>4, <2>2, <2>3
<1>9. CASE HandlerBegins(r)
  <2>1. PICK p \in Request : p = [q EXCEPT !.response = "begun"]
    <3>1. "begun" \in Responses
      BY DEF Responses
    <3>. QED  BY <3>1, WithResponse
  <2>2. q.response = "open" /\ Becomes(r, p)
    BY <1>1, <1>9, <2>1 DEF HandlerBegins
  <2>3. /\ Same(q, p) /\ Answered(p) /\ p.phase = q.phase /\ p.at = q.at
        /\ p.path = q.path /\ p.header = q.header /\ p.verdicts = q.verdicts
        /\ p.ran = q.ran /\ p.refused = q.refused /\ p.error = q.error /\ p.user = q.user
    BY <1>3, <2>1, <2>2 DEF Request, Same, Answered, Tallied
  <2>4. WalksOn(q, p)
    BY <1>2, <1>3, <2>3, JudgedAs DEF WalksOn
  <2>. QED  BY <1>4, <2>2, <2>4
<1>. QED  BY <1>5, <1>6, <1>7, <1>8, <1>9 DEF Handler

\* The listener that runs first ends the span and takes both off.
LEMMA EndSpanIs ==
    ASSUME NEW q \in Request, Spanned(q), NEW event \in {"finish", "close"},
           NEW p, p = EndSpan(q, event)
    PROVE  /\ p \in Request /\ p.spanEnds = 1 /\ p.listens = {}
           /\ p.phase = q.phase /\ p.at = q.at /\ p.path = q.path /\ p.header = q.header
           /\ p.verdicts = q.verdicts /\ p.ran = q.ran /\ p.refused = q.refused
           /\ p.error = q.error /\ p.user = q.user /\ p.response = q.response
           /\ p.answers = q.answers /\ p.closed = q.closed
<1>1. CASE q.listens = {}
  <2>1. p = q /\ q.spanEnds = 1
    BY <1>1 DEF EndSpan, Spanned
  <2>. QED  BY <1>1, <2>1
<1>2. CASE q.listens # {}
  <2>1. q.spanEnds = 0 /\ q.listens = {"finish", "close"}
    BY <1>2 DEF Spanned
  <2>2. PICK one \in Nat : one = 1
    OBVIOUS
  <2>3. PICK none \in SUBSET {"finish", "close"} : none = {}
    OBVIOUS
  <2>4. p = [q EXCEPT !.spanEnds = one, !.listens = none]
    BY <2>1, <2>2, <2>3 DEF EndSpan
  <2>5. PICK m \in Request : m = [q EXCEPT !.spanEnds = one]
    BY WithSpanEnds
  <2>6. PICK n \in Request : n = [m EXCEPT !.listens = none]
    BY WithListens
  <2>7. p = n
    BY <2>4, <2>5, <2>6
  <2>. QED  BY <2>2, <2>3, <2>5, <2>6, <2>7 DEF Request
<1>. QED  BY <1>1, <1>2

LEMMA FinishKeeps ==
    ASSUME IInv, NEW r \in Requests, Finish(r)
    PROVE  IInv'
<1>1. PICK q \in Request : q = requests[r]
  BY DEF IInv
<1>2. q.response = "ended" /\ Judged(q) /\ Answered(q) /\ Spanned(q)
  BY <1>1 DEF IInv, Finish
<1>3. q.phase # "none"
  BY <1>2 DEF Judged
<1>4. PICK event \in {"finish", "close"} : event = "finish"
  OBVIOUS
<1>5. PICK m : m = EndSpan(q, event)
  OBVIOUS
<1>6. /\ m \in Request /\ m.spanEnds = 1 /\ m.listens = {}
      /\ m.phase = q.phase /\ m.at = q.at /\ m.path = q.path /\ m.header = q.header
      /\ m.verdicts = q.verdicts /\ m.ran = q.ran /\ m.refused = q.refused
      /\ m.error = q.error /\ m.user = q.user /\ m.response = q.response
      /\ m.answers = q.answers /\ m.closed = q.closed
  BY <1>2, <1>5, EndSpanIs
<1>7. PICK p \in Request : p = [m EXCEPT !.response = "finished"]
  <2>1. "finished" \in Responses
    BY DEF Responses
  <2>. QED  BY <1>6, <2>1, WithResponse
<1>8. /\ p.spanEnds = 1 /\ p.listens = {} /\ p.response = "finished"
      /\ p.phase = q.phase /\ p.at = q.at /\ p.path = q.path /\ p.header = q.header
      /\ p.verdicts = q.verdicts /\ p.ran = q.ran /\ p.refused = q.refused
      /\ p.error = q.error /\ p.user = q.user /\ p.answers = q.answers
  BY <1>6, <1>7 DEF Request
<1>9. Judged(p)
  BY <1>2, <1>3, <1>8, JudgedAs
<1>10. Answered(p) /\ Spanned(p)
  BY <1>2, <1>8 DEF Answered, Tallied, Spanned
<1>11. Becomes(r, p) /\ UNCHANGED <<enabled, stack>> /\ inFlight' = inFlight - 1
  BY <1>1, <1>4, <1>5, <1>7 DEF Finish, DecOnFinish
<1>12. \A s \in Requests : requests'[s] = IF s = r THEN p ELSE requests[s]
  BY <1>11 DEF IInv, Becomes
<1>13. Unfinished' = Unfinished \ {r} /\ r \in Unfinished
  BY <1>1, <1>2, <1>3, <1>8, <1>12 DEF Unfinished
<1>14. Cardinality(Unfinished \ {r}) = Cardinality(Unfinished) - 1
  BY <1>13, UnfinishedFacts, FS_RemoveElement
<1>15. inFlight' = Cardinality(Unfinished')
  BY <1>11, <1>13, <1>14 DEF IInv
<1>. QED  BY <1>9, <1>10, <1>11, <1>15, BecomesKeeps

LEMMA CloseKeeps ==
    ASSUME IInv, NEW r \in Requests, Close(r)
    PROVE  IInv'
<1>1. PICK q \in Request : q = requests[r]
  BY DEF IInv
<1>2. q.phase # "none" /\ ~ q.closed /\ Judged(q) /\ Answered(q) /\ Spanned(q)
  BY <1>1 DEF IInv, Close
<1>3. PICK event \in {"finish", "close"} : event = "close"
  OBVIOUS
<1>4. PICK m : m = EndSpan(q, event)
  OBVIOUS
<1>5. /\ m \in Request /\ m.spanEnds = 1 /\ m.listens = {}
      /\ m.phase = q.phase /\ m.at = q.at /\ m.path = q.path /\ m.header = q.header
      /\ m.verdicts = q.verdicts /\ m.ran = q.ran /\ m.refused = q.refused
      /\ m.error = q.error /\ m.user = q.user /\ m.response = q.response
      /\ m.answers = q.answers /\ m.closed = q.closed
  BY <1>2, <1>3, <1>4, EndSpanIs
<1>6. PICK p \in Request : p = [m EXCEPT !.closed = TRUE]
  BY <1>5, WithClosed
<1>7. /\ p.spanEnds = 1 /\ p.listens = {} /\ p.response = q.response /\ p.closed = TRUE
      /\ p.phase = q.phase /\ p.at = q.at /\ p.path = q.path /\ p.header = q.header
      /\ p.verdicts = q.verdicts /\ p.ran = q.ran /\ p.refused = q.refused
      /\ p.error = q.error /\ p.user = q.user /\ p.answers = q.answers
  BY <1>5, <1>6 DEF Request
<1>8. Judged(p)
  BY <1>2, <1>7, JudgedAs
<1>9. Answered(p) /\ Spanned(p)
  BY <1>2, <1>7 DEF Answered, Tallied, Spanned
<1>10. Becomes(r, p) /\ UNCHANGED <<enabled, stack, inFlight>>
  BY <1>1, <1>3, <1>4, <1>6 DEF Close, DecOnFinish
<1>11. Unfinished' = Unfinished
  BY <1>1, <1>2, <1>7, <1>10, UnfinishedSame
<1>. QED  BY <1>8, <1>9, <1>10, <1>11, BecomesKeeps DEF IInv

\* What is mounted later lies beyond every request under way, and guards and
\* protects nothing.
LEMMA MountKeeps ==
    ASSUME IInv, NEW layer \in LateRoutes \cup {"errorHandler"}, Mount(layer)
    PROVE  IInv'
<1>1. /\ stack' = Append(stack, layer) /\ ~ Mounted(layer) /\ layer \in Layers
      /\ UNCHANGED <<enabled, requests, inFlight>> /\ stack \in Seq(Layers) /\ StackOK
  BY DEF Mount, Layers, IInv, StackOK
<1>2. /\ Len(stack) \in Nat /\ DOMAIN stack = 1 .. Len(stack)
      /\ stack' \in Seq(Layers) /\ Len(stack') = Len(stack) + 1
      /\ DOMAIN stack' = 1 .. Len(stack) + 1
      /\ \A k \in 1 .. Len(stack) : stack'[k] = stack[k]
      /\ stack'[Len(stack) + 1] = layer
  BY <1>1, LenProperties, AppendProperties
<1>3. PICK top : top = Len(stack) + 1
  OBVIOUS
<1>4. /\ top \notin DOMAIN stack /\ stack'[top] = layer /\ top \in Nat
      /\ DOMAIN stack' = DOMAIN stack \cup {top}
      /\ \A k \in DOMAIN stack : stack'[k] = stack[k] /\ k < top
      /\ \A k \in DOMAIN stack : stack[k] # layer
  BY <1>1, <1>2, <1>3 DEF Mounted
<1>5. layer \notin Guards
  BY PipelineAssumption DEF PipelineAssumption, Guards
<1>6. Len(BootStack) \in Nat /\ Len(BootStack) < top
  BY <1>1, <1>2, <1>3, BootFacts DEF StackOK
<1>7. StackOK'
  <2>1. \A k, l \in DOMAIN stack' : stack'[k] = stack'[l] => k = l
    BY <1>1, <1>4 DEF StackOK
  <2>2. BootStack' = BootStack
    BY DEF BootStack
  <2>3. ASSUME NEW k \in DOMAIN stack'
        PROVE  IF k <= Len(BootStack) THEN stack'[k] = BootStack[k]
                                      ELSE stack'[k] \in LateRoutes \cup {"errorHandler"}
    BY <1>1, <1>4, <1>6 DEF StackOK
  <2>4. Len(BootStack) <= Len(stack')
    BY <1>2, <1>3, <1>6
  <2>. QED  BY <1>2, <2>1, <2>2, <2>3, <2>4 DEF StackOK
<1>8. ASSUME NEW q \in Request, Judged(q) PROVE Judged(q)'
  <2>1. Walked(q) /\ q.at \in 0 .. Len(stack) /\ q.at \in Nat
    BY <1>8 DEF Judged, Walked
  <2>2. \A k \in DOMAIN stack : Through(q, k) => Through(q, k)'
    BY <1>1, <1>4 DEF Through, ModeAt, Fits, AllowedBy
  <2>3. ~ HasVerdict(q, layer)
    <3>1. q.verdicts \in Seq([guard : Guards, result : {"allowed", "denied"}])
      BY DEF Request
    <3>2. \A i \in DOMAIN q.verdicts : q.verdicts[i].guard \in Guards
      <4>1. ASSUME NEW i \in DOMAIN q.verdicts
            PROVE  q.verdicts[i] \in [guard : Guards, result : {"allowed", "denied"}]
        <5>1. i \in 1 .. Len(q.verdicts)
          BY <3>1, LenProperties
        <5>. QED  BY <3>1, <5>1, ElementOfSeq
      <4>. QED  BY <4>1
    <3>. QED  BY <1>5, <3>2 DEF HasVerdict
  <2>4. q.at < top /\ ~ (top < q.at) /\ q.at \in 0 .. Len(stack')
    BY <1>2, <1>3, <2>1
  <2>5. Walked(q)'
    <3>1. ASSUME NEW k \in DOMAIN stack'
          PROVE  /\ k > q.at => ~ HasVerdict(q, stack'[k])
                 /\ k < q.at => Through(q, k)'
      BY <1>4, <2>1, <2>2, <2>3, <2>4 DEF Walked
    <3>2. "route" \in q.ran =>
             q.path \in Routes /\ \E k \in DOMAIN stack' : k <= q.at /\ stack'[k] = "route"
      BY <1>4, <2>1 DEF Walked
    <3>3. "ops" \in q.ran =>
             q.path \in OpsPaths /\ \E k \in DOMAIN stack' : k <= q.at /\ stack'[k] = "ops"
      BY <1>4, <2>1 DEF Walked
    <3>. QED  BY <2>1, <2>4, <3>1, <3>2, <3>3 DEF Walked, HasVerdict
  <2>6. q.at \in DOMAIN stack => stack'[q.at] = stack[q.at]
    BY <1>4
  <2>7. q.at \in DOMAIN stack' => q.at \in DOMAIN stack
    BY <1>4, <2>4
  <2>8. AtGuard(q) => AtGuard(q)' /\ GuardMode(q)' = GuardMode(q)
    BY <1>4, <2>6 DEF AtGuard, GuardMode, HasVerdict
  <2>9. Cleared(q) => Cleared(q)'
    BY <2>2, <2>7 DEF Cleared, Welcome
  <2>10. \A mode, header : Fits(mode, header)' <=> Fits(mode, header)
    BY <1>1 DEF Fits
  <2>11. AtGuard(q) /\ Fits(GuardMode(q), q.header) => Fits(GuardMode(q), q.header)'
    BY <1>1, <2>8 DEF Fits
  <2>. QED  BY <1>1, <1>8, <2>5, <2>8, <2>9, <2>11 DEF Judged, Welcome
<1>9. ASSUME NEW s \in Requests
      PROVE  Judged(requests[s])' /\ Answered(requests[s])' /\ Spanned(requests[s])'
  <2>1. PICK q \in Request : q = requests[s]
    BY DEF IInv
  <2>2. Judged(q) /\ Answered(q) /\ Spanned(q)
    BY <2>1 DEF IInv
  <2>3. Judged(q)'
    BY <1>8, <2>2
  <2>4. q = requests'[s]
    BY <1>1, <2>1
  <2>5. Answered(q)' /\ Spanned(q)'
    BY <2>2 DEF Answered, Tallied, Spanned
  <2>. QED  BY <2>3, <2>4, <2>5
<1>10. Unfinished' = Unfinished
  BY <1>1 DEF Unfinished
<1>. QED  BY <1>1, <1>7, <1>9, <1>10 DEF IInv

LEMMA IInvInit == Init => IInv
<1>. SUFFICES ASSUME Init PROVE IInv
  OBVIOUS
<1>1. StackOK
  <2>1. /\ Len(BootStack) \in {2, 3, 4} /\ BootStack \in Seq(Layers)
        /\ DOMAIN BootStack = 1 .. Len(BootStack)
    BY BootFacts, LenProperties
  <2>2. OpsMode \in {"none", "basic", "jwt", "off"}
    BY PipelineAssumption DEF PipelineAssumption, Modes
  <2>3. ASSUME NEW k \in DOMAIN BootStack, NEW l \in DOMAIN BootStack,
               BootStack[k] = BootStack[l]
        PROVE  k = l
    <3>1. k \in 1 .. Len(BootStack) /\ l \in 1 .. Len(BootStack)
      BY <2>1
    <3>2. CASE OpsMode = "off"
      BY <2>3, <3>1, <3>2, BootFacts
    <3>3. CASE OpsMode = "none"
      BY <2>3, <3>1, <3>3, BootFacts
    <3>4. CASE OpsMode \in {"basic", "jwt"}
      BY <2>3, <3>1, <3>4, BootFacts
    <3>. QED  BY <2>2, <3>2, <3>3, <3>4
  <2>. QED  BY <2>1, <2>3 DEF Init, StackOK
<1>2. PICK n : n = NewRequest(Unknown, "absent")
  OBVIOUS
<1>3. /\ n \in Request /\ Walked(n) /\ Cleared(n) /\ Answered(n)
      /\ n.response = "open" /\ ~ n.closed /\ n.spanEnds = 0
      /\ n.listens = {"finish", "close"}
  <2>1. Unknown \in Paths /\ "absent" \in Headers
    BY DEF Paths, Headers
  <2>. QED  BY <1>1, <1>2, <2>1, NewRequestIs
<1>4. PICK q \in Request : q = [n EXCEPT !.phase = "none"]
  BY <1>3, WithPhase
<1>5. /\ q.phase = "none" /\ q.at = n.at /\ q.path = n.path /\ q.header = n.header
      /\ q.verdicts = n.verdicts /\ q.ran = n.ran /\ q.refused = n.refused
      /\ q.error = n.error /\ q.response = "open" /\ ~ q.closed /\ q.spanEnds = 0
      /\ q.listens = {"finish", "close"} /\ q.answers = n.answers
  BY <1>3, <1>4 DEF Request
<1>6. Walked(q) /\ Cleared(q)
  BY <1>3, <1>5, WalkedAs
<1>7. Judged(q) /\ Answered(q) /\ Spanned(q)
  BY <1>3, <1>5, <1>6 DEF Judged, Cleared, Welcome, Answered, Tallied, Spanned
<1>8. requests \in [Requests -> Request] /\ \A r \in Requests : requests[r] = q
  BY <1>2, <1>4 DEF Init, Unused
<1>9. Unfinished = {}
  BY <1>5, <1>8 DEF Unfinished
<1>10. inFlight = Cardinality(Unfinished)
  BY <1>9, FS_EmptySet DEF Init
<1>. QED  BY <1>1, <1>7, <1>8, <1>10 DEF Init, IInv

LEMMA IInvStep == IInv /\ [Next]_vars => IInv'
<1>. SUFFICES ASSUME IInv, [Next]_vars PROVE IInv'
  OBVIOUS
<1>1. ASSUME NEW r \in Requests, Connection(r) PROVE IInv'
  BY <1>1, ArriveKeeps, FinishKeeps, CloseKeeps DEF Connection
<1>2. ASSUME NEW r \in Requests, Security(r) PROVE IInv'
  BY <1>2, VerifiedKeeps, HookAgreesKeeps, HookThrowsKeeps, HooksDoneKeeps DEF Security
<1>3. ASSUME NEW r \in Requests, Handler(r) PROVE IInv'
  BY <1>3, HandlerKeeps
<1>4. CASE MountErrorHandler
  BY <1>4, MountKeeps DEF MountErrorHandler
<1>5. ASSUME NEW path \in LateRoutes, MountLateRoute(path) PROVE IInv'
  BY <1>5, MountKeeps DEF MountLateRoute
<1>6. CASE UNCHANGED vars
  <2>1. UNCHANGED <<enabled, stack>> /\ requests' = requests /\ inFlight' = inFlight
    BY <1>6 DEF vars
  <2>2. ASSUME NEW r \in Requests
        PROVE  Judged(requests[r])' /\ Answered(requests[r])' /\ Spanned(requests[r])'
    <3>1. PICK q : q = requests[r]
      OBVIOUS
    <3>2. Judged(q) /\ Answered(q) /\ Spanned(q)
      BY <3>1 DEF IInv
    <3>3. Judged(q)'
      BY <2>1, <3>2, SameJudgement
    <3>4. Answered(q)' /\ Spanned(q)'
      BY <3>2 DEF Answered, Tallied, Spanned
    <3>. QED  BY <2>1, <3>1, <3>3, <3>4
  <2>3. StackOK' /\ Unfinished' = Unfinished
    BY <2>1 DEF IInv, StackOK, Unfinished
  <2>. QED  BY <2>1, <2>2, <2>3 DEF IInv
<1>. QED  BY <1>1, <1>2, <1>3, <1>4, <1>5, <1>6 DEF Next

LEMMA IInvAlways == Spec => []IInv
BY IInvInit, IInvStep, PTL DEF Spec

(* The stack holds no layer twice, and requests stay well formed, however  *)
(* guards, hooks, handlers, connections and the timer interleave.          *)
THEOREM TypesHold == Spec => []TypeOK
<1>1. IInv => TypeOK
  BY UnfinishedFacts DEF IInv, TypeOK, StackOK
<1>. QED  BY <1>1, IInvAlways, PTL

(* Whoever runs the handler of a protected route or ops endpoint, or is    *)
(* shown to its SECURITY hooks, has authenticated in its mode.             *)
THEOREM HandlersAreEntitled == Spec => []Entitled
<1>1. ASSUME IInv, NEW r \in Requests, NEW q, q = requests[r]
      PROVE  /\ "route" \in q.ran => Fits(Mode[q.path], q.header)
             /\ "ops" \in q.ran => OpsMode = "none" \/ Fits(OpsMode, q.header)
             /\ q.phase = "hooks" =>
                  Fits(GuardMode(q), q.header) /\ GuardMode(q) \in {"none", q.user}
  <2>1. StackOK /\ Judged(q) /\ Walked(q) /\ q.at \in 0 .. Len(stack) /\ Len(stack) \in Nat
        /\ DOMAIN stack = 1 .. Len(stack)
    BY <1>1, StackFacts DEF IInv, Judged, Walked
  <2>2. ASSUME "route" \in q.ran PROVE Fits(Mode[q.path], q.header)
    <3>1. PICK k \in DOMAIN stack : k <= q.at /\ stack[k] = "route"
      BY <2>1, <2>2 DEF Walked
    <3>2. 1 \in DOMAIN stack /\ stack[1] = "routeGuard" /\ 1 < q.at /\ q.path \in Routes
      BY <2>1, <2>2, <3>1, StackFacts DEF Walked
    <3>3. Through(q, 1)
      BY <2>1, <3>2 DEF Walked
    <3>. QED  BY <3>2, <3>3 DEF Through, Guards, Applies, ModeAt
  <2>3. ASSUME "ops" \in q.ran, OpsMode # "none" PROVE Fits(OpsMode, q.header)
    <3>1. PICK k \in DOMAIN stack : k <= q.at /\ stack[k] = "ops"
      BY <2>1, <2>3 DEF Walked
    <3>2. 3 \in DOMAIN stack /\ stack[3] = "opsGuard" /\ 3 < q.at /\ q.path \in OpsPaths
      BY <2>1, <2>3, <3>1, StackFacts DEF Walked
    <3>3. q.path \notin LateRoutes
      BY <3>2, PipelineAssumption DEF PipelineAssumption
    <3>4. Through(q, 3)
      BY <2>1, <3>2 DEF Walked
    <3>. QED  BY <3>2, <3>3, <3>4 DEF Through, Guards, Applies, ModeAt
  <2>. QED  BY <2>1, <2>2, <2>3 DEF Judged
<1>2. IInv => Entitled
  BY <1>1 DEF Entitled
<1>. QED  BY <1>2, IInvAlways, PTL

(* A guard decides once about a request; what it protects runs after an    *)
(* "allowed", and nothing after a "denied".                                *)
THEOREM GuardsDecideOnce == Spec => []OneVerdict
<1>1. ASSUME IInv, NEW r \in Requests, NEW q, q = requests[r]
      PROVE  /\ \A guard \in Guards : Cardinality(Verdicts(q, guard)) <= 1
             /\ "route" \in q.ran => Verdicts(q, "routeGuard") # {}
             /\ "ops" \in q.ran /\ OpsMode # "none" => Verdicts(q, "opsGuard") # {}
             /\ \A i \in DOMAIN q.verdicts : q.verdicts[i].result = "denied" =>
                  i = Len(q.verdicts) /\ q.phase = "over" /\ q.error # 0
             /\ q.refused => \E i \in DOMAIN q.verdicts : q.verdicts[i].result = "denied"
  <2>1. StackOK /\ Judged(q) /\ Walked(q) /\ q.at \in 0 .. Len(stack) /\ Len(stack) \in Nat
        /\ DOMAIN stack = 1 .. Len(stack)
    BY <1>1, StackFacts DEF IInv, Judged, Walked
  <2>2. ASSUME NEW guard \in Guards PROVE Cardinality(Verdicts(q, guard)) <= 1
    <3>1. \A i, j \in Verdicts(q, guard) : i = j
      BY <2>1 DEF Verdicts, Walked
    <3>2. CASE Verdicts(q, guard) = {}
      BY <3>2, FS_EmptySet
    <3>3. CASE Verdicts(q, guard) # {}
      <4>1. PICK i : Verdicts(q, guard) = {i}
        BY <3>1, <3>3
      <4>2. Cardinality({i}) = 1
        BY FS_Singleton
      <4>. QED  BY <4>1, <4>2
    <3>. QED  BY <3>2, <3>3
  <2>3. ASSUME "route" \in q.ran PROVE Verdicts(q, "routeGuard") # {}
    <3>1. PICK k \in DOMAIN stack : k <= q.at /\ stack[k] = "route"
      BY <2>1, <2>3 DEF Walked
    <3>2. 1 \in DOMAIN stack /\ stack[1] = "routeGuard" /\ 1 < q.at /\ q.path \in Routes
      BY <2>1, <2>3, <3>1, StackFacts DEF Walked
    <3>3. Through(q, 1)
      BY <2>1, <3>2 DEF Walked
    <3>4. AllowedBy(q, "routeGuard")
      BY <3>2, <3>3 DEF Through, Guards, Applies
    <3>. QED  BY <3>4 DEF AllowedBy, Verdicts
  <2>4. ASSUME "ops" \in q.ran, OpsMode # "none" PROVE Verdicts(q, "opsGuard") # {}
    <3>1. PICK k \in DOMAIN stack : k <= q.at /\ stack[k] = "ops"
      BY <2>1, <2>4 DEF Walked
    <3>2. 3 \in DOMAIN stack /\ stack[3] = "opsGuard" /\ 3 < q.at /\ q.path \in OpsPaths
      BY <2>1, <2>4, <3>1, StackFacts DEF Walked
    <3>3. q.path \notin LateRoutes
      BY <3>2, PipelineAssumption DEF PipelineAssumption
    <3>4. Through(q, 3)
      BY <2>1, <3>2 DEF Walked
    <3>5. AllowedBy(q, "opsGuard")
      BY <3>2, <3>3, <3>4 DEF Through, Guards, Applies
    <3>. QED  BY <3>5 DEF AllowedBy, Verdicts
  <2>. QED  BY <2>1, <2>2, <2>3, <2>4 DEF Judged
<1>2. IInv => OneVerdict
  BY <1>1 DEF OneVerdict
<1>. QED  BY <1>2, IInvAlways, PTL

(* No response is ended twice, and a request that fails ends in a response *)
(* unless one of its handlers had sent the headers of one before.          *)
THEOREM AnswersOnce == Spec => []AnswerOnce
<1>1. ASSUME IInv, NEW r \in Requests, NEW q, q = requests[r]
      PROVE  /\ q.answers <= 1
             /\ q.error # 0 =>
                  q.answers = 1 \/ (q.response \in {"begun", "cut"} /\ q.ran # {})
  <2>1. q \in Request /\ Answered(q)
    BY <1>1 DEF IInv
  <2>. QED  BY <2>1 DEF Request, Responses, Answered, Tallied
<1>2. IInv => AnswerOnce
  BY <1>1 DEF AnswerOnce
<1>. QED  BY <1>2, IInvAlways, PTL

(* The span of a request ends once, with its response or its connection,   *)
(* whichever order they end in, and the gauge counts every request whose   *)
(* client still waits for its response.                                    *)
THEOREM EndsAreCounted == Spec => []EndsCounted
<1>1. ASSUME IInv
      PROVE  inFlight >= Cardinality({r \in Requests :
               requests[r].phase # "none" /\ requests[r].response # "finished"
                 /\ ~requests[r].closed})
  <2>1. PICK waiting : waiting = {r \in Requests :
               requests[r].phase # "none" /\ requests[r].response # "finished"
                 /\ ~requests[r].closed}
    OBVIOUS
  <2>2. waiting \in SUBSET Unfinished
    BY <2>1 DEF Unfinished
  <2>3. /\ IsFiniteSet(waiting) /\ Cardinality(waiting) \in Nat
        /\ Cardinality(waiting) <= Cardinality(Unfinished)
    BY <2>2, UnfinishedFacts, FS_Subset, FS_CardinalityType
  <2>4. inFlight = Cardinality(Unfinished)
    BY <1>1 DEF IInv
  <2>. QED  BY <2>1, <2>3, <2>4, UnfinishedFacts
<1>2. IInv => \A r \in Requests :
         requests[r].spanEnds =
           IF requests[r].response = "finished" \/ requests[r].closed THEN 1 ELSE 0
  BY DEF IInv, Spanned
<1>3. IInv => EndsCounted
  BY <1>1, <1>2 DEF EndsCounted
<1>. QED  BY <1>3, IInvAlways, PTL

=============================================================================
