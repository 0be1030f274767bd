--------------------------- MODULE CadenceProofs ---------------------------
(***************************************************************************)
(* Module FlushCadence for any set of projects and any times: its types,   *)
(* and that edits go to disk neither too late nor too often.               *)
(***************************************************************************)
EXTENDS FlushCadence, FiniteSetTheorems, TLAPS

-----------------------------------------------------------------------------
(* Times *)

\* The smaller of two numbers.
LEMMA MinOfTwo ==
    ASSUME NEW a \in Int, NEW b \in Int
    PROVE  /\ Min({a, b}) \in {a, b}
           /\ Min({a, b}) <= a /\ Min({a, b}) <= b
<1> DEFINE m == IF a <= b THEN a ELSE b
<1>1. m \in {a, b} /\ \A x \in {a, b} : m <= x OBVIOUS
<1>2. Min({a, b}) \in {a, b} /\ \A x \in {a, b} : Min({a, b}) <= x
  BY <1>1 DEF Min
<1> QED BY <1>2

\* The gap between two passes of the driver thread is within both limits of due().
LEMMA GapType == Gap \in Nat /\ Gap <= Quiescence /\ Gap <= MaxDirtyAge
BY MinOfTwo, TimesAssumption DEF Gap

\* The time the flushes of some projects can take.
Work(ps) == Cardinality(ps) * MaxHold

\* The bound is that of the cap, a poll, a pass without the project and one with it.
LEMMA WorkFacts ==
    /\ \A ps \in SUBSET Held : Work(ps) \in Nat /\ Work(ps) <= Work(Held)
    /\ \A ps \in SUBSET Held, p \in Held :
          p \in ps => Work(ps \ {p}) = Work(ps) - MaxHold
    /\ \A ps, qs \in SUBSET Held : ps \subseteq qs => Work(ps) <= Work(qs)
    /\ AgeBound = MaxDirtyAge + Poll + 2 * Work(Held) - MaxHold
    /\ MaxHold <= Work(Held)
<1>1. \A ps \in SUBSET Held : IsFiniteSet(ps) /\ Cardinality(ps) \in Nat
                                 /\ Cardinality(ps) <= Cardinality(Held)
  BY ProjectsAssumption, FS_Subset, FS_CardinalityType
<1>2. ASSUME NEW a \in Nat, NEW b \in Nat, a <= b PROVE a * MaxHold \in Nat /\ a * MaxHold <= b * MaxHold
  BY <1>2, TimesAssumption
<1>3. \A ps \in SUBSET Held : Work(ps) \in Nat /\ Work(ps) <= Work(Held)
  <2>1. Held \in SUBSET Held OBVIOUS
  <2> QED BY <1>1, <1>2, <2>1 DEF Work
<1>4. ASSUME NEW ps \in SUBSET Held, NEW p \in ps
      PROVE  Work(ps \ {p}) = Work(ps) - MaxHold
  <2>1. Cardinality(ps \ {p}) = Cardinality(ps) - 1 BY <1>1, FS_RemoveElement
  <2>2. ASSUME NEW n \in Nat PROVE (n - 1) * MaxHold = n * MaxHold - MaxHold
    BY TimesAssumption
  <2> QED BY <1>1, <2>1, <2>2 DEF Work
<1>5. AgeBound = MaxDirtyAge + Poll + 2 * Work(Held) - MaxHold
  <2>1. ASSUME NEW n \in Nat PROVE (2 * n - 1) * MaxHold = 2 * (n * MaxHold) - MaxHold
    BY TimesAssumption
  <2>2. Held \in SUBSET Held OBVIOUS
  <2>3. (2 * Cardinality(Held) - 1) * MaxHold = 2 * Work(Held) - MaxHold
    BY <1>1, <2>1, <2>2 DEF Work
  <2> QED BY <1>3, <2>2, <2>3, TimesAssumption DEF AgeBound
<1>6. MaxHold <= Work(Held)
  <2>1. PICK p \in Held : TRUE BY ProjectsAssumption
  <2>2. Work(Held \ {p}) = Work(Held) - MaxHold /\ Work(Held \ {p}) \in Nat
    BY <1>3, <1>4
  <2>3. Work(Held) \in Nat BY <1>3
  <2> QED BY <2>2, <2>3, TimesAssumption
<1>7. ASSUME NEW ps \in SUBSET Held, NEW qs \in SUBSET Held, ps \subseteq qs
      PROVE  Work(ps) <= Work(qs)
  <2>1. Cardinality(ps) <= Cardinality(qs) BY <1>1, <1>7, FS_Subset
  <2> QED BY <1>1, <1>2, <2>1 DEF Work
<1> QED BY <1>3, <1>4, <1>5, <1>6, <1>7

-----------------------------------------------------------------------------
(* What holds in every state *)

\* The driver's lists and its time.
DriverOK ==
    /\ todo \cap target = {}
    /\ driver = "sleep" => left <= Poll
    /\ driver = "pass" => left = 0
    /\ driver = "flush" => left <= MaxHold /\ \E p \in Held : target = {p}

TypeInv == CadenceTypeOK /\ DriverOK

\* The age of a project, and the time until the driver looks at it again or has flushed it.
InTime(p) ==
    /\ driver = "sleep" => age[p] + left <= MaxDirtyAge + Work(Held) - MaxHold + Poll
    /\ driver \in {"pass", "flush"} =>
          /\ p \in todo => age[p] + Work(todo) + left <= AgeBound
          /\ p \in target => age[p] + left <= AgeBound
          /\ p \notin todo \cup target =>
                age[p] + Work(todo) + left <= MaxDirtyAge + Work(Held) - MaxHold

AgeInv == \A p \in Held \ failed : Dirty(p) => InTime(p)

\* A dirty project has been so, and has been quiet, since its last write at the earliest.
SinceInv ==
    \A p \in Held :
        /\ Dirty(p) /\ since[p] < Gap => still[p] <= since[p] /\ age[p] <= since[p]
        /\ p \in todo \cup target => since[p] >= Gap

-----------------------------------------------------------------------------
(* The types *)

\* The driver starts asleep, with nothing dirty.
LEMMA CadenceInitType == ASSUME CadenceInit PROVE TypeInv
<1>1. age \in [Held -> Nat \cup {Clean}] BY DEF CadenceInit
<1>2. still \in [Held -> 0 .. Quiescence] BY TimesAssumption DEF CadenceInit
<1>3. since \in [Held -> 0 .. Gap] BY GapType DEF CadenceInit
<1>4. left \in Nat /\ left <= Poll BY TimesAssumption DEF CadenceInit
<1> QED BY <1>1, <1>2, <1>3, <1>4 DEF CadenceInit, TypeInv, CadenceTypeOK, DriverOK

\* What a tick makes of the times.
LEMMA TickTimes ==
    ASSUME TypeInv, Tick, NEW p \in Held
    PROVE  /\ age'[p] \in Nat \cup {Clean} /\ (Dirty(p)' <=> Dirty(p))
           /\ Dirty(p) => age'[p] <= age[p] + 1
           /\ still'[p] \in 0 .. Quiescence /\ still'[p] <= still[p] + 1
           /\ since'[p] \in 0 .. Gap
           /\ since'[p] = since[p] + 1 \/ since'[p] = Gap
<1>1. /\ age[p] \in Nat \cup {Clean} /\ still[p] \in 0 .. Quiescence /\ since[p] \in 0 .. Gap
      /\ Quiescence \in Nat /\ Gap \in Nat /\ AgeBound \in Int /\ AgeBound >= 0
  <2>1. Work(Held) \in Nat /\ MaxHold <= Work(Held) BY WorkFacts
  <2>2. AgeBound \in Int /\ AgeBound >= 0 BY <2>1, WorkFacts, TimesAssumption
  <2> QED BY <2>2, GapType, TimesAssumption DEF TypeInv, CadenceTypeOK
<1>2. /\ age'[p] = IF Dirty(p) THEN Min({age[p] + 1, AgeBound + 1}) ELSE Clean
      /\ still'[p] = Min({still[p] + 1, Quiescence})
      /\ since'[p] = Min({since[p] + 1, Gap})
  BY DEF Tick
<1>3. Dirty(p) => age[p] \in Nat /\ age'[p] \in Nat /\ age'[p] <= age[p] + 1
  <2>1. ASSUME age[p] \in Nat PROVE Min({age[p] + 1, AgeBound + 1}) \in Nat
                                       /\ Min({age[p] + 1, AgeBound + 1}) <= age[p] + 1
    <3>1. age[p] + 1 \in Int /\ AgeBound + 1 \in Int BY <1>1, <2>1
    <3>2. /\ Min({age[p] + 1, AgeBound + 1}) \in {age[p] + 1, AgeBound + 1}
          /\ Min({age[p] + 1, AgeBound + 1}) <= age[p] + 1
      BY <3>1, MinOfTwo
    <3> QED BY <1>1, <2>1, <3>2
  <2> QED BY <1>1, <1>2, <2>1 DEF Dirty
<1>4. still'[p] \in 0 .. Quiescence /\ still'[p] <= still[p] + 1
  <2>1. still[p] + 1 \in Int /\ Quiescence \in Int BY <1>1
  <2>2. /\ still'[p] \in {still[p] + 1, Quiescence}
        /\ still'[p] <= still[p] + 1 /\ still'[p] <= Quiescence
    BY <1>2, <2>1, MinOfTwo
  <2> QED BY <1>1, <2>2
<1>5. since'[p] \in 0 .. Gap /\ (since'[p] = since[p] + 1 \/ since'[p] = Gap)
  <2>1. since[p] + 1 \in Int /\ Gap \in Int BY <1>1
  <2>2. since'[p] \in {since[p] + 1, Gap} /\ since'[p] <= Gap
    BY <1>2, <2>1, MinOfTwo
  <2> QED BY <1>1, <2>2
<1>6. Dirty(p)' <=> Dirty(p) BY <1>2, <1>3 DEF Dirty, Clean
<1> QED BY <1>2, <1>3, <1>4, <1>5, <1>6

\* Every step keeps the types, and the driver's lists apart.
LEMMA CadenceStepType ==
    ASSUME TypeInv, [CadenceNext]_cadenceVars PROVE TypeInv'
<1> USE DEF TypeInv, CadenceTypeOK, DriverOK
<1>1. ASSUME NEW p \in Held, DeferredApply(p) PROVE TypeInv'
  BY <1>1, TimesAssumption DEF DeferredApply
<1>2. ASSUME NEW p \in Held, ClientFlush(p) PROVE TypeInv'
  BY <1>2 DEF ClientFlush
<1>3. ASSUME NEW p \in Held, FlushFailed(p) PROVE TypeInv'
  BY <1>3 DEF FlushFailed
<1>4. CASE Wake
  BY <1>4 DEF Wake, Due
<1>5. CASE PassEnds
  BY <1>5, TimesAssumption DEF PassEnds
<1>6. ASSUME NEW p \in Held, FlushNext(p) PROVE TypeInv'
  BY <1>6, TimesAssumption DEF FlushNext
<1>7. ASSUME NEW p \in Held, Flushed(p) PROVE TypeInv'
  <2>1. since' \in [Held -> 0 .. Gap] BY <1>7, GapType DEF Flushed
  <2> QED BY <1>7, <2>1 DEF Flushed
<1>8. CASE StopDriver BY <1>8 DEF StopDriver
<1>9. CASE Tick
  <2>1. /\ age' \in [Held -> Nat \cup {Clean}] /\ still' \in [Held -> 0 .. Quiescence]
        /\ since' \in [Held -> 0 .. Gap]
    <3> HIDE DEF TypeInv, CadenceTypeOK, DriverOK
    <3>1. \A p \in Held : /\ age'[p] \in Nat \cup {Clean} /\ still'[p] \in 0 .. Quiescence
                          /\ since'[p] \in 0 .. Gap
      BY <1>9, TickTimes
    <3>2. /\ age' = [p \in Held |-> age'[p]] /\ still' = [p \in Held |-> still'[p]]
          /\ since' = [p \in Held |-> since'[p]]
      BY <1>9 DEF Tick
    <3> QED BY <3>1, <3>2
  <2>2. left' \in Nat /\ left' <= left /\ driver # "pass" BY <1>9 DEF Tick
  <2> QED BY <1>9, <2>1, <2>2, TimesAssumption DEF Tick
<1>10. CASE UNCHANGED cadenceVars BY <1>10 DEF cadenceVars
<1> QED
  BY <1>1, <1>2, <1>3, <1>4, <1>5, <1>6, <1>7, <1>8, <1>9, <1>10
  DEF CadenceNext, DriverStep, Joined

(***************************************************************************)
(* The types of the cadence: a flush has a project, and nothing else does. *)
(***************************************************************************)
THEOREM CadenceTypeCorrect == CadenceSpec => []CadenceTypeOK
<1>1. TypeInv => CadenceTypeOK BY DEF TypeInv
<1> QED BY <1>1, CadenceInitType, CadenceStepType, PTL DEF CadenceSpec

-----------------------------------------------------------------------------
(* Neither too late *)

\* Every step keeps a project in time that it does not make dirty, or fail; InTime is about one.
LEMMA InTimeStep ==
    ASSUME TypeInv, AgeInv, [CadenceNext]_cadenceVars, NEW p \in Held, p \notin failed',
           Dirty(p)'
    PROVE  InTime(p)'
<1> DEFINE all == Work(Held)
           now == Work(todo)
           cap == MaxDirtyAge + all - MaxHold
<1>1. /\ MaxDirtyAge \in Nat /\ Poll \in Nat /\ MaxHold \in Nat /\ all \in Nat /\ MaxHold <= all
      /\ AgeBound = cap + Poll + all
  BY WorkFacts, TimesAssumption
<1>2. TypeInv' BY CadenceStepType
<1>3. /\ now \in Nat /\ now <= all /\ left \in Nat /\ left' \in Nat
      /\ age[p] \in Nat \cup {Clean} /\ age'[p] \in Nat
      /\ todo \in SUBSET Held /\ target \in SUBSET Held /\ todo \cap target = {}
      /\ Work(todo') \in Nat
  BY <1>2, WorkFacts DEF TypeInv, CadenceTypeOK, DriverOK, Dirty
<1>4. ASSUME NEW q \in Held, q \notin todo PROVE now <= all - MaxHold
  <2> DEFINE rest == Held \ {q}
  <2>1. rest \in SUBSET Held /\ todo \subseteq rest /\ Work(rest) = all - MaxHold
    BY <1>3, <1>4, WorkFacts
  <2> QED BY <1>3, <2>1, WorkFacts
\* Two projects that the pass has not before it.
<1>5. ASSUME NEW q \in Held, q # p, q \notin todo, p \notin todo
      PROVE  now <= all - MaxHold - MaxHold
  <2> DEFINE more == todo \cup {q}
             rest == Held \ {p}
  <2>1. more \in SUBSET Held /\ q \in more /\ more \ {q} = todo BY <1>3, <1>5
  <2>2. Work(todo) = Work(more) - MaxHold /\ Work(more) \in Nat BY <2>1, WorkFacts
  <2>3. rest \in SUBSET Held /\ more \subseteq rest /\ Work(rest) = all - MaxHold
    BY <1>5, <2>1, WorkFacts
  <2>4. Work(more) <= Work(rest) BY <2>1, <2>3, WorkFacts
  <2> QED BY <1>1, <1>3, <2>2, <2>3, <2>4
<1>6. Dirty(p) /\ p \notin failed => InTime(p) BY DEF AgeInv
\* A project that goes dirty now is in time, wherever the driver is.
<1>8. ASSUME age'[p] = 0, UNCHANGED <<driver, left, todo, target>>, p \notin target
      PROVE  InTime(p)'
  <2>1. CASE driver = "sleep"
    <3>1. left <= Poll BY <2>1 DEF TypeInv, DriverOK
    <3>2. driver' = "sleep" /\ left' = left BY <1>8, <2>1
    <3> HIDE DEF all
    <3>3. age'[p] + left' <= MaxDirtyAge + all - MaxHold + Poll BY <1>1, <1>3, <1>8, <3>1, <3>2
    <3> QED BY <3>2, <3>3 DEF InTime, all
  <2>2. CASE driver = "pass" \/ driver = "flush"
    <3>1. left <= MaxHold /\ (driver = "pass" => left = 0) BY <1>1, <2>2 DEF TypeInv, DriverOK
    <3>2. now + left <= all /\ (p \notin todo => now + left <= all - MaxHold)
      <4>1. CASE driver = "pass" BY <1>1, <1>3, <1>4, <3>1, <4>1
      <4>2. CASE driver = "flush"
        <5>1. PICK q \in Held : target = {q} BY <4>2 DEF TypeInv, DriverOK
        <5>2. q # p /\ q \notin todo BY <1>3, <1>8, <5>1
        <5>3. now <= all - MaxHold BY <1>4, <5>2
        <5>4. p \notin todo => now <= all - MaxHold - MaxHold BY <1>5, <5>2
        <5> HIDE DEF now, all
        <5> QED BY <1>1, <1>3, <3>1, <5>3, <5>4
      <4> QED BY <2>2, <4>1, <4>2
    <3>3. now + left <= AgeBound BY <1>1, <1>3, <3>2
    <3> HIDE DEF all, now
    <3>4. /\ p \in todo => age'[p] + now + left <= AgeBound
          /\ p \notin todo => age'[p] + now + left <= MaxDirtyAge + all - MaxHold
      BY <1>1, <1>3, <1>8, <3>2, <3>3
    <3> QED BY <1>8, <2>2, <3>4 DEF InTime, all, now
  <2>3. CASE driver = "ended" BY <1>8, <2>3 DEF InTime
  <2> QED BY <2>1, <2>2, <2>3 DEF TypeInv, CadenceTypeOK
\* What leaves the project and the driver alone.
<1>9. ASSUME age'[p] = age[p], UNCHANGED <<driver, left, todo, target>>, p \notin failed
      PROVE  InTime(p)'
  BY <1>6, <1>9 DEF InTime, Dirty
<1>10. ASSUME NEW q \in Held, DeferredApply(q) PROVE InTime(p)'
  <2>1. UNCHANGED <<driver, left, todo, target, failed>> /\ q \notin target
           /\ age' = [age EXCEPT ![q] = IF @ = Clean THEN 0 ELSE @]
    BY <1>10 DEF DeferredApply
  <2>2. CASE age'[p] = age[p] BY <1>9, <2>1, <2>2
  <2>3. CASE age'[p] # age[p]
    <3>1. p = q /\ age'[p] = 0 BY <2>1, <2>3 DEF TypeInv, CadenceTypeOK
    <3> QED BY <1>8, <2>1, <3>1
  <2> QED BY <2>2, <2>3
<1>11. ASSUME NEW q \in Held, ClientFlush(q) PROVE InTime(p)'
  <2>1. UNCHANGED <<driver, left, todo, target>> /\ age' = [age EXCEPT ![q] = Clean]
           /\ failed' = failed \ {q}
    BY <1>11 DEF ClientFlush
  <2>2. p # q BY <2>1 DEF Dirty, TypeInv, CadenceTypeOK
  <2>3. age'[p] = age[p] /\ p \notin failed BY <2>1, <2>2 DEF TypeInv, CadenceTypeOK
  <2> QED BY <1>9, <2>1, <2>3
<1>12. ASSUME NEW q \in Held, FlushFailed(q) PROVE InTime(p)'
  <2>1. driver = "flush" /\ driver' = "pass" /\ target' = {} /\ left' = 0 /\ UNCHANGED <<age, todo>>
           /\ failed' = failed \cup {q} /\ q \in target
    BY <1>12 DEF FlushFailed
  <2>2. p # q /\ p \notin failed BY <2>1
  <2>3. target = {q} BY <2>1 DEF TypeInv, DriverOK
  <2>4. p \notin target /\ InTime(p) BY <1>6, <2>1, <2>2, <2>3 DEF Dirty
  <2>5. /\ p \in todo => age[p] + now + left <= AgeBound
        /\ p \notin todo => age[p] + now + left <= MaxDirtyAge + all - MaxHold
    BY <2>1, <2>4 DEF InTime
  <2>6. age'[p] = age[p] /\ age[p] \in Nat BY <1>3, <2>1
  <2> HIDE DEF now, all
  <2>7. /\ p \in todo => age[p] + now + 0 <= AgeBound
        /\ p \notin todo => age[p] + now + 0 <= MaxDirtyAge + all - MaxHold
    BY <1>1, <1>3, <2>5, <2>6
  <2> QED BY <2>1, <2>7 DEF InTime, now, all
<1>13. CASE Wake
  <2>1. driver = "sleep" /\ left = 0 /\ UNCHANGED <<age, left, target, failed>>
           /\ (IF stopping THEN driver' = "ended" /\ UNCHANGED todo ELSE driver' = "pass" /\ todo' = Due)
    BY <1>13 DEF Wake
  <2>2. target = {} BY <2>1 DEF TypeInv, CadenceTypeOK
  <2>3. age[p] <= cap + Poll
    BY <1>1, <1>3, <1>6, <2>1 DEF InTime, Dirty
  <2>4. CASE ~ stopping
    <3>1. Work(todo') <= all /\ (p \notin todo' => Work(todo') <= all - MaxHold)
      <4>1. todo' \in SUBSET Held BY <1>2 DEF TypeInv, CadenceTypeOK
      <4>2. p \notin todo' => todo' \subseteq Held \ {p} BY <4>1
      <4>3. Work(Held \ {p}) = all - MaxHold /\ Held \ {p} \in SUBSET Held BY WorkFacts
      <4> QED BY <4>1, <4>2, <4>3, WorkFacts
    <3>2. p \notin todo' => age[p] <= MaxDirtyAge
      <4> SUFFICES ASSUME p \notin todo' PROVE age[p] <= MaxDirtyAge OBVIOUS
      <4>1. ~ (age[p] >= MaxDirtyAge) BY <2>1, <2>4 DEF Due, Dirty
      <4> QED BY <1>1, <1>3, <2>1, <4>1
    <3>3. driver' = "pass" /\ left' = 0 /\ target' = {} /\ age'[p] = age[p] BY <2>1, <2>2, <2>4
    <3> DEFINE next == Work(todo')
    <3>4. next \in Nat /\ age[p] \in Nat BY <1>3, <2>1
    <3> HIDE DEF next, all
    <3>5. /\ p \in todo' => age[p] + next + 0 <= AgeBound
          /\ p \notin todo' => age[p] + next + 0 <= MaxDirtyAge + all - MaxHold
      BY <1>1, <2>3, <3>1, <3>2, <3>4 DEF next
    <3> QED BY <3>3, <3>5 DEF InTime, Work, next, all
  <2>5. CASE stopping BY <2>1, <2>5 DEF InTime
  <2> QED BY <2>4, <2>5 DEF TypeInv, CadenceTypeOK
<1>14. CASE PassEnds
  <2>1. driver = "pass" /\ todo = {} /\ UNCHANGED <<age, todo, target, failed>>
           /\ (IF stopping THEN driver' = "ended" /\ UNCHANGED left ELSE driver' = "sleep" /\ left' = Poll)
    BY <1>14 DEF PassEnds
  <2>2. target = {} /\ left = 0 BY <2>1 DEF TypeInv, CadenceTypeOK, DriverOK
  <2>3. age[p] + now + left <= MaxDirtyAge + all - MaxHold
    BY <1>6, <2>1, <2>2 DEF InTime, Dirty
  <2>4. age'[p] = age[p] /\ age[p] \in Nat BY <1>3, <2>1
  <2>5. driver' = "sleep" => left' = Poll BY <2>1
  <2> HIDE DEF now, all
  <2>6. age[p] + Poll <= MaxDirtyAge + all - MaxHold + Poll
    BY <1>1, <1>3, <2>3, <2>4
  <2> QED BY <2>1, <2>4, <2>5, <2>6 DEF InTime, all
<1>15. ASSUME NEW q \in Held, FlushNext(q) PROVE InTime(p)'
  <2>1. driver = "pass" /\ left = 0 /\ target = {} /\ q \in todo /\ todo' = todo \ {q}
           /\ UNCHANGED <<age, failed>>
    BY <1>15 DEF FlushNext, TypeInv, CadenceTypeOK, DriverOK
  <2>2. /\ age'[p] = age[p] /\ age[p] \in Nat
        /\ p \in todo => age[p] + now + 0 <= AgeBound
        /\ p \notin todo => age[p] + now + 0 <= MaxDirtyAge + all - MaxHold
    BY <1>3, <1>6, <2>1 DEF InTime, Dirty
  <2>3. Work(todo') = now - MaxHold BY <1>3, <2>1, WorkFacts
  <2> DEFINE next == Work(todo')
  <2>4. /\ p \in todo => age[p] + next + MaxHold <= AgeBound /\ age[p] + MaxHold <= AgeBound
        /\ p \notin todo => age[p] + next + MaxHold <= MaxDirtyAge + all - MaxHold
        /\ p \in todo => age[p] + next <= AgeBound
        /\ p \notin todo => age[p] + next <= MaxDirtyAge + all - MaxHold
    <3>1. next = now - MaxHold /\ next \in Nat BY <1>3, <2>3
    <3> HIDE DEF next, now, all
    <3> QED BY <1>1, <1>3, <2>2, <3>1
  <2>5. CASE ~ Dirty(q)
    <3>1. driver' = "pass" /\ target' = {} /\ left' = 0 BY <1>15, <2>1, <2>5 DEF FlushNext
    <3>2. p # q BY <2>1, <2>5 DEF Dirty
    <3>3. age[p] + next + 0 = age[p] + next BY <1>3, <2>2
    <3> QED BY <2>1, <2>2, <2>4, <3>1, <3>2, <3>3 DEF InTime, Work
  <2>6. CASE Dirty(q)
    <3>1. driver' = "flush" /\ target' = {q} /\ left' = MaxHold BY <1>15, <2>6 DEF FlushNext
    <3> QED BY <2>1, <2>2, <2>4, <3>1 DEF InTime, Work
  <2> QED BY <2>5, <2>6
<1>16. ASSUME NEW q \in Held, Flushed(q) PROVE InTime(p)'
  <2>1. driver = "flush" /\ q \in target /\ age' = [age EXCEPT ![q] = Clean]
           /\ failed' = failed \ {q} /\ driver' = "pass" /\ target' = {} /\ left' = 0
           /\ todo' = todo
    BY <1>16 DEF Flushed
  <2>2. p # q BY <2>1 DEF Dirty, TypeInv, CadenceTypeOK
  <2>3. p \notin failed /\ age'[p] = age[p] /\ p \notin target
    BY <2>1, <2>2 DEF TypeInv, CadenceTypeOK, DriverOK
  <2>4. /\ p \in todo => age[p] + now + left <= AgeBound
        /\ p \notin todo => age[p] + now + left <= MaxDirtyAge + all - MaxHold
    BY <1>6, <2>1, <2>3 DEF InTime, Dirty
  <2>5. age[p] \in Nat BY <1>3, <2>3
  <2> HIDE DEF now, all
  <2>6. /\ p \in todo => age[p] + now + 0 <= AgeBound
        /\ p \notin todo => age[p] + now + 0 <= MaxDirtyAge + all - MaxHold
    BY <1>1, <1>3, <2>4, <2>5
  <2> QED BY <2>1, <2>3, <2>6 DEF InTime, now, all
<1>17. CASE StopDriver BY <1>9, <1>17 DEF StopDriver
<1>18. CASE Tick
  <2>1. driver \in {"sleep", "flush"} /\ left > 0 /\ left' = left - 1
           /\ UNCHANGED <<driver, todo, target, failed>>
    BY <1>18 DEF Tick
  <2>2. Dirty(p) /\ age'[p] <= age[p] + 1 BY <1>18, TickTimes
  <2>3. age[p] \in Nat /\ age'[p] + left' <= age[p] + left
    BY <1>3, <2>1, <2>2 DEF Dirty
  <2>4. InTime(p) BY <1>6, <2>1, <2>2
  <2>5. CASE driver = "sleep"
    <3>1. age[p] + left <= MaxDirtyAge + all - MaxHold + Poll BY <2>4, <2>5 DEF InTime
    <3>2. age'[p] + left' <= MaxDirtyAge + all - MaxHold + Poll
      <4> HIDE DEF all
      <4> QED BY <1>1, <1>3, <2>3, <3>1
    <3> QED BY <2>1, <2>5, <3>2 DEF InTime
  <2>6. CASE driver = "flush"
    <3>1. /\ p \in todo => age[p] + now + left <= AgeBound
          /\ p \in target => age[p] + left <= AgeBound
          /\ p \notin todo \cup target => age[p] + now + left <= MaxDirtyAge + all - MaxHold
      BY <2>4, <2>6 DEF InTime
    <3>2. /\ p \in todo => age'[p] + now + left' <= AgeBound
          /\ p \in target => age'[p] + left' <= AgeBound
          /\ p \notin todo \cup target => age'[p] + now + left' <= MaxDirtyAge + all - MaxHold
      <4> HIDE DEF all, now
      <4> QED BY <1>1, <1>3, <2>3, <3>1
    <3> QED BY <2>1, <2>6, <3>2 DEF InTime
  <2> QED BY <2>1, <2>5, <2>6
<1>19. CASE UNCHANGED cadenceVars BY <1>9, <1>19 DEF cadenceVars
<1> QED
  BY <1>10, <1>11, <1>12, <1>13, <1>14, <1>15, <1>16, <1>17, <1>18, <1>19
  DEF CadenceNext, DriverStep, Joined

-----------------------------------------------------------------------------
(* Nor too often *)

\* Only the driver's own flush starts the window anew, and an apply that makes a project dirty does
\* so at its beginning; so that what is due has had its window.
LEMMA SinceStep ==
    ASSUME TypeInv, SinceInv, [CadenceNext]_cadenceVars PROVE SinceInv'
<1>1. /\ age \in [Held -> Nat \cup {Clean}] /\ still \in [Held -> 0 .. Quiescence]
      /\ since \in [Held -> 0 .. Gap] /\ todo \subseteq Held /\ target \subseteq Held
      /\ todo \cap target = {} /\ (driver # "flush" <=> target = {})
      /\ (driver = "flush" => \E p \in Held : target = {p})
      /\ Gap \in Nat /\ Gap <= Quiescence /\ Gap <= MaxDirtyAge
      /\ Quiescence \in Nat /\ MaxDirtyAge \in Nat
  BY GapType, TimesAssumption DEF TypeInv, CadenceTypeOK, DriverOK
<1>2. ASSUME UNCHANGED <<age, still, since>>, todo' \cup target' \subseteq todo \cup target
      PROVE  SinceInv'
  BY <1>2 DEF SinceInv, Dirty
<1>3. ASSUME NEW p \in Held, DeferredApply(p) PROVE SinceInv'
  <2> SUFFICES ASSUME NEW q \in Held
               PROVE  /\ Dirty(q)' /\ since'[q] < Gap => still'[q] <= since'[q] /\ age'[q] <= since'[q]
                      /\ q \in todo' \cup target' => since'[q] >= Gap
    BY DEF SinceInv
  <2>1. UNCHANGED <<since, todo, target>> BY <1>3 DEF DeferredApply
  <2>2. /\ age'[p] = IF age[p] = Clean THEN 0 ELSE age[p]
        /\ still'[p] = 0
        /\ \A r \in Held \ {p} : age'[r] = age[r] /\ still'[r] = still[r]
    BY <1>1, <1>3 DEF DeferredApply
  <2>3. since[q] \in Nat BY <1>1
  <2>4. CASE q = p BY <2>1, <2>2, <2>3, <2>4 DEF SinceInv, Dirty
  <2>5. CASE q # p BY <2>1, <2>2, <2>5 DEF SinceInv, Dirty
  <2> QED BY <2>4, <2>5
<1>4. ASSUME NEW p \in Held, age' = [age EXCEPT ![p] = Clean], still' = still,
             since' = since \/ (since' = [since EXCEPT ![p] = 0] /\ p \notin todo' \cup target'),
             todo' \cup target' \subseteq todo \cup target
      PROVE  SinceInv'
  <2> SUFFICES ASSUME NEW q \in Held
               PROVE  /\ Dirty(q)' /\ since'[q] < Gap => still'[q] <= since'[q] /\ age'[q] <= since'[q]
                      /\ q \in todo' \cup target' => since'[q] >= Gap
    BY DEF SinceInv
  <2>1. CASE q = p BY <1>1, <1>4, <2>1 DEF SinceInv, Dirty
  <2>2. CASE q # p BY <1>1, <1>4, <2>2 DEF SinceInv, Dirty
  <2> QED BY <2>1, <2>2
<1>5. ASSUME NEW p \in Held, ClientFlush(p) PROVE SinceInv'
  BY <1>4, <1>5 DEF ClientFlush
<1>6. ASSUME NEW p \in Held, FlushFailed(p) PROVE SinceInv'
  BY <1>2, <1>6 DEF FlushFailed
<1>7. CASE Wake
  <2>1. UNCHANGED <<age, still, since, target>> /\ target = {} /\ (todo' = todo \/ todo' = Due)
    BY <1>1, <1>7 DEF Wake
  <2>2. \A q \in Due : since[q] >= Gap
    <3> SUFFICES ASSUME NEW q \in Held, Dirty(q), still[q] >= Quiescence \/ age[q] >= MaxDirtyAge,
                        since[q] < Gap
                 PROVE  FALSE
      BY <1>1 DEF Due
    <3>1. still[q] <= since[q] /\ age[q] <= since[q] BY DEF SinceInv
    <3>2. since[q] \in Nat /\ still[q] \in Nat /\ age[q] \in Int BY <1>1 DEF Clean
    <3> QED BY <1>1, <3>1, <3>2
  <2> QED BY <1>2, <2>1, <2>2 DEF SinceInv, Dirty
<1>8. CASE PassEnds BY <1>2, <1>8 DEF PassEnds
<1>9. ASSUME NEW p \in Held, FlushNext(p) PROVE SinceInv'
  <2>1. todo' \cup target' \subseteq todo \cup target BY <1>9 DEF FlushNext
  <2> QED BY <1>2, <1>9, <2>1 DEF FlushNext
<1>10. ASSUME NEW p \in Held, Flushed(p) PROVE SinceInv'
  <2>1. target = {p} BY <1>1, <1>10 DEF Flushed
  <2>2. p \notin todo' \cup target' /\ todo' \cup target' \subseteq todo \cup target
    BY <1>1, <1>10, <2>1 DEF Flushed
  <2> QED BY <1>4, <1>10, <2>2 DEF Flushed
<1>11. CASE StopDriver BY <1>2, <1>11 DEF StopDriver
<1>12. CASE Tick
  <2> SUFFICES ASSUME NEW q \in Held
               PROVE  /\ Dirty(q)' /\ since'[q] < Gap => still'[q] <= since'[q] /\ age'[q] <= since'[q]
                      /\ q \in todo' \cup target' => since'[q] >= Gap
    BY DEF SinceInv
  <2>1. UNCHANGED <<todo, target>> BY <1>12 DEF Tick
  <2>2. /\ Dirty(q)' <=> Dirty(q)
        /\ Dirty(q) => age'[q] <= age[q] + 1
        /\ still'[q] <= still[q] + 1
        /\ since'[q] = since[q] + 1 \/ since'[q] = Gap
        /\ age'[q] \in Int /\ still'[q] \in Int
    BY <1>12, TickTimes DEF Clean
  <2>3. age[q] \in Int /\ still[q] \in Int /\ since[q] \in 0 .. Gap BY <1>1 DEF Clean
  <2>4. /\ Dirty(q) /\ since[q] < Gap => still[q] <= since[q] /\ age[q] <= since[q]
        /\ q \in todo \cup target => since[q] >= Gap
    BY DEF SinceInv
  <2>5. Dirty(q)' /\ since'[q] < Gap => still'[q] <= since'[q] /\ age'[q] <= since'[q]
    BY <1>1, <2>2, <2>3, <2>4
  <2>6. since[q] >= Gap => since'[q] >= Gap BY <1>1, <2>2, <2>3
  <2> QED BY <2>1, <2>4, <2>5, <2>6
<1>13. CASE UNCHANGED cadenceVars BY <1>2, <1>13 DEF cadenceVars
<1> QED
  BY <1>3, <1>5, <1>6, <1>7, <1>8, <1>9, <1>10, <1>11, <1>12, <1>13
  DEF CadenceNext, DriverStep, Joined

\* The driver starts asleep, with nothing dirty and every window over.
LEMMA CadenceInitInv == ASSUME CadenceInit PROVE AgeInv /\ SinceInv
<1>1. Gap >= Gap BY GapType
<1>2. \A p \in Held : ~ Dirty(p) /\ since[p] = Gap BY DEF CadenceInit, Dirty
<1>3. todo = {} /\ target = {} BY DEF CadenceInit
<1> QED BY <1>1, <1>2, <1>3 DEF AgeInv, SinceInv

(***************************************************************************)
(* A project is never dirty for longer than the cap, a poll, a pass that   *)
(* just missed it and one that has it, for any number of projects and any  *)
(* times, while other projects' writes fail, are flushed by clients and go *)
(* dirty anew; and the driver writes it at most once in a window.           *)
(***************************************************************************)
THEOREM CadenceKeepsTime == CadenceSpec => WritesAreTimely
<1> DEFINE Coalesced == \A p \in Held : p \in target /\ Dirty(p) /\ age'[p] = Clean
                           => since[p] >= Gap
<1>1. CadenceInit => TypeInv /\ AgeInv /\ SinceInv BY CadenceInitType, CadenceInitInv
<1>2. TypeInv /\ AgeInv /\ SinceInv /\ [CadenceNext]_cadenceVars =>
         TypeInv' /\ AgeInv' /\ SinceInv'
  <2>1. TypeInv /\ AgeInv /\ [CadenceNext]_cadenceVars => AgeInv'
    BY InTimeStep DEF AgeInv
  <2> QED BY <2>1, CadenceStepType, SinceStep
<1>3. TypeInv /\ AgeInv => DirtyAgeBounded
  <2> SUFFICES ASSUME TypeInv, AgeInv, driver # "ended", NEW p \in Held \ failed
               PROVE  age[p] <= AgeBound
    BY DEF DirtyAgeBounded
  <2> DEFINE all == Work(Held)
             now == Work(todo)
  <2>1. /\ MaxDirtyAge \in Nat /\ Poll \in Nat /\ MaxHold \in Nat /\ all \in Nat /\ MaxHold <= all
        /\ AgeBound = MaxDirtyAge + Poll + 2 * all - MaxHold
    BY WorkFacts, TimesAssumption
  <2>2. left \in Nat /\ now \in Nat /\ age[p] \in Nat \cup {Clean}
    BY WorkFacts DEF TypeInv, CadenceTypeOK
  <2>3. CASE ~ Dirty(p) BY <2>1, <2>3 DEF Dirty, Clean
  <2>4. CASE Dirty(p)
    <3>1. age[p] \in Nat BY <2>2, <2>4 DEF Dirty
    <3>2. InTime(p) BY <2>4 DEF AgeInv
    <3>3. \/ age[p] + left <= MaxDirtyAge + all - MaxHold + Poll
          \/ age[p] + now + left <= AgeBound
          \/ age[p] + left <= AgeBound
          \/ age[p] + now + left <= MaxDirtyAge + all - MaxHold
      BY <3>2 DEF InTime, TypeInv, CadenceTypeOK
    <3> HIDE DEF all, now
    <3> QED BY <2>1, <2>2, <3>1, <3>3
  <2> QED BY <2>3, <2>4
<1>4. SinceInv => [Coalesced]_cadenceVars BY DEF SinceInv
<1> QED BY <1>1, <1>2, <1>3, <1>4, PTL DEF CadenceSpec, WritesAreTimely, CoalescedWrites
=============================================================================
