------------------------- MODULE OrchestrationProofs ------------------------
(***************************************************************************)
(* Safety of Orchestration for any vocabulary, any sources and any         *)
(* resolver, and the proof that it implements PlanRun.  The properties     *)
(* speak of concluded steps; what makes them true is the shape of the step *)
(* in progress (Shape), which holds until the step concludes and is then   *)
(* frozen.                                                                 *)
(***************************************************************************)
EXTENDS Orchestration, TLAPS

\* How far an invoked step is: a discover step has asked every candidate, a
\* fallback step the first k, of which all but the last have failed, and the
\* last too only if there is no other.
Shape(c, o) ==
    /\ \A s \in Sources \ SourcesOf(c) : o[s] = Untried
    /\ KindOf[c] = "discover" => \A s \in SourcesOf(c) : o[s] # Untried
    /\ KindOf[c] # "discover" => \E k \in DOMAIN Candidates[c] :
          \A i \in DOMAIN Candidates[c] :
             /\ i < k => o[Candidates[c][i]] \in Categories
             /\ i > k => o[Candidates[c][i]] = Untried
             /\ i = k => /\ o[Candidates[c][i]] # Untried
                         /\ o[Candidates[c][i]] \in Categories => k = Len(Candidates[c])

Touched(c) == \E s \in Sources : fate[c][s] # Untried
Answered(c) == \E s \in Sources : fate[c][s] = "ok"

\* The step in progress is the first one left.
InProgress ==
    phase = "invoking" =>
        /\ step \in plan \ Concluded
        /\ outcomes = fate[step]
        /\ Shape(step, outcomes)
        /\ \A d \in plan \ Concluded : d = step \/ Before(step, d)

\* Concluded steps are over, and only the last of a run that raised failed.
Past ==
    /\ \A c \in plan : Candidates[c] # <<>>
    /\ Concluded \subseteq plan
    /\ phase = "asked" => Concluded = {}
    /\ phase = "returned" => plan \subseteq Concluded
    /\ \A c \in Concluded : /\ Shape(c, fate[c])
                            /\ \A s \in Sources : fate[c][s] # Running
                            /\ provenance[c].used = {s \in Sources : fate[c][s] = "ok"}
                            /\ provenance[c].failed = {s \in Sources : fate[c][s] \in Categories}
                            /\ Answered(c) \/ phase = "raised"

\* A source is asked only for a step whose turn has come.
TurnsKept ==
    \A d \in Capabilities : Touched(d) =>
        \A c \in plan : Before(c, d) => c \in Concluded /\ Answered(c)

\* Outside the step in progress nothing is asked of a step that has not concluded.
Untouched ==
    phase \notin {"cancelled"} =>
        \A c \in Capabilities \ Concluded : (phase = "invoking" /\ c = step) \/ ~Touched(c)

\* Nothing is answered before the request ends.
Unanswered == phase \notin {"returned", "raised"} => reply = "none"

Inv ==
    /\ TypeOK
    /\ Unanswered
    /\ InProgress
    /\ Past
    /\ TurnsKept
    /\ Untouched
    /\ LabelIsHonest

-----------------------------------------------------------------------------

\* The order of steps is strict.
LEMMA BeforeIsStrict ==
    ASSUME NEW c \in Capabilities, NEW d \in Capabilities, Before(c, d)
    PROVE  c # d /\ ~Before(d, c)
<1>1. KindOf[c] \in {"discover", "process", "analyze"} /\ KindOf[d] \in {"discover", "process", "analyze"}
  BY RouterAssumption DEF KindOrder
<1>2. \A k \in {"discover", "process", "analyze"} : KindOrder[k] \in Nat
  BY DEF KindOrder
<1>3. Position[c] \in Nat /\ Position[d] \in Nat
  BY RouterAssumption
<1>4. KindOrder[KindOf[c]] \in Nat /\ KindOrder[KindOf[d]] \in Nat
  BY <1>1, <1>2
<1> QED
  BY <1>3, <1>4 DEF Before

\* Candidates are sources, each listed once.
LEMMA CandidateFacts ==
    ASSUME NEW c \in Capabilities
    PROVE  /\ Len(Candidates[c]) \in Nat
           /\ DOMAIN Candidates[c] = 1..Len(Candidates[c])
           /\ \A i \in DOMAIN Candidates[c] : Candidates[c][i] \in Sources
           /\ SourcesOf(c) \subseteq Sources
           /\ \A i, j \in DOMAIN Candidates[c] : Candidates[c][i] = Candidates[c][j] => i = j
           /\ Candidates[c] # <<>> => 1 \in DOMAIN Candidates[c]
<1>1. Candidates[c] \in Seq(Sources)
  BY RouterAssumption
<1>2. /\ Len(Candidates[c]) \in Nat
      /\ DOMAIN Candidates[c] = 1..Len(Candidates[c])
      /\ \A i \in DOMAIN Candidates[c] : Candidates[c][i] \in Sources
  BY <1>1
<1>3. Candidates[c] # <<>> => 1 \in DOMAIN Candidates[c]
  BY <1>1, <1>2
<1> QED
  BY <1>2, <1>3, RouterAssumption DEF SourcesOf

LEMMA InitInv == Init => Inv
<1> SUFFICES ASSUME Init PROVE Inv
  OBVIOUS
<1>1. Concluded = {}
  BY DEF Init, Concluded
<1>2. TypeOK
  BY <1>1 DEF Init, TypeOK, Ended
<1>3. InProgress /\ Past /\ TurnsKept /\ Untouched /\ LabelIsHonest /\ Unanswered
  BY <1>1 DEF Init, Unanswered, InProgress, Past, TurnsKept, Untouched, LabelIsHonest, Touched
<1> QED
  BY <1>2, <1>3 DEF Inv

\* Beginning a step: the shape a step starts with.
LEMMA FreshShape ==
    ASSUME NEW c \in Capabilities, Candidates[c] # <<>>, NEW o,
           \A s \in Sources : o[s] =
              IF s \in (IF KindOf[c] = "discover" THEN SourcesOf(c) ELSE {Candidates[c][1]})
              THEN Running ELSE Untried
    PROVE  Shape(c, o) /\ \E s \in Sources : o[s] # Untried
<1> USE CandidateFacts
<1> DEFINE C == Candidates[c]
           S == IF KindOf[c] = "discover" THEN SourcesOf(c) ELSE {C[1]}
<1>1. C[1] \in Sources /\ C[1] \in SourcesOf(c) /\ 1 \in DOMAIN C
  BY DEF SourcesOf
<1>2. \A s \in Sources : o[s] = IF s \in S THEN "running" ELSE "untried"
  BY DEF Running, Untried
<1>3. S \subseteq SourcesOf(c) /\ C[1] \in S
  BY <1>1
<1>4. \A s \in Sources \ SourcesOf(c) : o[s] = Untried
  BY <1>2, <1>3 DEF Untried
<1>5. KindOf[c] = "discover" => \A s \in SourcesOf(c) : o[s] # Untried
  BY <1>2 DEF Untried
<1>6. ASSUME KindOf[c] # "discover", NEW i \in DOMAIN C
      PROVE  /\ i < 1 => o[C[i]] \in Categories
             /\ i > 1 => o[C[i]] = Untried
             /\ i = 1 => /\ o[C[i]] # Untried
                         /\ o[C[i]] \in Categories => 1 = Len(C)
  <2>1. i >= 1 /\ C[i] \in Sources /\ (i # 1 => C[i] # C[1])
    BY <1>1
  <2>2. i > 1 => C[i] \notin S
    BY <1>6, <2>1
  <2> QED
    BY <1>2, <1>3, <2>1, <2>2 DEF Untried, Categories
<1>7. KindOf[c] # "discover" => \E k \in DOMAIN C : \A i \in DOMAIN C :
             /\ i < k => o[C[i]] \in Categories
             /\ i > k => o[C[i]] = Untried
             /\ i = k => /\ o[C[i]] # Untried
                         /\ o[C[i]] \in Categories => k = Len(C)
  BY <1>1, <1>6
<1>8. o[C[1]] # Untried
  BY <1>1, <1>2, <1>3 DEF Untried
<1> QED
  BY <1>1, <1>4, <1>5, <1>7, <1>8 DEF Shape

\* The outcomes of step c after its invocation of s ended as how.
After(c, s, how, old) ==
    LET next == {Candidates[c][i + 1] : i \in
                   {j \in DOMAIN Candidates[c] : Candidates[c][j] = s /\ j < Len(Candidates[c])}}
        more == IF KindOf[c] # "discover" /\ how # "ok" THEN next ELSE {}
    IN  [t \in Sources |-> IF t = s THEN how ELSE IF t \in more THEN Running ELSE old[t]]

\* An invocation that ends leaves the step in shape.
LEMMA ShapeKept ==
    ASSUME NEW c \in Capabilities, NEW s \in Sources, NEW how \in Ended,
           NEW o \in [Sources -> Ended \cup {Untried, Running}],
           Shape(c, o), o[s] = Running
    PROVE  /\ Shape(c, After(c, s, how, o))
           /\ After(c, s, how, o) \in [Sources -> Ended \cup {Untried, Running}]
           /\ After(c, s, how, o)[s] # Untried
<1> USE CandidateFacts
<1> DEFINE C == Candidates[c]
           next == {C[i + 1] : i \in {j \in DOMAIN C : C[j] = s /\ j < Len(C)}}
           more == IF KindOf[c] # "discover" /\ how # "ok" THEN next ELSE {}
           new == After(c, s, how, o)
<1>1. \A t \in Sources : new[t] = IF t = s THEN how ELSE IF t \in more THEN Running ELSE o[t]
  BY DEF After
<1>2. new \in [Sources -> Ended \cup {Untried, Running}]
  BY DEF After
<1>3. how # Untried /\ how # Running /\ Running # Untried /\ Running \notin Categories
      /\ Untried \notin Categories /\ "ok" \notin Categories
  BY DEF Ended, Categories, Untried, Running
<1>4. s \in SourcesOf(c) /\ more \subseteq SourcesOf(c)
  <2>1. s \in SourcesOf(c)
    BY <1>3 DEF Shape
  <2>2. next \subseteq SourcesOf(c)
    BY DEF SourcesOf
  <2> QED
    BY <2>1, <2>2
<1>5. \A t \in Sources \ SourcesOf(c) : new[t] = Untried
  BY <1>1, <1>4 DEF Shape
<1>6. KindOf[c] = "discover" => \A t \in SourcesOf(c) : new[t] # Untried
  BY <1>1, <1>3 DEF Shape
<1>7. ASSUME KindOf[c] # "discover"
      PROVE  \E k \in DOMAIN C : \A i \in DOMAIN C :
             /\ i < k => new[C[i]] \in Categories
             /\ i > k => new[C[i]] = Untried
             /\ i = k => /\ new[C[i]] # Untried
                         /\ new[C[i]] \in Categories => k = Len(C)
  <2>1. PICK k \in DOMAIN C : \A i \in DOMAIN C :
             /\ i < k => o[C[i]] \in Categories
             /\ i > k => o[C[i]] = Untried
             /\ i = k => /\ o[C[i]] # Untried
                         /\ o[C[i]] \in Categories => k = Len(C)
    BY <1>7 DEF Shape
  <2>2. PICK n \in DOMAIN C : C[n] = s
    BY <1>4 DEF SourcesOf
  <2>3. n = k
    <3>1. n \in Nat /\ k \in Nat
      OBVIOUS
    <3> QED
      BY <1>3, <2>1, <2>2, <3>1
  <2>4. next = IF k < Len(C) THEN {C[k + 1]} ELSE {}
    <3>1. \A j \in DOMAIN C : C[j] = s <=> j = k
      BY <2>2, <2>3
    <3> QED
      BY <3>1
  <2>5. CASE how = "ok" \/ k = Len(C)
    <3>1. more = {}
      <4>1. CASE how = "ok"
        BY <4>1
      <4>2. CASE k = Len(C)
        <5>1. ~(k < Len(C))
          BY <4>2
        <5>2. next = {}
          BY <2>4, <5>1
        <5> QED
          BY <5>2
      <4> QED
        BY <2>5, <4>1, <4>2
    <3>2. ASSUME NEW i \in DOMAIN C
          PROVE  /\ i < k => new[C[i]] \in Categories
                 /\ i > k => new[C[i]] = Untried
                 /\ i = k => /\ new[C[i]] # Untried
                             /\ new[C[i]] \in Categories => k = Len(C)
      <4>1. i # k => C[i] # s
        BY <2>2, <2>3
      <4>2. i # k => new[C[i]] = o[C[i]]
        BY <1>1, <3>1, <4>1
      <4>3. i = k => new[C[i]] = how
        BY <1>1, <2>2, <2>3
      <4>4. how \in Categories => k = Len(C)
        BY <1>3, <2>5
      <4> QED
        BY <1>3, <2>1, <4>2, <4>3, <4>4
    <3> QED
      BY <3>2
  <2>6. CASE how # "ok" /\ k # Len(C)
    <3>1. k < Len(C) /\ k + 1 \in DOMAIN C
      BY <2>6
    <3>2. more = {C[k + 1]}
      BY <1>7, <2>4, <2>6, <3>1
    <3>3. how \in Categories
      BY <2>6 DEF Ended
    <3>4. ASSUME NEW i \in DOMAIN C
          PROVE  /\ i < k + 1 => new[C[i]] \in Categories
                 /\ i > k + 1 => new[C[i]] = Untried
                 /\ i = k + 1 => /\ new[C[i]] # Untried
                                 /\ new[C[i]] \in Categories => k + 1 = Len(C)
      <4>1. (i # k => C[i] # s) /\ (i # k + 1 => C[i] # C[k + 1])
        BY <2>2, <2>3, <3>1
      <4>2. i = k => new[C[i]] = how
        BY <1>1, <2>2, <2>3
      <4>3. i = k + 1 => new[C[i]] = Running
        <5>1. ASSUME i = k + 1 PROVE C[i] \in Sources /\ C[i] # s /\ C[i] \in more
          <6>1. i # k
            BY <5>1
          <6>2. C[i] \in more
            BY <3>2, <5>1
          <6> QED
            BY <4>1, <6>1, <6>2
        <5> QED
          BY <1>1, <5>1
      <4>4. i # k /\ i # k + 1 => new[C[i]] = o[C[i]]
        BY <1>1, <3>2, <4>1
      <4>5. i < k + 1 => i = k \/ (i # k + 1 /\ i < k)
        OBVIOUS
      <4>6. i > k + 1 => i # k /\ i > k /\ i # k + 1
        OBVIOUS
      <4> QED
        BY <1>3, <2>1, <3>3, <4>2, <4>3, <4>4, <4>5, <4>6
    <3> QED
      BY <3>1, <3>4
  <2> QED
    BY <2>5, <2>6
<1>8. new[s] # Untried
  BY <1>1, <1>3
<1> QED
  BY <1>2, <1>5, <1>6, <1>7, <1>8 DEF Shape

\* A step in shape that runs no more and got no answer has asked every candidate.
LEMMA AllAskedInVain ==
    ASSUME NEW c \in Capabilities, NEW o \in [Sources -> Ended \cup {Untried, Running}],
           Shape(c, o), \A s \in Sources : o[s] # Running /\ o[s] # "ok"
    PROVE  \A s \in SourcesOf(c) : o[s] \in Categories
<1> USE CandidateFacts
<1> DEFINE C == Candidates[c]
<1>1. \A s \in Sources : o[s] # Untried => o[s] \in Categories
  BY DEF Ended
<1>2. CASE KindOf[c] = "discover"
  BY <1>1, <1>2 DEF Shape
<1>3. CASE KindOf[c] # "discover"
  <2>1. PICK k \in DOMAIN C : \A i \in DOMAIN C :
             /\ i < k => o[C[i]] \in Categories
             /\ i > k => o[C[i]] = Untried
             /\ i = k => /\ o[C[i]] # Untried
                         /\ o[C[i]] \in Categories => k = Len(C)
    BY <1>3 DEF Shape
  <2>2. o[C[k]] \in Categories /\ k = Len(C)
    BY <1>1, <2>1
  <2>3. ASSUME NEW s \in SourcesOf(c)
        PROVE  o[s] \in Categories
    <3>1. PICK i \in DOMAIN C : C[i] = s
      BY <2>3 DEF SourcesOf
    <3>2. i < k \/ i = k
      BY <2>2
    <3> QED
      BY <2>1, <2>2, <3>1, <3>2
  <2> QED
    BY <2>3
<1> QED
  BY <1>2, <1>3

LEMMA StepInv == Inv /\ [Next]_vars => Inv'
<1> SUFFICES ASSUME Inv, [Next]_vars
             PROVE  Inv'
  OBVIOUS
<1> USE DEF Inv
<1>1. CASE Plan
  <2>1. PICK mentioned \in SUBSET Capabilities :
          plan' = {c \in mentioned : Candidates[c] # <<>>}
    BY <1>1 DEF Plan
  <2>2. /\ phase = "asked" /\ phase' = "between" /\ Concluded = {} /\ Concluded' = {}
        /\ UNCHANGED <<step, outcomes, provenance, analysis, reply, fate>>
    BY <1>1 DEF Plan, Past, Concluded
  <2>3. TypeOK'
    BY <2>1, <2>2 DEF TypeOK
  <2>4. Past' /\ InProgress'
    BY <2>1, <2>2 DEF Past, InProgress
  <2>5. \A c \in Capabilities : ~Touched(c)
    BY <2>2 DEF Untouched
  <2>6. TurnsKept' /\ Untouched'
    BY <2>2, <2>5 DEF TurnsKept, Untouched, Touched
  <2>7. LabelIsHonest' /\ Unanswered'
    BY <2>2 DEF LabelIsHonest, Unanswered
  <2> QED
    BY <2>3, <2>4, <2>6, <2>7
<1>2. ASSUME NEW c \in Capabilities, BeginStep(c)
      PROVE  Inv'
  <2> DEFINE S == IF KindOf[c] = "discover" THEN SourcesOf(c) ELSE {Candidates[c][1]}
  <2>1. /\ phase = "between" /\ phase' = "invoking" /\ step' = c /\ c \in plan /\ c \notin Concluded
        /\ Concluded' = Concluded
        /\ UNCHANGED <<plan, provenance, analysis, reply>>
        /\ \A d \in plan \ Concluded : d = c \/ Before(c, d)
    BY <1>2 DEF BeginStep, Concluded
  <2>2. ~Touched(c) /\ \A d \in Capabilities \ Concluded : ~Touched(d)
    BY <2>1 DEF Untouched
  <2>3. /\ outcomes' = [s \in Sources |-> IF s \in S THEN Running ELSE Untried]
        /\ fate' = [fate EXCEPT ![c] = [s \in Sources |-> IF s \in S THEN Running ELSE fate[c][s]]]
    BY <1>2 DEF BeginStep, Invoke, TypeOK
  <2>4. fate'[c] = outcomes' /\ \A d \in Capabilities : d # c => fate'[d] = fate[d]
    <3>1. \A s \in Sources : fate[c][s] = Untried
      BY <2>2 DEF Touched
    <3> QED
      BY <2>3, <3>1 DEF TypeOK
  <2>5. outcomes' \in [Sources -> Ended \cup {Untried, Running}]
    BY <2>3
  <2>6. TypeOK'
    <3>1. fate' \in [Capabilities -> [Sources -> Ended \cup {Untried, Running}]]
      BY <2>3, <2>4, <2>5 DEF TypeOK
    <3> QED
      BY <2>1, <2>5, <3>1 DEF TypeOK
  <2>7. Shape(c, outcomes') /\ \E s \in Sources : outcomes'[s] # Untried
    <3>1. Candidates[c] # <<>>
      BY <2>1 DEF Past
    <3>2. \A s \in Sources : outcomes'[s] = IF s \in S THEN Running ELSE Untried
      BY <2>3
    <3> QED
      BY <3>1, <3>2, FreshShape
  <2>8. InProgress'
    BY <2>1, <2>4, <2>7 DEF InProgress
  <2>9. Past'
    <3>1. \A d \in Concluded : d \in Capabilities /\ d # c /\ fate'[d] = fate[d]
      BY <2>1, <2>4 DEF Past, TypeOK
    <3> QED
      BY <2>1, <3>1 DEF Past, Answered
  <2>10. TurnsKept'
    <3> SUFFICES ASSUME NEW d \in Capabilities, Touched(d)', NEW e \in plan, Before(e, d)
                 PROVE  e \in Concluded /\ Answered(e)'
      BY <2>1 DEF TurnsKept, Before
    <3>0. e \in Capabilities
      BY DEF TypeOK
    <3>1. CASE d = c
      <4>1. e \in Concluded
        BY <2>1, <3>0, <3>1, BeforeIsStrict
      <4>2. Answered(e) /\ e # c
        BY <2>1, <4>1 DEF Past
      <4> QED
        BY <2>4, <3>0, <4>1, <4>2 DEF Answered
    <3>2. CASE d # c
      <4>1. Touched(d)
        BY <2>4, <3>2 DEF Touched
      <4>2. e \in Concluded /\ Answered(e) /\ e # c
        BY <2>1, <4>1 DEF TurnsKept
      <4> QED
        BY <2>4, <3>0, <4>2 DEF Answered
    <3> QED
      BY <3>1, <3>2
  <2>11. Untouched'
    BY <2>1, <2>2, <2>4 DEF Untouched, Touched
  <2>12. LabelIsHonest' /\ Unanswered'
    BY <2>1 DEF LabelIsHonest, Unanswered
  <2> QED
    BY <2>6, <2>8, <2>9, <2>10, <2>11, <2>12
<1>3. ASSUME NEW s \in Sources, SourceEnds(s)
      PROVE  Inv'
  <2>1. PICK how \in Ended : Conclude(step, s, how)
    BY <1>3 DEF SourceEnds
  <2>2. /\ phase = "invoking" /\ step \in plan /\ step \in Capabilities /\ step \notin Concluded
        /\ Concluded' = Concluded /\ outcomes = fate[step] /\ Shape(step, outcomes)
        /\ UNCHANGED <<phase, plan, step, provenance, analysis, reply>>
    BY <1>3 DEF SourceEnds, InProgress, TypeOK, Concluded
  <2>3. /\ outcomes[s] = Running
        /\ outcomes' = After(step, s, how, outcomes)
        /\ fate' = [fate EXCEPT ![step] = After(step, s, how, fate[step])]
    BY <2>1 DEF Conclude, After
  <2>4. /\ Shape(step, outcomes')
        /\ outcomes' \in [Sources -> Ended \cup {Untried, Running}]
        /\ outcomes'[s] # Untried
    BY <2>2, <2>3, ShapeKept DEF TypeOK
  <2>5. fate'[step] = outcomes' /\ \A d \in Capabilities : d # step => fate'[d] = fate[d]
    BY <2>2, <2>3 DEF TypeOK
  <2>6. TypeOK'
    <3>1. fate' \in [Capabilities -> [Sources -> Ended \cup {Untried, Running}]]
      BY <2>2, <2>3, <2>4, <2>5 DEF TypeOK
    <3> QED
      BY <2>2, <2>4, <3>1 DEF TypeOK
  <2>7. InProgress'
    BY <2>2, <2>4, <2>5 DEF InProgress
  <2>8. Past'
    <3>1. \A d \in Concluded : d \in Capabilities /\ d # step /\ fate'[d] = fate[d]
      BY <2>2, <2>5 DEF Past, TypeOK
    <3> QED
      BY <2>2, <3>1 DEF Past, Answered
  <2>9. Touched(step)
    BY <2>2, <2>3 DEF Touched, Running, Untried
  <2>10. TurnsKept'
    <3> SUFFICES ASSUME NEW d \in Capabilities, Touched(d)', NEW e \in plan, Before(e, d)
                 PROVE  e \in Concluded /\ Answered(e)'
      BY <2>2 DEF TurnsKept, Before
    <3>1. Touched(d)
      BY <2>5, <2>9 DEF Touched
    <3>2. e \in Concluded /\ Answered(e) /\ e # step /\ e \in Capabilities
      BY <2>2, <3>1 DEF TurnsKept, TypeOK
    <3> QED
      BY <2>5, <3>2 DEF Answered
  <2>11. Untouched'
    BY <2>2, <2>5 DEF Untouched, Touched
  <2>12. LabelIsHonest' /\ Unanswered'
    BY <2>2 DEF LabelIsHonest, Unanswered
  <2> QED
    BY <2>6, <2>7, <2>8, <2>10, <2>11, <2>12
<1>4. CASE ConcludeStep
  <2>1. /\ phase = "invoking" /\ step \in plan /\ step \in Capabilities /\ step \notin Concluded
        /\ outcomes = fate[step] /\ Shape(step, outcomes)
        /\ \A s \in Sources : outcomes[s] # Running
        /\ UNCHANGED <<plan, fate>>
        /\ phase' \in {"between", "raised"}
    BY <1>4 DEF ConcludeStep, InProgress, TypeOK
  <2>2. /\ Concluded' = Concluded \cup {step}
        /\ provenance'[step] = [used |-> Used(outcomes), failed |-> Failed(outcomes)]
        /\ \A c \in Concluded : provenance'[c] = provenance[c]
    BY <1>4, <2>1 DEF ConcludeStep, Concluded
  <2>3. TypeOK'
    <3>1. outcomes' \in [Sources -> Ended \cup {Untried, Running}] /\ step' = NoStep
      BY <1>4 DEF ConcludeStep
    <3>2. \A c \in Concluded' : provenance'[c] \in [used : SUBSET Sources, failed : SUBSET Sources]
      BY <2>2 DEF TypeOK, Used, Failed
    <3>3. analysis' \in (Capabilities \X Sources) \cup {NoAnalysis}
      BY <1>4, <2>1 DEF ConcludeStep, TypeOK, Used
    <3>4. reply' \in {"none", "partial", "complete", "network", "upstream"}
      BY <1>4 DEF ConcludeStep, TypeOK
    <3> QED
      BY <2>1, <2>2, <3>1, <3>2, <3>3, <3>4 DEF TypeOK, NoAnalysis
  <2>4. StepFailed(outcomes) => phase' = "raised"
    BY <1>4 DEF ConcludeStep
  <2>5. StepFailed(outcomes) \/ Answered(step)
    BY <2>1 DEF StepFailed, Used, Answered
  <2>6. Past'
    <3>1. ASSUME NEW c \in Concluded'
          PROVE  /\ Shape(c, fate[c])
                 /\ \A s \in Sources : fate[c][s] # Running
                 /\ provenance'[c].used = {s \in Sources : fate[c][s] = "ok"}
                 /\ provenance'[c].failed = {s \in Sources : fate[c][s] \in Categories}
                 /\ Answered(c) \/ phase' = "raised"
      <4>1. CASE c = step
        BY <2>1, <2>2, <2>4, <2>5, <4>1 DEF Used, Failed
      <4>2. CASE c # step
        BY <2>1, <2>2, <3>1, <4>2 DEF Past
      <4> QED
        BY <4>1, <4>2
    <3> QED
      BY <2>1, <2>2, <3>1 DEF Past, Answered
  <2>7. InProgress'
    BY <2>1 DEF InProgress
  <2>8. TurnsKept'
    BY <2>1, <2>2 DEF TurnsKept, Touched, Answered, Before
  <2>9. Untouched'
    BY <2>1, <2>2 DEF Untouched, Touched
  <2>10. Unanswered' /\ LabelIsHonest'
    <3>1. CASE ~StepFailed(outcomes)
      BY <1>4, <2>1, <3>1 DEF ConcludeStep, Unanswered, LabelIsHonest
    <3>2. CASE StepFailed(outcomes)
      <4>1. phase' = "raised" /\ reply' = IF AllNetwork(outcomes) THEN "network" ELSE "upstream"
        BY <1>4, <3>2 DEF ConcludeStep
      <4>2. \A s \in SourcesOf(step) : outcomes[s] \in Categories
        <5>1. \A s \in Sources : outcomes[s] # Running /\ outcomes[s] # "ok"
          BY <2>1, <3>2 DEF StepFailed, Used
        <5> QED
          BY <2>1, <5>1, AllAskedInVain DEF TypeOK
      <4>3. Failed(outcomes) = SourcesOf(step)
        BY <2>1, <4>2, CandidateFacts DEF Shape, Failed, Categories, Untried
      <4>4. AllNetwork(outcomes) <=> \A s \in SourcesOf(step) : fate[step][s] = "network"
        BY <2>1, <4>3 DEF AllNetwork
      <4>5. LabelIsHonest'
        BY <2>1, <4>1, <4>2, <4>4 DEF LabelIsHonest, SourcesOf
      <4> QED
        BY <4>1, <4>5 DEF Unanswered
    <3> QED
      BY <3>1, <3>2
  <2> QED
    BY <2>3, <2>6, <2>7, <2>8, <2>9, <2>10
<1>5. CASE Return
  <2>1. /\ phase = "between" /\ plan = Concluded /\ phase' = "returned"
        /\ UNCHANGED <<plan, step, outcomes, provenance, analysis, fate>> /\ Concluded' = Concluded
        /\ reply' = IF \E c \in Concluded : provenance[c].failed # {} THEN "partial" ELSE "complete"
    BY <1>5 DEF Return, Past, Concluded
  <2>2. TypeOK'
    BY <2>1 DEF TypeOK
  <2>3. InProgress' /\ Untouched' /\ Unanswered'
    BY <2>1 DEF InProgress, Untouched, Touched, Unanswered
  <2>4. Past' /\ TurnsKept'
    BY <2>1 DEF Past, TurnsKept, Touched, Answered, Before
  <2>5. LabelIsHonest'
    <3>1. \A c \in plan : Answered(c) /\
             (provenance[c].failed # {} <=> \E s \in Sources : fate[c][s] \in Categories)
      BY <2>1 DEF Past
    <3>2. \A c \in plan : \E s \in Sources : fate[c][s] = "ok"
      BY <3>1 DEF Answered
    <3>3. reply' = "partial" <=> \E c \in plan : \E s \in Sources : fate[c][s] \in Categories
      BY <2>1, <3>1
    <3> QED
      BY <2>1, <3>2, <3>3 DEF LabelIsHonest
  <2> QED
    BY <2>2, <2>3, <2>4, <2>5
<1>6. CASE Cancel
  <2>1. /\ phase = "invoking" /\ phase' = "cancelled" /\ step' = NoStep
        /\ outcomes' = [s \in Sources |-> Untried] /\ Concluded' = Concluded
        /\ UNCHANGED <<plan, provenance, analysis, reply, fate>>
    BY <1>6 DEF Cancel, Concluded
  <2>2. TypeOK'
    BY <2>1 DEF TypeOK
  <2>3. InProgress' /\ Untouched' /\ Unanswered' /\ LabelIsHonest'
    BY <2>1 DEF InProgress, Untouched, Unanswered, LabelIsHonest
  <2>4. Past' /\ TurnsKept'
    BY <2>1 DEF Past, TurnsKept, Touched, Answered, Before
  <2> QED
    BY <2>2, <2>3, <2>4
<1>7. CASE UNCHANGED vars
  BY <1>7 DEF vars, TypeOK, Concluded, InProgress, Past, TurnsKept, Untouched, Unanswered,
      LabelIsHonest, Touched, Answered, Before
<1> QED
  BY <1>1, <1>2, <1>3, <1>4, <1>5, <1>6, <1>7 DEF Next, Done

\* The analysis in hand is a contribution to the latest analyze step that concluded.
LatestAnalysis ==
    phase \in {"asked", "between", "invoking", "returned"} =>
        /\ analysis = NoAnalysis => \A c \in Concluded : KindOf[c] # "analyze"
        /\ analysis # NoAnalysis =>
              /\ analysis[1] \in Concluded /\ KindOf[analysis[1]] = "analyze"
              /\ analysis[2] \in Sources /\ fate[analysis[1]][analysis[2]] = "ok"
              /\ \A c \in Concluded : KindOf[c] = "analyze" => ~Before(analysis[1], c)

\* Steps conclude in their order, so the step in progress is after those that have.
LEMMA StepLatestAnalysis ==
    Inv /\ LatestAnalysis /\ [Next]_vars => LatestAnalysis'
<1> SUFFICES ASSUME Inv, LatestAnalysis, [Next]_vars
             PROVE  LatestAnalysis'
  OBVIOUS
<1>1. CASE Plan
  BY <1>1 DEF Plan, LatestAnalysis, Concluded, Before
<1>2. ASSUME NEW c \in Capabilities, BeginStep(c)
      PROVE  LatestAnalysis'
  <2>1. /\ phase = "between" /\ phase' = "invoking" /\ c \notin Concluded
        /\ Concluded' = Concluded /\ analysis' = analysis
        /\ \A d \in Capabilities : d # c => fate'[d] = fate[d]
    BY <1>2 DEF BeginStep, Invoke, Concluded, Inv, TypeOK
  <2>2. Concluded \subseteq Capabilities
    BY DEF Inv, TypeOK
  <2>3. analysis # NoAnalysis => fate'[analysis[1]] = fate[analysis[1]]
    BY <2>1, <2>2 DEF LatestAnalysis
  <2> QED
    BY <2>1, <2>3 DEF LatestAnalysis, Before
<1>3. ASSUME NEW s \in Sources, SourceEnds(s)
      PROVE  LatestAnalysis'
  <2>1. /\ phase = "invoking" /\ phase' = phase /\ step \notin Concluded
        /\ Concluded' = Concluded /\ analysis' = analysis
        /\ \A d \in Capabilities : d # step => fate'[d] = fate[d]
    BY <1>3 DEF SourceEnds, Conclude, Concluded, Inv, InProgress, TypeOK
  <2>2. Concluded \subseteq Capabilities
    BY DEF Inv, TypeOK
  <2>3. analysis # NoAnalysis => fate'[analysis[1]] = fate[analysis[1]]
    BY <2>1, <2>2 DEF LatestAnalysis
  <2> QED
    BY <2>1, <2>3 DEF LatestAnalysis, Before
<1>4. CASE ConcludeStep
  <2>1. /\ phase = "invoking" /\ step \in plan /\ step \in Capabilities /\ step \notin Concluded
        /\ outcomes = fate[step] /\ fate' = fate /\ Concluded' = Concluded \cup {step}
    BY <1>4 DEF ConcludeStep, Inv, InProgress, TypeOK, Concluded
  <2>2. CASE StepFailed(outcomes)
    BY <1>4, <2>2 DEF ConcludeStep, LatestAnalysis
  <2>3. CASE ~StepFailed(outcomes) /\ KindOf[step] = "analyze"
    <3>1. PICK s \in Sources : analysis' = <<step, s>> /\ fate[step][s] = "ok"
      BY <1>4, <2>1, <2>3 DEF ConcludeStep, TakesAnalysis, Used
    <3>2. analysis' # NoAnalysis /\ analysis'[1] = step /\ analysis'[2] = s
      BY <3>1 DEF NoAnalysis
    <3>3. ASSUME NEW c \in Concluded', Before(step, c)
          PROVE  FALSE
      <4>1. CASE c = step
        BY <2>1, <3>3, <4>1, BeforeIsStrict
      <4>2. CASE c \in Concluded
        <5>1. c \in Capabilities /\ Answered(c)
          BY <2>1, <4>2 DEF Inv, Past, TypeOK
        <5>2. Touched(c)
          BY <5>1 DEF Touched, Answered, Untried
        <5>3. step \in Concluded
          BY <2>1, <3>3, <5>1, <5>2 DEF Inv, TurnsKept
        <5> QED
          BY <2>1, <5>3
      <4> QED
        BY <2>1, <4>1, <4>2
    <3> QED
      BY <2>1, <2>3, <3>1, <3>2, <3>3 DEF LatestAnalysis, Before
  <2>4. CASE ~StepFailed(outcomes) /\ KindOf[step] # "analyze"
    <3>1. analysis' = analysis
      BY <1>4, <2>4 DEF ConcludeStep, TakesAnalysis
    <3> QED
      BY <2>1, <2>4, <3>1 DEF LatestAnalysis, Before
  <2> QED
    BY <2>2, <2>3, <2>4
<1>5. CASE Return
  BY <1>5 DEF Return, LatestAnalysis, Concluded, Before
<1>6. CASE Cancel
  BY <1>6 DEF Cancel, LatestAnalysis
<1>7. CASE UNCHANGED vars
  BY <1>7 DEF vars, LatestAnalysis, Concluded, Before
<1> QED
  BY <1>1, <1>2, <1>3, <1>4, <1>5, <1>6, <1>7 DEF Next, Done

-----------------------------------------------------------------------------

\* Types of the loop's locals and of the history.
THEOREM RouterTypes == Spec => []TypeOK
<1>1. Inv => TypeOK
  BY DEF Inv
<1> QED
  BY <1>1, InitInv, StepInv, PTL DEF Spec

\* The provenance of a concluded step names exactly the sources that contributed
\* and those that failed, whatever order they answered in.
THEOREM Provenance == Spec => []ProvenanceIsComplete
<1>1. Inv => ProvenanceIsComplete
  <2> SUFFICES ASSUME Inv, NEW c \in Concluded
               PROVE  /\ KindOf[c] = "discover" =>
                            provenance[c].used \cup provenance[c].failed = SourcesOf(c)
                      /\ KindOf[c] # "discover" =>
                            \A i, j \in DOMAIN Candidates[c] :
                                i < j /\ fate[c][Candidates[c][j]] # Untried
                                   => fate[c][Candidates[c][i]] \in Categories
    BY DEF Inv, Past, ProvenanceIsComplete
  <2>1. c \in Capabilities /\ Shape(c, fate[c]) /\ fate[c] \in [Sources -> Ended \cup {Untried, Running}]
        /\ \A s \in Sources : fate[c][s] # Running
    BY DEF Inv, Past, TypeOK
  <2>2. CASE KindOf[c] = "discover"
    <3>1. \A s \in Sources : fate[c][s] \in Ended <=> s \in SourcesOf(c)
      BY <2>1, <2>2 DEF Shape, Ended, Categories, Untried
    <3> QED
      BY <2>2, <3>1, <2>1, CandidateFacts DEF Inv, Past, Ended
  <2>3. CASE KindOf[c] # "discover"
    <3>1. PICK k \in DOMAIN Candidates[c] : \A i \in DOMAIN Candidates[c] :
             /\ i < k => fate[c][Candidates[c][i]] \in Categories
             /\ i > k => fate[c][Candidates[c][i]] = Untried
      BY <2>1, <2>3 DEF Shape
    <3> SUFFICES ASSUME NEW i \in DOMAIN Candidates[c], NEW j \in DOMAIN Candidates[c],
                        i < j, fate[c][Candidates[c][j]] # Untried
                 PROVE  fate[c][Candidates[c][i]] \in Categories
      BY <2>3
    <3>2. i \in Nat /\ j \in Nat /\ k \in Nat
      BY <2>1, CandidateFacts
    <3> QED
      BY <3>1, <3>2
  <2> QED
    BY <2>2, <2>3
<1> QED
  BY <1>1, InitInv, StepInv, PTL DEF Spec

\* No source of a later pillar is asked before every step of the earlier pillars
\* is over and contributed something.
THEOREM Barriers == Spec => []PillarsAreBarriers
<1>1. Inv => PillarsAreBarriers
  BY DEF Inv, TurnsKept, PillarsAreBarriers, Before, Touched, Answered, TypeOK
<1> QED
  BY <1>1, InitInv, StepInv, PTL DEF Spec

\* The label of the answer and the category of the error tell what happened to
\* the sources.
THEOREM HonestLabel == Spec => []LabelIsHonest
<1>1. Inv => LabelIsHonest
  BY DEF Inv
<1> QED
  BY <1>1, InitInv, StepInv, PTL DEF Spec

\* The analysis that is returned is a contribution to the last analyze step of the
\* plan.
THEOREM LastAnalysis == Spec => []AnalysisIsTheLast
<1>1. Init => LatestAnalysis
  BY DEF Init, LatestAnalysis, Concluded
<1>2. Inv /\ LatestAnalysis => AnalysisIsTheLast
  <2> SUFFICES ASSUME Inv, LatestAnalysis, phase = "returned"
               PROVE  AnalysisIsTheLast
    BY DEF AnalysisIsTheLast
  <2>1. plan = Concluded
    BY DEF Inv, Past
  <2> QED
    BY <2>1 DEF LatestAnalysis, AnalysisIsTheLast
<1> QED
  BY <1>1, <1>2, InitInv, StepInv, StepLatestAnalysis, PTL DEF Spec

\* What execute() returns or raises can be relied on, for any vocabulary, candidates
\* and order of answers.
THEOREM HonestAnswer == Spec => []AnswerIsHonest
<1>1. ProvenanceIsComplete /\ LabelIsHonest /\ AnalysisIsTheLast => AnswerIsHonest
  BY DEF AnswerIsHonest
<1> QED
  BY Provenance, HonestLabel, LastAnalysis, <1>1, PTL

\* The router implements PlanRun: asking sources changes nothing a PlanRun sees,
\* and a step concludes only when no step before it is left.
THEOREM RouterRefinesPlanRun == Spec => ImplementsPlanRun
<1>1. Init => Contract!Init
  BY DEF Init, Contract!Init, Concluded
<1>2. Inv /\ [Next]_vars => [Contract!Next]_<<plan \ Concluded, Concluded,
         IF phase \in {"asked", "returned", "raised", "cancelled"} THEN phase ELSE "running">>
  <2> SUFFICES ASSUME Inv, [Next]_vars
               PROVE  [Contract!Next]_<<plan \ Concluded, Concluded,
                  IF phase \in {"asked", "returned", "raised", "cancelled"} THEN phase ELSE "running">>
    OBVIOUS
  <2>1. CASE Plan
    BY <2>1 DEF Plan, Inv, Past, Concluded, Contract!Next, Contract!Plan
  <2>2. ASSUME NEW c \in Capabilities, BeginStep(c)
        PROVE  UNCHANGED <<plan \ Concluded, Concluded,
                  IF phase \in {"asked", "returned", "raised", "cancelled"} THEN phase ELSE "running">>
    BY <2>2 DEF BeginStep, Concluded
  <2>3. ASSUME NEW s \in Sources, SourceEnds(s)
        PROVE  UNCHANGED <<plan \ Concluded, Concluded,
                  IF phase \in {"asked", "returned", "raised", "cancelled"} THEN phase ELSE "running">>
    BY <2>3 DEF SourceEnds, Concluded
  <2>4. CASE ConcludeStep
    <3>1. /\ phase = "invoking" /\ phase' \in {"between", "raised"} /\ plan' = plan
          /\ Concluded' = Concluded \cup {step}
          /\ step \in plan \ Concluded /\ step \in Capabilities
          /\ \A d \in plan \ Concluded : d = step \/ Before(step, d)
      BY <2>4 DEF ConcludeStep, Concluded, Inv, InProgress, TypeOK
    <3>2. \A d \in plan \ Concluded : d = step \/
              [cd \in Capabilities \X Capabilities |-> Before(cd[1], cd[2])][<<step, d>>]
      BY <3>1 DEF Inv, TypeOK
    <3>3. Contract!Conclude(step)
      BY <3>1, <3>2 DEF Contract!Conclude
    <3> QED
      BY <3>1, <3>3 DEF Contract!Next
  <2>5. CASE Return
    BY <2>5 DEF Return, Concluded, Contract!Next, Contract!Return
  <2>6. CASE Cancel
    BY <2>6 DEF Cancel, Concluded, Contract!Next, Contract!Cancel, Inv, InProgress
  <2>7. CASE UNCHANGED vars
    BY <2>7 DEF vars, Concluded
  <2> QED
    BY <2>1, <2>2, <2>3, <2>4, <2>5, <2>6, <2>7 DEF Next, Done
<1> QED
  BY <1>1, <1>2, InitInv, StepInv, PTL DEF Spec, ImplementsPlanRun, Contract!Spec

=============================================================================
