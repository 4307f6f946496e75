---------------------------- MODULE GeoStacProofs ---------------------------
(***************************************************************************)
(* Safety of the federated search and of the listing of collections, for   *)
(* any catalogs, items, answers and requests.  A position the merge has    *)
(* passed is a duplicate of what it has taken (Passed), and in the middle  *)
(* of a round the catalogs that have had their turn are one item ahead     *)
(* (Shares).  The listing comes after the search (Behind).                 *)
(***************************************************************************)
EXTENDS StacFederation, StacCollections, FiniteSetTheorems, TLAPS

Turn(s) == IF s \in round THEN 1 ELSE 0

\* Nothing is merged until all catalogs have answered, or ever if they do not.
Blank ==
    /\ merged = <<>>
    /\ seenIds = {} /\ seenScenes = {}
    /\ round = {} /\ advanced
    /\ \A s \in Sources : cursor[s] = 1 /\ contributed[s] = 0

NotYet ==
    /\ phase \in {"idle", "gather"} \/ pending # {} => Blank
    /\ phase \in {"idle", "gather"} \/ pending # {} => reply # "result"
    /\ phase = "merge" => pending = {} /\ reply # "result"

\* seen_ids and seen_scenes are those of the items taken.
SeenIsTaken ==
    /\ \A x \in seenIds : \E k \in DOMAIN merged : x = IdOf[Taken(k)]
    /\ \A x \in seenScenes : \E k \in DOMAIN merged : HasScene(Taken(k)) /\ x = SceneOf[Taken(k)]
    /\ \A k \in DOMAIN merged :
          /\ IdOf[Taken(k)] \in seenIds
          /\ HasScene(Taken(k)) => SceneOf[Taken(k)] \in seenScenes

\* What a cursor has passed is a duplicate.
Passed ==
    \A s \in Sources : \A i \in DOMAIN found[s] : i < cursor[s] => IsDuplicate(found[s][i])

\* A catalog whose turn took nothing has nothing left.
NothingLeft ==
    /\ phase = "merge" /\ ~advanced => \A s \in Ok \ round : Fresh(s) = {}
    /\ reply = "result" => Len(merged) = limit \/ \A s \in Ok : Fresh(s) = {}

\* Turns are taken in order, and a catalog that had its turn in this round is
\* one item ahead of those that did not, if it still has items.
Shares ==
    /\ \A s \in round, t \in Ok : s < t => t \in round
    /\ \A s, t \in Ok : Fresh(t) # {} => contributed[s] + Turn(s) <= contributed[t] + Turn(t)

\* The two outcomes of a turn that finds an item.
Takes(s, i) ==
    /\ phase = "merge" /\ Len(merged) < limit
    /\ InTurn(s)
    /\ IsNextOf(s, i)
    /\ cursor' = [cursor EXCEPT ![s] = i + 1]
    /\ merged' = Append(merged, [source |-> s, at |-> i])
    /\ seenIds' = seenIds \cup {IdOf[found[s][i]]}
    /\ seenScenes' = seenScenes \cup (IF HasScene(found[s][i]) THEN {SceneOf[found[s][i]]} ELSE {})
    /\ contributed' = [contributed EXCEPT ![s] = @ + 1]
    /\ round' = round \ {s}
    /\ advanced' = TRUE
    /\ UNCHANGED <<phase, reply, limit, dedupe, pending, failed, found>>

Breaks ==
    /\ phase = "merge"
    /\ phase' = "done" /\ reply' = "item raised"
    /\ UNCHANGED <<limit, dedupe, pending, failed, found, merged, seenIds, seenScenes, cursor,
                   contributed, round, advanced>>

-----------------------------------------------------------------------------

LEMMA TakeOutcome ==
    ASSUME NEW s \in Sources, Take(s)
    PROVE  Breaks \/ \E i \in Fresh(s) : Takes(s, i)
<1> PICK i \in Fresh(s) :
        /\ IsNextOf(s, i)
        /\ LET it == found[s][i] IN
           IF dedupe = "scene" /\ SceneOf[it] = BadScene
           THEN /\ phase' = "done"
                /\ reply' = "item raised"
                /\ UNCHANGED <<merge, round, advanced>>
           ELSE /\ cursor' = [cursor EXCEPT ![s] = i + 1]
                /\ merged' = Append(merged, [source |-> s, at |-> i])
                /\ seenIds' = seenIds \cup {IdOf[it]}
                /\ seenScenes' = seenScenes \cup (IF HasScene(it) THEN {SceneOf[it]} ELSE {})
                /\ contributed' = Counted(s, i)
                /\ round' = TurnsLeft(s)
                /\ advanced' = TRUE
                /\ UNCHANGED <<phase, reply>>
  BY Zenon DEF Take
<1>1. phase = "merge" /\ Len(merged) < limit /\ InTurn(s) /\ UNCHANGED <<request, answers>>
  BY Zenon DEF Take
<1>2. CASE dedupe = "scene" /\ SceneOf[found[s][i]] = BadScene
  BY <1>1, <1>2 DEF Breaks, merge, request, answers
<1>3. CASE ~(dedupe = "scene" /\ SceneOf[found[s][i]] = BadScene)
  BY <1>1, <1>3 DEF Takes, merge, request, answers, Counted, TurnsLeft
<1> QED
  BY <1>2, <1>3

LEMMA CapIsWithin ==
    ASSUME NEW q \in Seq(Items), limit \in Nat
    PROVE  Capped(q) \in Seq(Items)
<1>1. Len(q) \in Nat
  OBVIOUS
<1>2. \A n \in 0..Len(q) : SubSeq(q, 1, n) \in Seq(Items)
  OBVIOUS
<1> QED
  BY <1>1, <1>2 DEF Capped

\* One more item.
LEMMA OneMore ==
    ASSUME NEW T, NEW q \in Seq(T), NEW x \in T
    PROVE  /\ Append(q, x) \in Seq(T)
           /\ Len(q) \in Nat /\ Len(Append(q, x)) = Len(q) + 1
           /\ DOMAIN q = 1..Len(q) /\ DOMAIN Append(q, x) = 1..Len(q) + 1
           /\ \A k \in DOMAIN q : Append(q, x)[k] = q[k]
           /\ Append(q, x)[Len(q) + 1] = x
OBVIOUS

\* What may still be taken.
LEMMA FreshPositions ==
    ASSUME TypeOK, NEW s \in Sources, NEW i \in Fresh(s)
    PROVE  /\ i \in DOMAIN found[s] /\ i \in Nat \ {0}
           /\ cursor[s] <= i /\ ~IsDuplicate(found[s][i])
<1>1. found[s] \in Seq(Items) /\ cursor[s] \in Nat \ {0}
  BY DEF TypeOK
<1>2. i \in cursor[s]..Len(found[s]) /\ ~IsDuplicate(found[s][i])
  BY DEF Fresh
<1> QED
  BY <1>1, <1>2

\* Types hold at every step.
LEMMA TypeStep ==
    ASSUME TypeOK, NotYet, [Next]_vars
    PROVE  TypeOK'
<1> USE DEF request, answers, merge, Ok
<1>a. MaxItems \in Nat
  BY FederationAssumption
<1>b. limit \in Nat
  <2>1. limit \in 0..MaxItems
    BY DEF TypeOK
  <2> QED
    BY <1>a, <2>1
<1>1. CASE \E r \in Requests : Search(r)
  <2> PICK r \in Requests : Search(r)
    BY <1>1
  <2>1. r.limit \in Nat /\ MaxItems \in Nat
    BY FederationAssumption
  <2>2. merged = <<>>
    BY DEF Valid, Refusal, Search, NotYet, Blank
  <2>3. limit' \in 0..MaxItems
    <3>1. limit' = limit \/ limit' = CapLimit(r.limit)
      BY DEF Valid, Refusal, Search
    <3>2. CapLimit(r.limit) \in 0..MaxItems
      BY <2>1 DEF CapLimit
    <3> QED
      BY <3>1, <3>2 DEF TypeOK
  <2>4. merged' = <<>> /\ DOMAIN merged' = {}
    BY <2>2 DEF Valid, Refusal, Search
  <2>5. dedupe' \in {"scene", "id"} /\ pending' \subseteq Sources
    BY DEF Valid, Refusal, Search, TypeOK
  <2>6. phase' \in {"gather", "done"} /\ reply' \in {reply, "TypeError", "validation"}
    BY DEF Valid, Refusal, Search
  <2>7. Len(merged') <= limit'
    BY <2>1, <2>3, <2>4
  <2>8. UNCHANGED <<failed, found, merged, cursor, contributed, round, advanced>>
    BY DEF Valid, Refusal, Search
  <2> QED
    BY <2>3, <2>4, <2>5, <2>6, <2>7, <2>8 DEF TypeOK
<1>2. CASE \E s \in Sources : Answer(s)
  <2> PICK s \in Sources : Answer(s)
    BY <1>2
  <2>1. merged = <<>> /\ round = {}
    BY DEF Answer, NotYet, Blank
  <2>2a. \A q \in Answers : q \in Seq(Items)
    BY FederationAssumption
  <2>3. \A q \in Answers : Capped(q) \in Seq(Items)
    BY <1>b, <2>2a, CapIsWithin
  <2>4. found' \in [Sources -> Seq(Items)]
    BY <2>3 DEF Answer, TypeOK
  <2> QED
    <3>1. merged' = <<>> /\ DOMAIN merged' = {} /\ round' = {}
      BY <2>1 DEF Answer
    <3>2. pending' \subseteq Sources /\ failed' \subseteq Sources
      BY DEF Answer, TypeOK
    <3>3. Len(merged') <= limit'
      BY <3>1, <1>b DEF Answer
    <3>4. UNCHANGED <<phase, limit, dedupe, merged, cursor, contributed, advanced, reply>>
      BY DEF Answer
    <3> QED
      BY <2>4, <3>1, <3>2, <3>3, <3>4 DEF TypeOK
<1>3. CASE \E s \in Sources : Raise(s)
  BY <1>3 DEF Raise, TypeOK
<1>4. CASE \E s \in Sources : Take(s)
  <2> PICK s \in Sources : Take(s)
    BY <1>4
  <2>1. CASE Breaks
    BY <2>1 DEF Breaks, TypeOK
  <2>2. CASE \E i \in Fresh(s) : Takes(s, i)
    <3> PICK i \in Fresh(s) : Takes(s, i)
      BY <2>2
    <3>1. s \in Ok /\ i \in DOMAIN found[s] /\ i \in Nat
      BY FreshPositions DEF Takes, InTurn, TypeOK
    <3>2. merged' = Append(merged, [source |-> s, at |-> i])
      BY DEF Takes
    <3>a. [source |-> s, at |-> i] \in [source : Sources, at : Nat]
      BY <3>1
    <3>b. merged \in Seq([source : Sources, at : Nat]) /\ Len(merged) < limit
      BY DEF TypeOK, Takes
    <3>3. /\ merged' \in Seq([source : Sources, at : Nat])
          /\ Len(merged') = Len(merged) + 1
          /\ \A k \in DOMAIN merged' :
                \/ k \in DOMAIN merged /\ merged'[k] = merged[k]
                \/ merged'[k] = [source |-> s, at |-> i]
      BY <3>a, <3>b, <3>2, OneMore
    <3>4. Len(merged') <= limit'
      BY <1>b, <3>3, <3>b, OneMore DEF Takes
    <3>5. ASSUME NEW k \in DOMAIN merged'
          PROVE  /\ merged'[k].source \in Ok'
                 /\ merged'[k].at \in DOMAIN found'[merged'[k].source]
      <4>1. found' = found /\ failed' = failed
        BY DEF Takes
      <4>2. CASE k \in DOMAIN merged
        <5>1. merged'[k] = merged[k]
          BY <3>a, <3>b, <3>2, <4>2, OneMore
        <5> QED
          BY <4>1, <4>2, <5>1 DEF TypeOK
      <4>3. CASE k \notin DOMAIN merged
        BY <3>1, <3>3, <4>1, <4>3
      <4> QED
        BY <4>2, <4>3
    <3>6. cursor' \in [Sources -> Nat \ {0}] /\ contributed' \in [Sources -> Nat]
      <4>1. cursor \in [Sources -> Nat \ {0}] /\ contributed \in [Sources -> Nat]
        BY DEF TypeOK
      <4>2. cursor' = [cursor EXCEPT ![s] = i + 1] /\ contributed' = [contributed EXCEPT ![s] = @ + 1]
        BY DEF Takes
      <4>3. i + 1 \in Nat \ {0} /\ contributed[s] + 1 \in Nat
        BY <3>1, <4>1
      <4> QED
        BY <4>1, <4>2, <4>3
    <3> QED
      BY <3>3, <3>4, <3>5, <3>6 DEF TypeOK, Takes
  <2> QED
    BY <2>1, <2>2, TakeOutcome
<1>5. CASE \E s \in Sources : Skip(s)
  <2> PICK s \in Sources : Skip(s)
    BY <1>5
  <2>1. Len(found[s]) + 1 \in Nat \ {0}
    <3>1. found[s] \in Seq(Items)
      BY DEF TypeOK
    <3> QED
      BY <3>1
  <2>2. cursor' \in [Sources -> Nat \ {0}]
    BY <2>1 DEF Skip, TypeOK
  <2> QED
    BY <2>2 DEF Skip, TypeOK
<1>6. CASE StartMerge
  BY <1>6 DEF StartMerge, TypeOK
<1>7. CASE BeginRound
  BY <1>7 DEF BeginRound, TypeOK
<1>8. CASE Finish
  BY <1>8 DEF Finish, TypeOK
<1>9. CASE Cancel
  BY <1>9 DEF Cancel, TypeOK
<1>10. CASE Done \/ UNCHANGED vars
  BY <1>10 DEF Done, vars, TypeOK
<1> QED
  BY <1>1, <1>2, <1>3, <1>4, <1>5, <1>6, <1>7, <1>8, <1>9, <1>10 DEF Next

\* Nothing is merged early.
LEMMA NotYetStep ==
    ASSUME TypeOK, NotYet, [Next]_vars
    PROVE  NotYet'
<1> USE DEF request, answers, merge, Blank
<1>1. CASE \E r \in Requests : Search(r)
  BY <1>1 DEF Valid, Refusal, Search, NotYet
<1>2. CASE \E s \in Sources : Answer(s)
  BY <1>2 DEF Answer, NotYet
<1>3. CASE \E s \in Sources : Raise(s)
  <2> PICK s \in Sources : Raise(s)
    BY <1>3
  <2>1. pending # {} /\ phase' = "done"
    BY DEF Raise
  <2>2. Blank /\ reply # "result"
    BY <2>1 DEF NotYet
  <2>3. Blank' /\ reply' # "result"
    BY <2>2 DEF Raise
  <2> QED
    BY <2>1, <2>3 DEF NotYet
<1>4. CASE \E s \in Sources : Take(s)
  BY <1>4 DEF Take, NotYet
<1>5. CASE \E s \in Sources : Skip(s)
  BY <1>5 DEF Skip, NotYet
<1>6. CASE StartMerge \/ BeginRound \/ Finish \/ Cancel
  BY <1>6 DEF StartMerge, BeginRound, Finish, Cancel, NotYet
<1>7. CASE Done \/ UNCHANGED vars
  BY <1>7 DEF Done, vars, NotYet
<1> QED
  BY <1>1, <1>2, <1>3, <1>4, <1>5, <1>6, <1>7 DEF Next

\* What a step may do to the merge: start it from nothing, or leave it alone, or
\* begin a round, take an item, skip a catalog or end.
Starts == Blank /\ Blank' /\ phase' # "merge" /\ reply' # "result"
Leaves ==
    /\ UNCHANGED <<limit, dedupe, failed, found, merged, seenIds, seenScenes, cursor,
                   contributed, round, advanced>>
    /\ phase' = "merge" => phase = "merge" \/ Blank
    /\ reply' = "result" => reply = "result"

LEMMA StepKinds ==
    ASSUME TypeOK, NotYet, [Next]_vars
    PROVE  \/ Starts \/ Leaves \/ BeginRound \/ Finish
           \/ \E s \in Sources : Skip(s) \/ \E i \in Fresh(s) : Takes(s, i)
<1> USE DEF request, answers, merge
<1>1. CASE \E r \in Requests : Search(r)
  BY <1>1 DEF Valid, Refusal, Search, NotYet, Blank, Starts
<1>2. CASE \E s \in Sources : Answer(s)
  BY <1>2 DEF Answer, NotYet, Blank, Starts
<1>3. CASE \E s \in Sources : Raise(s)
  <2> PICK s \in Sources : Raise(s)
    BY <1>3
  <2>1. pending # {} /\ phase' = "done"
    BY DEF Raise
  <2>2. Blank /\ reply # "result"
    BY <2>1 DEF NotYet
  <2>3. Blank' /\ reply' # "result"
    BY <2>2 DEF Raise, Blank
  <2> QED
    BY <2>1, <2>2, <2>3 DEF Starts
<1>4. CASE \E s \in Sources : Take(s)
  <2>1. Breaks => Leaves
    BY DEF Breaks, Leaves
  <2> QED
    BY <1>4, <2>1, TakeOutcome
<1>5. CASE StartMerge
  BY <1>5 DEF StartMerge, NotYet, Leaves
<1>6. CASE Cancel
  BY <1>6 DEF Cancel, NotYet, Blank, Starts
<1>7. CASE Done \/ UNCHANGED vars
  BY <1>7 DEF Done, vars, Leaves
<1> QED
  BY <1>1, <1>2, <1>3, <1>4, <1>5, <1>6, <1>7 DEF Next

\* Duplicates stay duplicates.
LEMMA DuplicatesStay ==
    ASSUME NEW s \in Sources, NEW i \in Fresh(s), Takes(s, i), NEW it
    PROVE  /\ IsDuplicate(it) => IsDuplicate(it)'
           /\ it = found[s][i] => IsDuplicate(it)'
BY DEF Takes, IsDuplicate, HasScene

\* What has been seen is what has been taken.
LEMMA SeenStep ==
    ASSUME TypeOK, SeenIsTaken, Starts \/ Leaves \/ BeginRound \/ Finish
                    \/ \E s \in Sources : Skip(s) \/ \E i \in Fresh(s) : Takes(s, i)
    PROVE  SeenIsTaken'
<1> USE DEF Taken, HasScene
<1>1. CASE Starts
  BY <1>1 DEF Starts, Blank, SeenIsTaken
<1>2. CASE Leaves \/ BeginRound \/ Finish \/ \E s \in Sources : Skip(s)
  BY <1>2 DEF Leaves, BeginRound, Finish, Skip, SeenIsTaken, request, answers, merge
<1>3. CASE \E s \in Sources : \E i \in Fresh(s) : Takes(s, i)
  <2> PICK s \in Sources : \E i \in Fresh(s) : Takes(s, i)
    BY <1>3
  <2> PICK i \in Fresh(s) : Takes(s, i)
    OBVIOUS
  <2>1. merged \in Seq([source : Sources, at : Nat]) /\ [source |-> s, at |-> i] \in [source : Sources, at : Nat]
    <3>1. i \in Nat
      BY FreshPositions
    <3> QED
      BY <3>1 DEF TypeOK
  <2> PICK n : n = Len(merged) + 1
    OBVIOUS
  <2>2. /\ DOMAIN merged = 1..n - 1 /\ DOMAIN merged' = 1..n /\ n \in Nat \ {0}
        /\ \A k \in DOMAIN merged : merged'[k] = merged[k]
        /\ merged'[n] = [source |-> s, at |-> i]
    BY <2>1, OneMore DEF Takes
  <2>3. found' = found
    BY DEF Takes
  <2>5. /\ \A k \in DOMAIN merged : k \in DOMAIN merged'
        /\ n \in DOMAIN merged'
        /\ \A k \in DOMAIN merged' : k \in DOMAIN merged \/ k = n
    BY <2>2
  <2>6. ASSUME NEW k \in DOMAIN merged PROVE Taken(k)' = Taken(k)
    BY <2>2, <2>3
  <2>7. Taken(n)' = found[s][i]
    BY <2>2, <2>3
  <2>4. /\ seenIds' = seenIds \cup {IdOf[found[s][i]]}
        /\ seenScenes' = seenScenes \cup (IF HasScene(found[s][i]) THEN {SceneOf[found[s][i]]} ELSE {})
        /\ dedupe' = dedupe
    BY DEF Takes
  <2> HIDE DEF Taken
  <2> QED
    BY <2>4, <2>5, <2>6, <2>7 DEF SeenIsTaken
<1> QED
  BY <1>1, <1>2, <1>3

\* Cursors only pass duplicates.
LEMMA PassedStep ==
    ASSUME TypeOK, TypeOK', Passed, Starts \/ Leaves \/ BeginRound \/ Finish
                    \/ \E s \in Sources : Skip(s) \/ \E i \in Fresh(s) : Takes(s, i)
    PROVE  Passed'
<1> SUFFICES ASSUME NEW t \in Sources, NEW j \in DOMAIN found'[t], j < cursor'[t]
             PROVE  IsDuplicate(found[t][j])'
  BY DEF Passed
<1>0. found'[t] \in Seq(Items) /\ j \in Nat \ {0}
  <2>1. found'[t] \in Seq(Items)
    BY DEF TypeOK
  <2> QED
    BY <2>1
<1>1. CASE Starts
  BY <1>0, <1>1 DEF Starts, Blank
<1>2. CASE Leaves \/ BeginRound \/ Finish
  BY <1>2 DEF Leaves, BeginRound, Finish, Passed, IsDuplicate, HasScene, request, answers, merge
<1>3. CASE \E s \in Sources : Skip(s)
  <2> PICK s \in Sources : Skip(s)
    BY <1>3
  <2>1. /\ cursor' = [cursor EXCEPT ![s] = Len(found[s]) + 1] /\ Fresh(s) = {}
        /\ UNCHANGED <<dedupe, found, seenIds, seenScenes>>
    BY DEF Skip, request, answers
  <2>2. cursor \in [Sources -> Nat \ {0}] /\ found[t] \in Seq(Items)
    BY DEF TypeOK
  <2>3. CASE j < cursor[t]
    BY <2>1, <2>3 DEF Passed, IsDuplicate, HasScene
  <2>4. CASE ~(j < cursor[t])
    <3>1. t = s
      BY <2>1, <2>2, <2>4
    <3>2. j \in cursor[s]..Len(found[s])
      BY <1>0, <2>1, <2>2, <2>4, <3>1
    <3>3. IsDuplicate(found[s][j])
      BY <2>1, <3>2 DEF Fresh
    <3> QED
      BY <2>1, <3>1, <3>3 DEF IsDuplicate, HasScene
  <2> QED
    BY <2>3, <2>4
<1>4. CASE \E s \in Sources : \E i \in Fresh(s) : Takes(s, i)
  <2> PICK s \in Sources : \E i \in Fresh(s) : Takes(s, i)
    BY <1>4
  <2> PICK i \in Fresh(s) : Takes(s, i)
    OBVIOUS
  <2>1. /\ cursor' = [cursor EXCEPT ![s] = i + 1] /\ found' = found
        /\ \A k \in Fresh(s) : i <= k
    BY DEF Takes, IsNextOf
  <2>2. cursor \in [Sources -> Nat \ {0}] /\ found[t] \in Seq(Items)
    BY DEF TypeOK
  <2>3. i \in Nat
    BY FreshPositions
  <2>4. IsDuplicate(found[t][j]) \/ found[t][j] = found[s][i]
    <3>1. CASE j < cursor[t]
      BY <2>1, <3>1 DEF Passed
    <3>2. CASE ~(j < cursor[t])
      <4>1. t = s
        BY <2>1, <2>2, <3>2
      <4>2. j <= i /\ j \in cursor[s]..Len(found[s])
        BY <1>0, <2>1, <2>2, <2>3, <3>2, <4>1
      <4>3. j = i \/ j \notin Fresh(s)
        BY <1>0, <2>1, <2>3, <4>2
      <4> QED
        BY <4>1, <4>2, <4>3 DEF Fresh
    <3> QED
      BY <3>1, <3>2
  <2>5. PICK it : it = found[t][j]
    OBVIOUS
  <2>6. IsDuplicate(it)'
    BY <2>4, <2>5, DuplicatesStay
  <2>7. it = found'[t][j]
    BY <2>1, <2>5
  <2> QED
    BY <2>6, <2>7 DEF IsDuplicate, HasScene
<1> QED
  BY <1>1, <1>2, <1>3, <1>4

\* What a catalog has left only shrinks during the merge.
LEMMA FreshShrinks ==
    ASSUME TypeOK, NEW s \in Sources, NEW i \in Fresh(s), Takes(s, i), NEW t \in Sources
    PROVE  Fresh(t)' \subseteq Fresh(t)
<1>1. found' = found /\ cursor' = [cursor EXCEPT ![s] = i + 1]
  BY DEF Takes
<1>2. cursor \in [Sources -> Nat \ {0}] /\ found[t] \in Seq(Items)
  BY DEF TypeOK
<1>3. i \in Nat /\ cursor[s] <= i
  BY FreshPositions
<1>4. cursor[t] <= cursor'[t]
  BY <1>1, <1>2, <1>3
<1> SUFFICES ASSUME NEW j \in Fresh(t)' PROVE j \in Fresh(t)
  OBVIOUS
<1>5. j \in cursor'[t]..Len(found[t]) /\ ~IsDuplicate(found[t][j])'
  BY <1>1 DEF Fresh
<1>6. j \in cursor[t]..Len(found[t])
  BY <1>1, <1>2, <1>3, <1>4, <1>5
<1>7. PICK it : it = found[t][j]
  OBVIOUS
<1>8. IsDuplicate(it) => IsDuplicate(it)'
  BY DuplicatesStay
<1>9. ~IsDuplicate(found[t][j])
  BY <1>1, <1>5, <1>7, <1>8 DEF IsDuplicate, HasScene
<1> QED
  BY <1>6, <1>9 DEF Fresh

LEMMA FreshAfterSkip ==
    ASSUME TypeOK, NEW s \in Sources, Skip(s), NEW t \in Sources
    PROVE  Fresh(t)' = Fresh(t)
<1>1. /\ UNCHANGED <<found, dedupe, seenIds, seenScenes>> /\ Fresh(s) = {}
      /\ cursor' = [cursor EXCEPT ![s] = Len(found[s]) + 1]
  BY DEF Skip, request, answers
<1>2. cursor \in [Sources -> Nat \ {0}] /\ found[t] \in Seq(Items)
  BY DEF TypeOK
<1>3. CASE t # s
  BY <1>1, <1>2, <1>3 DEF Fresh, IsDuplicate, HasScene
<1>4. CASE t = s
  <2>1. Len(found[s]) \in Nat /\ cursor'[s] = Len(found[s]) + 1
    BY <1>1, <1>2, <1>4
  <2>2. (cursor'[s]..Len(found[s])) = {}
    BY <2>1
  <2>3. Fresh(s)' = {}
    BY <1>1, <2>2 DEF Fresh
  <2> QED
    BY <1>1, <1>4, <2>3
<1> QED
  BY <1>3, <1>4

\* A merge that ends below the limit has gone through every queue.
LEMMA NothingLeftStep ==
    ASSUME TypeOK, NotYet, NothingLeft, Starts \/ Leaves \/ BeginRound \/ Finish
                    \/ \E s \in Sources : Skip(s) \/ \E i \in Fresh(s) : Takes(s, i)
    PROVE  NothingLeft'
<1>1. CASE Starts
  BY <1>1 DEF Starts, NothingLeft
<1>2. CASE Leaves
  BY <1>2 DEF Leaves, NothingLeft, Blank, Ok, Fresh, IsDuplicate, HasScene
<1>3. CASE BeginRound
  <2>1. /\ phase' = "merge" /\ round' = Ok /\ failed' = failed /\ reply' # "result"
    BY <1>3 DEF BeginRound, NotYet, answers
  <2> QED
    BY <2>1 DEF NothingLeft, Ok
<1>4. CASE Finish
  <2>1. /\ UNCHANGED <<limit, dedupe, failed, found, merged, seenIds, seenScenes, cursor, round>>
        /\ phase' = "done"
        /\ Len(merged) = limit \/ (round = {} /\ ~advanced)
        /\ phase = "merge"
    BY <1>4 DEF Finish, request, answers, merge
  <2>2. round = {} /\ ~advanced => \A s \in Ok : Fresh(s) = {}
    BY <2>1 DEF NothingLeft
  <2> QED
    BY <2>1, <2>2 DEF NothingLeft, Ok, Fresh, IsDuplicate, HasScene
<1>5. CASE \E s \in Sources : Skip(s)
  <2> PICK s \in Sources : Skip(s)
    BY <1>5
  <2>1. /\ phase = "merge" /\ phase' = phase /\ round' = round \ {s} /\ Fresh(s) = {}
        /\ failed' = failed /\ advanced' = advanced /\ reply' = reply
    BY DEF Skip, answers
  <2>2. \A t \in Sources : Fresh(t)' = Fresh(t)
    BY FreshAfterSkip
  <2>3. reply' # "result"
    BY <2>1 DEF NotYet
  <2>4. ASSUME ~advanced', NEW t \in (Ok \ round)' PROVE Fresh(t)' = {}
    <3>1. t \in Sources /\ t \in Ok /\ (t = s \/ t \notin round)
      BY <2>1 DEF Ok
    <3> QED
      BY <2>1, <2>2, <2>4, <3>1 DEF NothingLeft
  <2> QED
    BY <2>3, <2>4 DEF NothingLeft
<1>6. CASE \E s \in Sources : \E i \in Fresh(s) : Takes(s, i)
  BY <1>6 DEF Takes, NothingLeft, NotYet
<1> QED
  BY <1>1, <1>2, <1>3, <1>4, <1>5, <1>6

\* Turns go round.
LEMMA SharesStep ==
    ASSUME TypeOK, Shares, Starts \/ Leaves \/ BeginRound \/ Finish
                    \/ \E s \in Sources : Skip(s) \/ \E i \in Fresh(s) : Takes(s, i)
    PROVE  Shares'
<1>a. /\ \A s \in Sources : s \in Nat
      /\ \A s \in Sources : contributed[s] \in Nat
      /\ round \subseteq Ok /\ Ok \subseteq Sources
  <2>1. \A s \in Sources : s \in Nat
    BY FederationAssumption DEF Sources
  <2>2. \A s \in Sources : contributed[s] \in Nat
    BY DEF TypeOK
  <2>3. round \subseteq Ok /\ Ok \subseteq Sources
    BY DEF TypeOK, Ok
  <2> QED
    BY <2>1, <2>2, <2>3
<1>1. CASE Starts
  <2>1. /\ round' = {} /\ \A s \in Sources : contributed'[s] = 0
    BY <1>1 DEF Starts, Blank
  <2>2. \A s : Turn(s)' = 0
    BY <2>1 DEF Turn
  <2> QED
    BY <2>1, <2>2 DEF Shares, Ok
<1>2. CASE Leaves \/ Finish
  BY <1>2 DEF Leaves, Finish, Shares, Ok, Fresh, IsDuplicate, HasScene, Turn, request, answers, merge
<1>3. CASE BeginRound
  <2>1. /\ round = {} /\ round' = Ok
        /\ UNCHANGED <<dedupe, failed, found, seenIds, seenScenes, cursor, contributed>>
    BY <1>3 DEF BeginRound, request, answers, merge
  <2>2. \A t \in Sources : Fresh(t)' = Fresh(t)
    BY <2>1 DEF Fresh, IsDuplicate, HasScene
  <2>3. Ok' = Ok
    BY <2>1 DEF Ok
  <2>4. \A s \in Ok : Turn(s) = 0 /\ Turn(s)' = 1
    BY <2>1 DEF Turn
  <2>5. \A s, t \in Ok : Fresh(t) # {} => contributed[s] <= contributed[t]
    BY <1>a, <2>4 DEF Shares
  <2>6. ASSUME NEW s \in Ok, NEW t \in Ok, Fresh(t)' # {}
        PROVE  contributed'[s] + Turn(s)' <= contributed'[t] + Turn(t)'
    <3>1. contributed[s] \in Nat /\ contributed[t] \in Nat /\ contributed[s] <= contributed[t]
      BY <1>a, <2>2, <2>5, <2>6
    <3> QED
      BY <2>1, <2>4, <3>1
  <2> QED
    BY <2>1, <2>3, <2>6 DEF Shares
<1>4. CASE \E s \in Sources : Skip(s)
  <2> PICK s \in Sources : Skip(s)
    BY <1>4
  <2>1. /\ InTurn(s) /\ round' = round \ {s} /\ Fresh(s) = {}
        /\ failed' = failed /\ contributed' = contributed
    BY DEF Skip, answers
  <2>2. \A t \in Sources : Fresh(t)' = Fresh(t)
    BY FreshAfterSkip
  <2>3. Ok' = Ok
    BY <2>1 DEF Ok
  <2>4. ASSUME NEW r \in Ok, NEW t \in Ok, Fresh(t)' # {}
        PROVE  contributed'[r] + Turn(r)' <= contributed'[t] + Turn(t)'
    <3>1. t # s /\ contributed[r] + Turn(r) <= contributed[t] + Turn(t)
      BY <1>a, <2>1, <2>2, <2>4 DEF Shares
    <3>2. Turn(t)' = Turn(t) /\ Turn(t) \in {0, 1} /\ Turn(r)' \in {0, 1} /\ Turn(r) \in {0, 1}
      BY <2>1, <3>1 DEF Turn
    <3>3. Turn(r)' <= Turn(r)
      BY <2>1 DEF Turn
    <3>4. contributed[r] \in Nat /\ contributed[t] \in Nat
      BY <1>a
    <3> QED
      BY <2>1, <3>1, <3>2, <3>3, <3>4
  <2>5. ASSUME NEW r \in round', NEW t \in Ok, r < t PROVE t \in round'
    <3>1. r \in round /\ t \in round /\ s <= r /\ s \in Nat /\ r \in Nat /\ t \in Nat /\ r # s
      BY <1>a, <2>1, <2>5 DEF Shares, InTurn
    <3> QED
      BY <2>1, <2>5, <3>1
  <2> QED
    BY <2>3, <2>4, <2>5 DEF Shares
<1>5. CASE \E s \in Sources : \E i \in Fresh(s) : Takes(s, i)
  <2> PICK s \in Sources : \E i \in Fresh(s) : Takes(s, i)
    BY <1>5
  <2> PICK i \in Fresh(s) : Takes(s, i)
    OBVIOUS
  <2>1. /\ InTurn(s) /\ round' = round \ {s} /\ failed' = failed
        /\ contributed' = [contributed EXCEPT ![s] = @ + 1]
    BY DEF Takes
  <2>2. \A t \in Sources : Fresh(t)' \subseteq Fresh(t)
    BY FreshShrinks
  <2>3. Ok' = Ok
    BY <2>1 DEF Ok
  <2>4. ASSUME NEW r \in Ok PROVE contributed'[r] + Turn(r)' = contributed[r] + Turn(r)
    <3>1. contributed \in [Sources -> Nat] /\ r \in Sources /\ s \in round
      BY <1>a, <2>1 DEF TypeOK, InTurn
    <3>2. CASE r = s
      <4>1. contributed'[r] = contributed[r] + 1 /\ contributed[r] \in Nat
        BY <2>1, <3>1, <3>2
      <4>2. Turn(r)' = 0 /\ Turn(r) = 1
        BY <2>1, <3>1, <3>2 DEF Turn
      <4> QED
        BY <4>1, <4>2
    <3>3. CASE r # s
      BY <2>1, <3>1, <3>3 DEF Turn
    <3> QED
      BY <3>2, <3>3
  <2>5. ASSUME NEW r \in round', NEW t \in Ok, r < t PROVE t \in round'
    <3>1. r \in round /\ t \in round /\ s <= r /\ s \in Nat /\ r \in Nat /\ t \in Nat /\ r # s
      BY <1>a, <2>1, <2>5 DEF Shares, InTurn
    <3> QED
      BY <2>1, <2>5, <3>1
  <2>6. ASSUME NEW r \in Ok, NEW t \in Ok, Fresh(t)' # {}
        PROVE  contributed'[r] + Turn(r)' <= contributed'[t] + Turn(t)'
    <3>1. Fresh(t) # {}
      BY <1>a, <2>2, <2>6
    <3> QED
      BY <2>4, <3>1 DEF Shares
  <2> QED
    BY <2>3, <2>5, <2>6 DEF Shares
<1> QED
  BY <1>1, <1>2, <1>3, <1>4, <1>5

\* What one turn takes: the last item of the result.
LEMMA TakesLast ==
    ASSUME TypeOK, NEW s \in Sources, NEW i \in Fresh(s), Takes(s, i)
    PROVE  \E n \in Nat \ {0} :
              /\ DOMAIN merged = 1..n - 1 /\ DOMAIN merged' = 1..n
              /\ \A k \in 1..n - 1 : merged'[k] = merged[k] /\ Taken(k)' = Taken(k)
              /\ merged'[n] = [source |-> s, at |-> i] /\ Taken(n)' = found[s][i]
<1>1. i \in Nat
  BY FreshPositions
<1>2. merged \in Seq([source : Sources, at : Nat]) /\ [source |-> s, at |-> i] \in [source : Sources, at : Nat]
  BY <1>1 DEF TypeOK
<1>3. merged' = Append(merged, [source |-> s, at |-> i]) /\ found' = found
  BY DEF Takes
<1> PICK n : n = Len(merged) + 1
  OBVIOUS
<1>4. /\ DOMAIN merged = 1..n - 1 /\ DOMAIN merged' = 1..n /\ n \in Nat \ {0}
      /\ \A k \in 1..n - 1 : merged'[k] = merged[k]
      /\ merged'[n] = [source |-> s, at |-> i]
  BY <1>2, <1>3, OneMore
<1>5. ASSUME NEW k \in 1..n - 1 PROVE Taken(k)' = Taken(k)
  BY <1>3, <1>4 DEF Taken
<1>6. Taken(n)' = found[s][i]
  BY <1>3, <1>4 DEF Taken
<1> QED
  BY <1>4, <1>5, <1>6

\* What is taken is new.
LEMMA NoDuplicatesStep ==
    ASSUME TypeOK, SeenIsTaken, NoDuplicates,
           Starts \/ Leaves \/ BeginRound \/ Finish
                    \/ \E s \in Sources : Skip(s) \/ \E i \in Fresh(s) : Takes(s, i)
    PROVE  NoDuplicates'
<1>1. CASE Starts
  BY <1>1 DEF Starts, Blank, NoDuplicates
<1>2. CASE Leaves \/ BeginRound \/ Finish \/ \E s \in Sources : Skip(s)
  BY <1>2 DEF Leaves, BeginRound, Finish, Skip, NoDuplicates, Same, HasScene, Taken, request, answers, merge
<1>3. CASE \E s \in Sources : \E i \in Fresh(s) : Takes(s, i)
  <2> PICK s \in Sources : \E i \in Fresh(s) : Takes(s, i)
    BY <1>3
  <2> PICK i \in Fresh(s) : Takes(s, i)
    OBVIOUS
  <2> PICK n \in Nat \ {0} :
              /\ DOMAIN merged = 1..n - 1 /\ DOMAIN merged' = 1..n
              /\ \A k \in 1..n - 1 : merged'[k] = merged[k] /\ Taken(k)' = Taken(k)
              /\ merged'[n] = [source |-> s, at |-> i] /\ Taken(n)' = found[s][i]
    BY TakesLast
  <2>1. dedupe' = dedupe
    BY DEF Takes
  <2>2. ~IsDuplicate(found[s][i])
    BY FreshPositions
  <2>3. \A k \in 1..n - 1 : ~Same(Taken(k), found[s][i])
    BY <2>2 DEF SeenIsTaken, IsDuplicate, Same
  <2> SUFFICES ASSUME NEW j \in DOMAIN merged', NEW k \in DOMAIN merged', j < k
               PROVE  ~Same(Taken(j), Taken(k))'
    BY DEF NoDuplicates
  <2>4. Taken(j)' = Taken(j) /\ j \in 1..n - 1
    OBVIOUS
  <2>5. CASE k = n
    BY <2>1, <2>3, <2>4, <2>5 DEF Same, HasScene
  <2>6. CASE k # n
    <3>1. Taken(k)' = Taken(k) /\ k \in DOMAIN merged /\ j \in DOMAIN merged
      BY <2>4, <2>6
    <3>2. ~Same(Taken(j), Taken(k))
      BY <3>1 DEF NoDuplicates
    <3> QED
      BY <2>1, <2>4, <3>1, <3>2 DEF Same, HasScene
  <2> QED
    BY <2>5, <2>6
<1> QED
  BY <1>1, <1>2, <1>3

\* Every item taken is counted.
LEMMA CountsStep ==
    ASSUME TypeOK, CountsAreExact,
           Starts \/ Leaves \/ BeginRound \/ Finish
                    \/ \E s \in Sources : Skip(s) \/ \E i \in Fresh(s) : Takes(s, i)
    PROVE  CountsAreExact'
<1>1. CASE Starts
  <2> SUFFICES ASSUME NEW t \in Sources
               PROVE  contributed'[t] = Cardinality({k \in DOMAIN merged' : merged'[k].source = t})
    BY DEF CountsAreExact
  <2>1. contributed'[t] = 0 /\ {k \in DOMAIN merged' : merged'[k].source = t} = {}
    BY <1>1 DEF Starts, Blank
  <2> QED
    BY <2>1, FS_EmptySet
<1>2. CASE Leaves \/ BeginRound \/ Finish \/ \E s \in Sources : Skip(s)
  <2>1. merged' = merged /\ contributed' = contributed
    BY <1>2 DEF Leaves, BeginRound, Finish, Skip, merge
  <2> QED
    BY <2>1 DEF CountsAreExact
<1>3. CASE \E s \in Sources : \E i \in Fresh(s) : Takes(s, i)
  <2> PICK s \in Sources : \E i \in Fresh(s) : Takes(s, i)
    BY <1>3
  <2> PICK i \in Fresh(s) : Takes(s, i)
    OBVIOUS
  <2> PICK n \in Nat \ {0} :
              /\ DOMAIN merged = 1..n - 1 /\ DOMAIN merged' = 1..n
              /\ \A k \in 1..n - 1 : merged'[k] = merged[k] /\ Taken(k)' = Taken(k)
              /\ merged'[n] = [source |-> s, at |-> i] /\ Taken(n)' = found[s][i]
    BY TakesLast
  <2> SUFFICES ASSUME NEW t \in Sources
               PROVE  contributed'[t] = Cardinality({k \in DOMAIN merged' : merged'[k].source = t})
    BY DEF CountsAreExact
  <2> DEFINE Old == {k \in 1..n - 1 : merged[k].source = t}
             New == {k \in 1..n : merged'[k].source = t}
  <2>1. IsFiniteSet(Old)
    <3>1. IsFiniteSet(1..n - 1)
      BY FS_Interval
    <3> QED
      BY <3>1, FS_Subset
  <2>2. contributed \in [Sources -> Nat] /\ contributed' = [contributed EXCEPT ![s] = @ + 1]
    BY DEF TypeOK, Takes
  <2>3. contributed[t] = Cardinality(Old)
    BY DEF CountsAreExact
  <2>4. CASE t = s
    <3>1. New = Old \cup {n} /\ n \notin Old
      BY <2>4
    <3>2. Cardinality(New) = Cardinality(Old) + 1
      BY <2>1, <3>1, FS_AddElement
    <3> QED
      BY <2>2, <2>3, <2>4, <3>2
  <2>5. CASE t # s
    <3>1. New = Old
      BY <2>5
    <3> QED
      BY <2>2, <2>3, <2>5, <3>1
  <2> QED
    BY <2>4, <2>5
<1> QED
  BY <1>1, <1>2, <1>3

-----------------------------------------------------------------------------

Inv ==
    /\ TypeOK
    /\ NotYet
    /\ SeenIsTaken
    /\ Passed
    /\ NothingLeft
    /\ Shares
    /\ NoDuplicates
    /\ CountsAreExact

LEMMA InitInv == Init => Inv
<1> SUFFICES ASSUME Init PROVE Inv
  OBVIOUS
<1>1. TypeOK
  <2>1. MaxItems \in Nat
    BY FederationAssumption
  <2> QED
    BY <2>1 DEF Init, TypeOK
<1>2. NotYet /\ SeenIsTaken /\ Passed /\ NothingLeft /\ Shares /\ NoDuplicates
  BY DEF Init, NotYet, Blank, SeenIsTaken, Passed, NothingLeft, Shares, NoDuplicates, Ok, Turn
<1>3. CountsAreExact
  <2> SUFFICES ASSUME NEW s \in Sources
               PROVE  contributed[s] = Cardinality({k \in DOMAIN merged : merged[k].source = s})
    BY DEF CountsAreExact
  <2>1. contributed[s] = 0 /\ {k \in DOMAIN merged : merged[k].source = s} = {}
    BY DEF Init
  <2> QED
    BY <2>1, FS_EmptySet
<1> QED
  BY <1>1, <1>2, <1>3 DEF Inv

LEMMA NextInv == Inv /\ [Next]_vars => Inv'
<1> SUFFICES ASSUME Inv, [Next]_vars PROVE Inv'
  OBVIOUS
<1>1. TypeOK' /\ NotYet'
  BY TypeStep, NotYetStep DEF Inv
<1>2. Starts \/ Leaves \/ BeginRound \/ Finish
      \/ \E s \in Sources : Skip(s) \/ \E i \in Fresh(s) : Takes(s, i)
  BY StepKinds DEF Inv
<1>3. SeenIsTaken' /\ Passed' /\ NothingLeft' /\ Shares' /\ NoDuplicates' /\ CountsAreExact'
  BY <1>1, <1>2, SeenStep, PassedStep, NothingLeftStep, SharesStep, NoDuplicatesStep, CountsStep DEF Inv
<1> QED
  BY <1>1, <1>3 DEF Inv

\* The inductive invariant: seen ids and scenes are those taken, cursors pass
\* only duplicates, turns go round.
THEOREM Invariance == Spec => []Inv
BY InitInv, NextInv, PTL DEF Spec

\* Types: what is merged comes from catalogs that responded, within the limit.
THEOREM TypeCorrect == Spec => []TypeOK
<1>1. Inv => TypeOK
  BY DEF Inv
<1> QED
  BY <1>1, Invariance, PTL

\* No item is in the result twice, under its id or as the same scene.
THEOREM Distinct == Spec => []NoDuplicates
<1>1. Inv => NoDuplicates
  BY DEF Inv
<1> QED
  BY <1>1, Invariance, PTL

\* A result below the limit has everything the responding catalogs found.
THEOREM Complete == Spec => []NothingLeftOut
<1>1. Inv => NothingLeftOut
  <2> SUFFICES ASSUME Inv, reply = "result", Len(merged) < limit,
                      NEW s \in Ok, NEW i \in DOMAIN found[s]
               PROVE  \E k \in DOMAIN merged : Same(found[s][i], Taken(k))
    BY DEF NothingLeftOut
  <2>1. s \in Sources /\ found[s] \in Seq(Items) /\ cursor[s] \in Nat
    BY DEF Inv, TypeOK, Ok
  <2>2. Fresh(s) = {}
    <3>1. Len(merged) # limit
      BY DEF Inv, TypeOK
    <3> QED
      BY <3>1 DEF Inv, NothingLeft
  <2>3. IsDuplicate(found[s][i])
    <3>1. CASE i < cursor[s]
      BY <2>1, <3>1 DEF Inv, Passed
    <3>2. CASE ~(i < cursor[s])
      <4>1. i \in cursor[s]..Len(found[s])
        BY <2>1, <3>2
      <4> QED
        BY <2>2, <4>1 DEF Fresh
    <3> QED
      BY <3>1, <3>2
  <2> QED
    BY <2>3 DEF Inv, SeenIsTaken, IsDuplicate, Same
<1> QED
  BY <1>1, Invariance, PTL

\* No catalog gets ahead of another that still has items to give.
THEOREM Fair == Spec => []FairShares
<1>1. Inv => FairShares
  <2> SUFFICES ASSUME Inv, NEW s \in Ok, NEW t \in Ok, Fresh(t) # {}
               PROVE  ~(contributed[s] > contributed[t] + (IF s < t THEN 1 ELSE 0))
    BY DEF FairShares
  <2>1. contributed[s] + Turn(s) <= contributed[t] + Turn(t)
    BY DEF Inv, Shares
  <2>2. s \in Nat /\ t \in Nat /\ contributed[s] \in Nat /\ contributed[t] \in Nat
    <3>1. s \in Sources /\ t \in Sources
      BY DEF Ok
    <3>2. s \in Nat /\ t \in Nat
      BY <3>1, FederationAssumption DEF Sources
    <3>3. contributed[s] \in Nat /\ contributed[t] \in Nat
      BY <3>1 DEF Inv, TypeOK
    <3> QED
      BY <3>2, <3>3
  <2>3. t \in round /\ s \notin round => s < t
    BY <2>2 DEF Inv, Shares
  <2> QED
    BY <2>1, <2>2, <2>3 DEF Turn
<1> QED
  BY <1>1, Invariance, PTL

\* The count reported for each catalog is that of its items in the result.
THEOREM CountsCorrect == Spec => []CountsAreExact
<1>1. Inv => CountsAreExact
  BY DEF Inv
<1> QED
  BY <1>1, Invariance, PTL

-----------------------------------------------------------------------------
(* Listing the collections of a catalog.  While the call goes on, what is    *)
(* kept are the matches it has passed (Behind), so the match that finds the  *)
(* list full is another one, and a paging that comes to the end of a catalog *)
(* has kept them all.                                                        *)

Behind == {m \in Matching : \/ url = NoPage
                            \/ m.page < url
                            \/ stage = "page" /\ m.page = url /\ m.at < pos}

PagingTypes ==
    /\ pages \in PageSets /\ loops \in BOOLEAN
    /\ stage \in {"idle", "paging", "page", "done"}
    /\ effectiveLimit \in 0..MaxCollections
    /\ url \in 0..Len(pages)
    /\ pos \in Nat \ {0}
    /\ scanned \in Nat
    /\ collected \in Seq([page : Nat, at : Nat])
    /\ truncated \in BOOLEAN

PagingInv ==
    /\ PagingTypes
    /\ Len(collected) <= effectiveLimit
    /\ stage = "idle" => url = 1 /\ collected = <<>>
    /\ stage = "page" => url # NoPage /\ pos <= Len(pages[url]) + 1
    /\ loops => url # NoPage
    /\ stage # "done" => returned = "none" /\ ~truncated
    /\ stage # "done" /\ ~loops => Kept = Behind
    /\ FirstMatches
    /\ FlagIsHonest

LEMMA CatalogTypes ==
    ASSUME PagingTypes
    PROVE  /\ pages \in Seq(Seq(Entries)) /\ Len(pages) \in Nat \ {0}
           /\ DOMAIN pages = 1..Len(pages)
           /\ url # NoPage => url \in 1..Len(pages) /\ pages[url] \in Seq(Entries)
           /\ effectiveLimit \in Nat
<1>1. pages \in Seq(Seq(Entries)) /\ pages # <<>>
  BY CollectionsAssumption DEF PagingTypes
<1>2. Len(pages) \in Nat \ {0} /\ DOMAIN pages = 1..Len(pages)
  BY <1>1
<1>3. url # NoPage => url \in 1..Len(pages)
  BY <1>2 DEF PagingTypes, NoPage
<1>4. effectiveLimit \in Nat
  BY CollectionsAssumption DEF PagingTypes
<1> QED
  BY <1>1, <1>2, <1>3, <1>4

LEMMA MatchShape ==
    ASSUME PagingTypes
    PROVE  /\ \A m \in Matching : /\ m \in [page : Nat, at : Nat]
                                 /\ m.page \in 1..Len(pages) /\ m.at > 0
                                 /\ m.at <= Len(pages[m.page])
                                 /\ pages[m.page][m.at] = "match"
           /\ \A i \in 1..Len(pages), k \in Nat \ {0} :
                 k <= Len(pages[i]) /\ pages[i][k] = "match" => [page |-> i, at |-> k] \in Matching
<1>1. /\ pages \in Seq(Seq(Entries)) /\ DOMAIN pages = 1..Len(pages)
      /\ \A i \in DOMAIN pages : /\ i \in Nat /\ pages[i] \in Seq(Entries)
                                /\ DOMAIN pages[i] = 1..Len(pages[i]) /\ Len(pages[i]) \in Nat
  BY CatalogTypes
<1>2. ASSUME NEW m \in Matching
      PROVE  /\ m \in [page : Nat, at : Nat]
             /\ m.page \in 1..Len(pages) /\ m.at > 0
             /\ m.at <= Len(pages[m.page])
             /\ pages[m.page][m.at] = "match"
  <2>1. PICK i \in DOMAIN pages : \E k \in DOMAIN pages[i] :
           m = [page |-> i, at |-> k] /\ pages[i][k] = "match"
    BY DEF Matching
  <2> PICK k \in DOMAIN pages[i] : m = [page |-> i, at |-> k] /\ pages[i][k] = "match"
    BY <2>1
  <2>2. i \in Nat /\ k \in Nat /\ k > 0 /\ k <= Len(pages[i])
    BY <1>1, <2>1
  <2> QED
    BY <1>1, <2>1, <2>2
<1>3. ASSUME NEW i \in 1..Len(pages), NEW k \in Nat \ {0},
             k <= Len(pages[i]), pages[i][k] = "match"
      PROVE  [page |-> i, at |-> k] \in Matching
  <2>1. i \in DOMAIN pages /\ k \in DOMAIN pages[i]
    BY <1>1, <1>3
  <2> QED
    BY <1>3, <2>1 DEF Matching
<1> QED
  BY <1>2, <1>3

LEMMA PagingInitInv == PagingInit => PagingInv
<1> SUFFICES ASSUME PagingInit PROVE PagingInv
  OBVIOUS
<1>1. pages \in Seq(Seq(Entries)) /\ pages # <<>> /\ 0 \in 0..MaxCollections
  BY CollectionsAssumption DEF PagingInit
<1>2. 1 \in 0..Len(pages)
  BY <1>1
<1>3. PagingTypes /\ Len(collected) = 0 /\ Kept = {}
  <2>1. /\ collected = <<>> /\ collected \in Seq([page : Nat, at : Nat])
        /\ Len(collected) = 0 /\ DOMAIN collected = {}
    BY DEF PagingInit
  <2>2. Kept = {}
    BY <2>1 DEF Kept
  <2>3. /\ url \in 0..Len(pages) /\ effectiveLimit \in 0..MaxCollections
        /\ pos \in Nat \ {0} /\ scanned \in Nat
    BY <1>1, <1>2 DEF PagingInit
  <2>4. /\ pages \in PageSets /\ loops \in BOOLEAN /\ truncated \in BOOLEAN
        /\ stage \in {"idle", "paging", "page", "done"}
    BY DEF PagingInit
  <2>5. PagingTypes
    BY <2>1, <2>3, <2>4 DEF PagingTypes
  <2> QED
    BY <2>1, <2>2, <2>5
<1>4. Behind = {}
  BY <1>3, MatchShape DEF PagingInit, Behind, NoPage
<1>5. FirstMatches
  BY <1>3, CollectionsAssumption DEF PagingInit, FirstMatches
<1>6. FlagIsHonest
  BY DEF PagingInit, FlagIsHonest, TruncatedMeansMore, WholeUnlessCapped
<1> QED
  BY <1>3, <1>4, <1>5, <1>6 DEF PagingInv, PagingInit, NoPage

\* A call that goes on or ends without a new collection says what it said.
LEMMA NothingTaken ==
    ASSUME PagingInv, PagingTypes', UNCHANGED <<catalog, collected>>,
           effectiveLimit' = effectiveLimit \/ (collected = <<>> /\ effectiveLimit <= effectiveLimit')
    PROVE  FirstMatches' /\ Len(collected') <= effectiveLimit'
<1>1. Kept' = Kept /\ Matching' = Matching
  BY DEF Kept, Matching, catalog
<1>2. Len(collected') <= effectiveLimit' /\ effectiveLimit' <= MaxCollections
  <2>1. Len(collected) <= effectiveLimit /\ Len(collected) \in Nat
    BY DEF PagingInv, PagingTypes
  <2>2. effectiveLimit \in Nat /\ effectiveLimit' \in Nat /\ effectiveLimit' <= MaxCollections
    BY CollectionsAssumption DEF PagingTypes, PagingInv
  <2> QED
    BY <2>1, <2>2
<1> QED
  BY <1>1, <1>2 DEF PagingInv, FirstMatches, catalog

LEMMA PagingCallStep ==
    ASSUME PagingInv, NEW lim \in Limits, Call(lim)
    PROVE  PagingInv'
<1>1. /\ stage = "idle" /\ UNCHANGED <<catalog, url, pos, scanned, collected, truncated, broken>>
      /\ url = 1 /\ collected = <<>> /\ ~truncated /\ returned = "none"
  BY DEF Call, PagingInv
<1>2. \/ stage' = "done" /\ returned' = "validation" /\ effectiveLimit' = effectiveLimit
      \/ /\ stage' = "paging" /\ returned' = returned
         /\ effectiveLimit' = CapCollections(lim) /\ ~(lim < 1)
  BY DEF Call
<1>3. lim \in Nat /\ MaxCollections \in Nat \ {0}
  BY CollectionsAssumption
<1>4. effectiveLimit' \in 0..MaxCollections
  BY <1>2, <1>3 DEF CapCollections, PagingInv, PagingTypes
<1>5. PagingTypes' /\ PagingTypes
  BY <1>1, <1>2, <1>4 DEF PagingInv, PagingTypes, catalog
<1>6. FirstMatches' /\ Len(collected') <= effectiveLimit'
  <2>1. collected \in Seq([page : Nat, at : Nat]) /\ Len(collected) = 0
    BY <1>1
  <2>2. Kept' = {} /\ collected' = <<>> /\ DOMAIN collected' = {} /\ Len(collected') = 0
    BY <1>1 DEF Kept
  <2> QED
    BY <1>3, <1>4, <2>2 DEF FirstMatches
<1>7. FlagIsHonest'
  BY <1>1, <1>2 DEF FlagIsHonest, TruncatedMeansMore, WholeUnlessCapped
<1>8. stage' # "done" /\ ~loops' => Kept' = Behind'
  BY <1>1, <1>2, <1>5, MatchShape DEF PagingInv, Kept, Behind, Matching, catalog, NoPage
<1> QED
  BY <1>1, <1>2, <1>5, <1>6, <1>7, <1>8 DEF PagingInv, catalog

LEMMA RequestStep ==
    ASSUME PagingInv, Request
    PROVE  PagingInv'
<1>1. /\ stage = "paging" /\ url # NoPage /\ ~truncated /\ returned = "none"
      /\ UNCHANGED <<catalog, effectiveLimit, url, scanned, collected, truncated>>
  BY DEF Request, KeepsPaging, PagingInv
<1>2. \/ stage' = "page" /\ pos' = 1 /\ returned' = returned
      \/ stage' = "done" /\ pos' = pos /\ returned' = "list" /\ broken' = TRUE
      \/ stage' = "done" /\ pos' = pos /\ returned' = "error"
  BY DEF Request
<1>3. PagingTypes' /\ PagingTypes
  BY <1>1, <1>2 DEF PagingInv, PagingTypes, catalog
<1>4. FirstMatches' /\ Len(collected') <= effectiveLimit'
  BY <1>1, <1>3, NothingTaken
<1>5. FlagIsHonest'
  BY <1>1, <1>2 DEF FlagIsHonest, TruncatedMeansMore, WholeUnlessCapped
<1>6. stage' = "page" => pos' <= Len(pages'[url']) + 1
  BY <1>1, <1>2, <1>3, CatalogTypes DEF catalog
<1>7. stage' # "done" /\ ~loops' => Kept' = Behind'
  <2>1. Kept' = Kept /\ Matching' = Matching
    BY <1>1 DEF Kept, Matching, catalog
  <2>2. stage' # "done" => Behind' = Behind
    BY <1>1, <1>2, <1>3, <2>1, MatchShape DEF Behind
  <2> QED
    BY <1>1, <2>1, <2>2 DEF PagingInv, catalog
<1> QED
  BY <1>1, <1>2, <1>3, <1>4, <1>5, <1>6, <1>7 DEF PagingInv, catalog

LEMMA EndPageStep ==
    ASSUME PagingInv, EndPage
    PROVE  PagingInv'
<1>1. /\ stage = "page" /\ pos > Len(pages[url]) /\ stage' = "paging" /\ url' = NextLink(url)
      /\ UNCHANGED <<catalog, effectiveLimit, pos, scanned, collected, truncated, broken, returned>>
      /\ ~truncated /\ returned = "none" /\ url # NoPage
  BY DEF EndPage, PagingInv
<1>2. PagingTypes /\ pages \in Seq(Seq(Entries)) /\ Len(pages) \in Nat \ {0} /\ url \in 1..Len(pages)
  BY <1>1, CatalogTypes DEF PagingInv
<1>3. url' \in 0..Len(pages) /\ (loops => url' # NoPage)
  BY <1>1, <1>2 DEF NextLink, NoPage
<1>4. PagingTypes'
  BY <1>1, <1>2, <1>3 DEF PagingTypes, catalog
<1>5. FirstMatches' /\ Len(collected') <= effectiveLimit'
  BY <1>1, <1>4, NothingTaken
<1>6. FlagIsHonest'
  BY <1>1 DEF FlagIsHonest, TruncatedMeansMore, WholeUnlessCapped
<1>7. ~loops' => Kept' = Behind'
  <2> SUFFICES ASSUME ~loops PROVE Kept' = Behind'
    BY <1>1 DEF catalog
  <2>1. Kept' = Behind /\ Matching' = Matching
    BY <1>1 DEF PagingInv, Kept, Matching, catalog
  <2>2. ASSUME NEW m \in Matching
        PROVE  m \in Behind <=> m \in Behind'
    <3>1. /\ m.page \in 1..Len(pages) /\ m.at \in Nat /\ m.at <= Len(pages[m.page])
      BY <1>2, MatchShape
    <3>2. m \in Behind <=> m.page <= url
      <4>1. pos \in Nat /\ Len(pages[url]) \in Nat
        BY <1>2 DEF PagingTypes
      <4>2. m.page = url => m.at < pos
        BY <1>1, <3>1, <4>1
      <4> QED
        BY <1>1, <1>2, <3>1, <4>2 DEF Behind
    <3>3. m \in Behind' <=> m.page <= url
      <4>1. CASE url < Len(pages)
        <5>1. url' = url + 1 /\ url' # NoPage /\ stage' = "paging"
          BY <1>1, <1>2, <4>1 DEF NextLink, NoPage
        <5> QED
          BY <1>2, <2>1, <3>1, <5>1 DEF Behind
      <4>2. CASE ~(url < Len(pages))
        <5>1. url' = NoPage /\ url = Len(pages)
          BY <1>1, <1>2, <4>2 DEF NextLink
        <5> QED
          BY <1>2, <2>1, <3>1, <5>1 DEF Behind
      <4> QED
        BY <4>1, <4>2
    <3> QED
      BY <3>2, <3>3
  <2>3. Behind \subseteq Matching /\ Behind' \subseteq Matching
    BY <2>1 DEF Behind
  <2> QED
    BY <2>1, <2>2, <2>3
<1> QED
  BY <1>1, <1>3, <1>4, <1>5, <1>6, <1>7 DEF PagingInv, catalog

LEMMA ReturnStep ==
    ASSUME PagingInv, Return
    PROVE  PagingInv'
<1>1. /\ stage = "paging" /\ ~KeepsPaging /\ stage' = "done" /\ returned' = "list" /\ ~truncated
      /\ UNCHANGED <<catalog, effectiveLimit, url, pos, scanned, collected, truncated, broken>>
  BY DEF Return, PagingInv
<1>2. PagingTypes' /\ PagingTypes
  BY <1>1 DEF PagingInv, PagingTypes, catalog
<1>3. FirstMatches' /\ Len(collected') <= effectiveLimit'
  BY <1>1, <1>2, NothingTaken
<1>4. FlagIsHonest'
  <2>1. scanned < MaxCollections => url = NoPage
    BY <1>1 DEF KeepsPaging
  <2>2. scanned < MaxCollections => Matching \subseteq Kept
    <3> SUFFICES ASSUME url = NoPage PROVE Matching \subseteq Kept
      BY <2>1
    <3>1. ~loops /\ Behind = Matching
      BY DEF PagingInv, Behind
    <3> QED
      BY <1>1, <3>1 DEF PagingInv
  <2>3. Kept' = Kept /\ Matching' = Matching
    BY <1>1 DEF Kept, Matching, catalog
  <2> QED
    BY <1>1, <2>2, <2>3 DEF FlagIsHonest, TruncatedMeansMore, WholeUnlessCapped
<1> QED
  BY <1>1, <1>2, <1>3, <1>4 DEF PagingInv, catalog

LEMMA AppendMatch ==
    ASSUME NEW S, NEW s \in Seq(S), NEW x \in S
    PROVE  /\ Append(s, x) \in Seq(S)
           /\ Len(Append(s, x)) = Len(s) + 1 /\ Len(s) \in Nat
           /\ DOMAIN Append(s, x) = 1..Len(s) + 1 /\ DOMAIN s = 1..Len(s)
           /\ \A i \in 1..Len(s) : Append(s, x)[i] = s[i]
           /\ Append(s, x)[Len(s) + 1] = x
OBVIOUS

LEMMA LookStep ==
    ASSUME PagingInv, Look
    PROVE  PagingInv'
<1> DEFINE m == [page |-> url, at |-> pos]
<1>1. /\ stage = "page" /\ pos <= Len(pages[url]) /\ scanned' = scanned + 1 /\ pos' = pos + 1
      /\ UNCHANGED <<catalog, effectiveLimit, url, broken>>
      /\ ~truncated /\ returned = "none" /\ url # NoPage
  BY DEF Look, PagingInv
<1>2. /\ PagingTypes /\ pages \in Seq(Seq(Entries)) /\ Len(pages) \in Nat \ {0}
      /\ url \in 1..Len(pages) /\ url \in Nat /\ pos \in Nat \ {0} /\ Len(pages[url]) \in Nat
      /\ effectiveLimit \in Nat /\ MaxCollections \in Nat
  BY <1>1, CatalogTypes, CollectionsAssumption DEF PagingInv, PagingTypes
<1>3. Matching' = Matching
  BY <1>1 DEF Matching, catalog
<1>4. m \in [page : Nat, at : Nat] /\ m.page = url /\ m.at = pos
  BY <1>2
<1>5. pages[url][pos] = "match" => m \in Matching
  BY <1>1, <1>2, MatchShape
<1>6. m \notin Behind
  BY <1>1, <1>2, <1>4 DEF Behind
<1>7. \A n \in Matching : n.page = url /\ n.at = pos => n = m /\ pages[url][pos] = "match"
  BY <1>2, MatchShape
<1> HIDE DEF m
<1>8. stage' = "page" => Behind' = Behind \cup (IF pages[url][pos] = "match" THEN {m} ELSE {})
  <2> SUFFICES ASSUME stage' = "page"
               PROVE  Behind' = Behind \cup (IF pages[url][pos] = "match" THEN {m} ELSE {})
    OBVIOUS
  <2>1. ASSUME NEW n \in Matching
        PROVE  n \in Behind' <=> n \in Behind \/ (n.page = url /\ n.at = pos)
    <3>1. n.page \in Nat /\ n.at \in Nat
      BY <1>2, MatchShape
    <3> QED
      BY <1>1, <1>2, <1>3, <3>1 DEF Behind
  <2>2. Behind \subseteq Matching /\ Behind' \subseteq Matching
    BY <1>3 DEF Behind
  <2> QED
    BY <1>4, <1>5, <1>7, <2>1, <2>2
<1>9. CASE pages[url][pos] # "match"
  <2>1. UNCHANGED <<stage, collected, truncated, returned>>
    BY <1>9 DEF Look
  <2>2. PagingTypes'
    BY <1>1, <1>2, <2>1 DEF PagingTypes, catalog
  <2>3. FirstMatches' /\ Len(collected') <= effectiveLimit'
    BY <1>1, <2>1, <2>2, NothingTaken
  <2>4. FlagIsHonest'
    BY <1>1, <2>1 DEF FlagIsHonest, TruncatedMeansMore, WholeUnlessCapped
  <2>5. ~loops' => Kept' = Behind'
    BY <1>1, <1>8, <1>9, <2>1 DEF PagingInv, Kept, catalog
  <2>6. pos' <= Len(pages[url]) + 1
    BY <1>1, <1>2
  <2> QED
    BY <1>1, <2>1, <2>2, <2>3, <2>4, <2>5, <2>6 DEF PagingInv, catalog
<1>10. CASE pages[url][pos] = "match" /\ ~Full
  <2>1. collected' = Append(collected, m) /\ UNCHANGED <<stage, truncated, returned>>
    BY <1>10 DEF Look, m
  <2>2. collected \in Seq([page : Nat, at : Nat])
    BY DEF PagingInv, PagingTypes
  <2>3. /\ collected' \in Seq([page : Nat, at : Nat])
        /\ Len(collected') = Len(collected) + 1 /\ Len(collected) \in Nat
        /\ DOMAIN collected' = 1..Len(collected) + 1 /\ DOMAIN collected = 1..Len(collected)
        /\ \A i \in 1..Len(collected) : collected'[i] = collected[i]
        /\ collected'[Len(collected) + 1] = m
    BY <1>4, <2>1, <2>2, AppendMatch
  <2>4. PagingTypes'
    BY <1>1, <1>2, <2>1, <2>3 DEF PagingTypes, catalog
  <2>5. Len(collected') <= effectiveLimit' /\ effectiveLimit' <= MaxCollections
    BY <1>1, <1>2, <1>10, <2>3 DEF Full, PagingTypes
  <2>6. Kept' = Kept \cup {m}
    BY <2>3 DEF Kept
  <2>7. ASSUME ~loops
        PROVE  /\ Kept' = Behind' /\ Kept' \subseteq Matching'
               /\ \A i, j \in DOMAIN collected' : i < j => Earlier(collected'[i], collected'[j])
               /\ \A u \in Matching', n \in Kept' : Earlier(u, n) => u \in Kept'
    <3>1. Kept = Behind /\ Kept' = Behind'
      BY <1>1, <1>8, <1>10, <2>1, <2>6, <2>7 DEF PagingInv
    <3>2. \A n \in Kept : Earlier(n, m)
      <4> SUFFICES ASSUME NEW n \in Behind PROVE Earlier(n, m)
        BY <3>1
      <4>1. n.page \in Nat /\ n.at \in Nat
        BY <1>2, MatchShape DEF Behind
      <4> QED
        BY <1>1, <1>4, <4>1 DEF Behind, Earlier
    <3>3. \A i, j \in DOMAIN collected : i < j => Earlier(collected[i], collected[j])
      BY <2>7 DEF PagingInv, FirstMatches
    <3>4. \A i \in DOMAIN collected : collected[i] \in Kept
      BY DEF Kept
    <3>5. ASSUME NEW i \in DOMAIN collected', NEW j \in DOMAIN collected', i < j
          PROVE  Earlier(collected'[i], collected'[j])
      <4>1. i \in 1..Len(collected)
        BY <2>3, <3>5
      <4>2. CASE j = Len(collected) + 1
        BY <2>3, <3>2, <3>4, <4>1, <4>2
      <4>3. CASE j # Len(collected) + 1
        BY <2>3, <3>3, <3>5, <4>1, <4>3
      <4> QED
        BY <4>2, <4>3
    <3>6. ASSUME NEW u \in Matching', NEW n \in Kept', Earlier(u, n)
          PROVE  u \in Kept'
      <4>1. CASE n \in Kept
        BY <1>3, <2>6, <2>7, <3>6, <4>1 DEF PagingInv, FirstMatches
      <4>2. CASE n = m
        <5>1. u \in Matching /\ u.page \in Nat /\ u.at \in Nat
          BY <1>2, <1>3, MatchShape
        <5>2. u \in Behind
          BY <1>1, <1>4, <3>6, <4>2, <5>1 DEF Behind, Earlier
        <5> QED
          BY <2>6, <3>1, <5>2
      <4> QED
        BY <2>6, <4>1, <4>2
    <3>7. Kept' \subseteq Matching'
      BY <3>1 DEF Behind
    <3> QED
      BY <3>1, <3>5, <3>6, <3>7
  <2>8. FirstMatches'
    BY <1>1, <2>5, <2>7 DEF FirstMatches, catalog
  <2>9. FlagIsHonest'
    BY <1>1, <2>1 DEF FlagIsHonest, TruncatedMeansMore, WholeUnlessCapped
  <2>10. pos' <= Len(pages[url]) + 1
    BY <1>1, <1>2
  <2> QED
    BY <1>1, <2>1, <2>4, <2>5, <2>7, <2>8, <2>9, <2>10 DEF PagingInv, catalog
<1>11. CASE pages[url][pos] = "match" /\ Full
  <2>1. /\ truncated' = TRUE /\ stage' = "done" /\ returned' = "list" /\ collected' = collected
    BY <1>11 DEF Look
  <2>2. PagingTypes'
    BY <1>1, <1>2, <2>1 DEF PagingTypes, catalog
  <2>3. FirstMatches' /\ Len(collected') <= effectiveLimit'
    BY <1>1, <2>1, <2>2, NothingTaken
  <2>4. Len(collected') = effectiveLimit'
    <3>1. Len(collected) \in Nat /\ Len(collected) <= effectiveLimit
      BY DEF PagingInv, PagingTypes
    <3> QED
      BY <1>1, <1>2, <1>11, <2>1, <3>1 DEF Full
  <2>5. ~loops' => Matching' \ Kept' # {}
    <3>1. ~loops => m \notin Kept
      BY <1>1, <1>6 DEF PagingInv
    <3> QED
      BY <1>1, <1>3, <1>5, <1>11, <2>1, <3>1 DEF Kept, catalog
  <2>6. FlagIsHonest'
    BY <2>1, <2>4, <2>5 DEF FlagIsHonest, TruncatedMeansMore, WholeUnlessCapped
  <2> QED
    BY <1>1, <2>1, <2>2, <2>3, <2>6 DEF PagingInv, catalog
<1> QED
  BY <1>9, <1>10, <1>11

LEMMA PagingStep == PagingInv /\ [PagingNext]_pagingVars => PagingInv'
<1> SUFFICES ASSUME PagingInv, [PagingNext]_pagingVars
             PROVE  PagingInv'
  OBVIOUS
<1>1. ASSUME NEW lim \in Limits, Call(lim)
      PROVE  PagingInv'
  BY <1>1, PagingCallStep
<1>2. CASE UNCHANGED pagingVars
  BY <1>2 DEF pagingVars, PagingInv, PagingTypes, Kept, Behind, Matching, FirstMatches,
              FlagIsHonest, TruncatedMeansMore, WholeUnlessCapped
<1> QED
  BY <1>1, <1>2, RequestStep, LookStep, EndPageStep, ReturnStep DEF PagingNext, PagingDone

LEMMA PagingInvariance == PagingSpec => []PagingInv
BY PagingInitInv, PagingStep, PTL DEF PagingSpec

\* The collections listed are the first matches of the catalog, each once and in its
\* order, within the limit and the cap, for any pages.
THEOREM FirstMatchesListed == PagingSpec => []FirstMatches
<1>1. PagingInv => FirstMatches
  BY DEF PagingInv
<1> QED
  BY <1>1, PagingInvariance, PTL

\* A list called truncated is full and there is another match; one not called so has
\* them all, unless the scan cap or a broken page ended the paging.
THEOREM TruncatedIsHonest == PagingSpec => []FlagIsHonest
<1>1. PagingInv => FlagIsHonest
  BY DEF PagingInv
<1> QED
  BY <1>1, PagingInvariance, PTL

=============================================================================
