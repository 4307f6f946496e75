-------------------------- MODULE HttpClientProofs --------------------------
(***************************************************************************)
(* Proofs about HttpClient for every RetryPolicy.                          *)
(***************************************************************************)
EXTENDS HttpClient, TLAPS

\* The powers of the multiplier are positive, and grow with the exponent: the
\* recursion is the function of ten numbers, each the product with the last.
LEMMA PowersGrow ==
    \A n \in 0..9 :
        /\ MultiplierToThe[n] \in Nat
        /\ \A m \in 0..n : MultiplierToThe[m] <= MultiplierToThe[n]
<1>1. Multiplier \in Nat \ {0}
  BY PolicyAssumption DEF PolicyAssumption
<1>2. \A a \in Nat : \E b \in Nat : b = Multiplier * a /\ a <= b
  BY <1>1
<1>3. PICK p1 \in Nat : p1 = Multiplier * 1 /\ 1 <= p1
  BY <1>2
<1>4. PICK p2 \in Nat : p2 = Multiplier * p1 /\ p1 <= p2
  BY <1>2
<1>5. PICK p3 \in Nat : p3 = Multiplier * p2 /\ p2 <= p3
  BY <1>2
<1>6. PICK p4 \in Nat : p4 = Multiplier * p3 /\ p3 <= p4
  BY <1>2
<1>7. PICK p5 \in Nat : p5 = Multiplier * p4 /\ p4 <= p5
  BY <1>2
<1>8. PICK p6 \in Nat : p6 = Multiplier * p5 /\ p5 <= p6
  BY <1>2
<1>9. PICK p7 \in Nat : p7 = Multiplier * p6 /\ p6 <= p7
  BY <1>2
<1>10. PICK p8 \in Nat : p8 = Multiplier * p7 /\ p7 <= p8
  BY <1>2
<1>11. PICK p9 \in Nat : p9 = Multiplier * p8 /\ p8 <= p9
  BY <1>2
<1> DEFINE Body(f) == [n \in 0..9 |-> IF n = 0 THEN 1 ELSE Multiplier * f[n - 1]]
    p == [n \in 0..9 |->
            IF n = 0 THEN 1 ELSE IF n = 1 THEN p1 ELSE IF n = 2 THEN p2
            ELSE IF n = 3 THEN p3 ELSE IF n = 4 THEN p4 ELSE IF n = 5 THEN p5
            ELSE IF n = 6 THEN p6 ELSE IF n = 7 THEN p7 ELSE IF n = 8 THEN p8 ELSE p9]
<1>12. p = Body(p)
  <2>1. p = [n \in 0..9 |-> p[n]]
    OBVIOUS
  <2>2. p[0] = 1 /\ p[1] = p1 /\ p[2] = p2 /\ p[3] = p3 /\ p[4] = p4
        /\ p[5] = p5 /\ p[6] = p6 /\ p[7] = p7 /\ p[8] = p8 /\ p[9] = p9
    OBVIOUS
  <2> HIDE DEF p
  <2>3. ASSUME NEW n \in 0..9 PROVE p[n] = IF n = 0 THEN 1 ELSE Multiplier * p[n - 1]
    BY <1>3, <1>4, <1>5, <1>6, <1>7, <1>8, <1>9, <1>10, <1>11, <2>2
  <2> QED
    BY <2>1, <2>3
<1> HIDE DEF p
<1>13. MultiplierToThe = Body(MultiplierToThe)
  <2>1. MultiplierToThe = CHOOSE f : f = Body(f)
    BY DEF MultiplierToThe
  <2> HIDE DEF Body
  <2> QED
    BY <1>12, <2>1, Zenon
<1> DEFINE q(n) == MultiplierToThe[n]
<1>14. q(0) = 1 /\ \A n \in 1..9 : q(n) = Multiplier * q(n - 1)
  <2>1. \A n \in 0..9 : MultiplierToThe[n] = Body(MultiplierToThe)[n]
    BY <1>13, Zenon
  <2> QED
    BY <2>1
<1>15. q(1) = p1
  BY <1>3, <1>14
<1>16. q(2) = p2
  BY <1>4, <1>14, <1>15
<1>17. q(3) = p3
  BY <1>5, <1>14, <1>16
<1>18. q(4) = p4
  BY <1>6, <1>14, <1>17
<1>19. q(5) = p5
  BY <1>7, <1>14, <1>18
<1>20. q(6) = p6
  BY <1>8, <1>14, <1>19
<1>21. q(7) = p7
  BY <1>9, <1>14, <1>20
<1>22. q(8) = p8
  BY <1>10, <1>14, <1>21
<1>23. q(9) = p9
  BY <1>11, <1>14, <1>22
<1> HIDE DEF q
<1>24. ASSUME NEW n \in 0..9, NEW m \in 0..n PROVE q(n) \in Nat /\ q(m) <= q(n)
  BY <1>3, <1>4, <1>5, <1>6, <1>7, <1>8, <1>9, <1>10, <1>11,
     <1>14, <1>15, <1>16, <1>17, <1>18, <1>19, <1>20, <1>21, <1>22, <1>23
<1> QED
  BY <1>24 DEF q

LEMMA BackoffBounded ==
    ASSUME NEW n \in 0..9
    PROVE  Backoff(n) \in Nat /\ Backoff(n) <= MaxDelay
<1>1. MultiplierToThe[n] \in Nat
  BY PowersGrow
<1>2. InitialDelay * MultiplierToThe[n] \in Nat
  BY <1>1, PolicyAssumption DEF PolicyAssumption
<1> QED BY <1>2, PolicyAssumption DEF Backoff, Smaller, PolicyAssumption

LEMMA BackoffGrows ==
    ASSUME NEW n \in 0..9, NEW m \in 0..n
    PROVE  Backoff(m) <= Backoff(n)
<1>1. /\ MultiplierToThe[n] \in Nat
      /\ MultiplierToThe[m] \in Nat
      /\ MultiplierToThe[m] <= MultiplierToThe[n]
  BY PowersGrow
<1>2. /\ InitialDelay * MultiplierToThe[n] \in Nat
      /\ InitialDelay * MultiplierToThe[m] \in Nat
      /\ InitialDelay * MultiplierToThe[m] <= InitialDelay * MultiplierToThe[n]
  BY <1>1, PolicyAssumption DEF PolicyAssumption
<1> QED BY <1>2, PolicyAssumption DEF Backoff, Smaller, PolicyAssumption

(***************************************************************************)
(* The strengthening.  None of the safety properties is inductive: they    *)
(* speak of the end of the call, or of one attempt, while the loop relates *)
(* its counter to the whole history.  LoopInv says where the loop stands   *)
(* in that history, that everything behind it was retryable, that every    *)
(* sleep was the one the policy asks for, and how much time is gone.       *)
(***************************************************************************)
Position ==
    /\ Len(waits) \in {Len(met) - 1, Len(met)}
    /\ phase = "sending" => Len(met) = attempt /\ Len(waits) = attempt
    /\ phase = "sleeping" =>
          /\ attempt < MaxAttempts - 1
          /\ Len(met) = attempt + 1 /\ Len(waits) = attempt + 1
    /\ phase = "ended" => Len(met) = attempt + 1 /\ Len(waits) = attempt
    /\ phase = "cancelled" => Len(met) <= attempt + 1 /\ Len(waits) = Len(met)

OnlyRetryableBehind ==
    \A i \in 1..Len(met) :
        \/ phase = "ended" /\ i = Len(met)
        \/ Retryable(met[i]) /\ ~OverCap(met[i])

SleptAsAsked ==
    \A i \in 1..Len(waits) :
        /\ i <= Len(met)
        /\ waits[i] = WaitAfter(met[i], i - 1)
        /\ ~OverCap(met[i]) /\ Retryable(met[i])

OutcomeOfLast ==
    /\ phase # "ended" => outcome = NoOutcome
    /\ outcome \in Categories =>
          /\ attempt = MaxAttempts - 1
          /\ Retryable(met[Len(met)]) /\ ~OverCap(met[Len(met)])
          /\ outcome = CategoryOf(met[Len(met)])

TimeGone ==
    elapsed <= Len(met) * LongestRequest + attempt * LongestWait

LoopInv ==
    /\ TypeOK
    /\ Position
    /\ OnlyRetryableBehind
    /\ SleptAsAsked
    /\ OutcomeOfLast
    /\ TimeGone

LEMMA WaitBounded ==
    ASSUME NEW r \in Reply, ~OverCap(r), Retryable(r), NEW n \in 0..9
    PROVE  WaitAfter(r, n) \in Nat /\ WaitAfter(r, n) <= LongestWait
<1>1. Backoff(n) \in Nat /\ Backoff(n) <= LongestWait
  BY BackoffBounded, PolicyAssumption DEF LongestWait, PolicyAssumption
<1>2. CASE r.retryAfter = NoRetryAfter
  BY <1>1, <1>2 DEF WaitAfter
<1>3. CASE r.retryAfter # NoRetryAfter
  <2>1. r.kind = "429" /\ r.retryAfter \in RetryAfters
    BY <1>3 DEF Reply
  <2>a. r.retryAfter \in Nat /\ RetryAfterCap \in Nat
    BY <2>1, PolicyAssumption DEF PolicyAssumption
  <2>b. ~(r.retryAfter > RetryAfterCap)
    BY <2>1 DEF OverCap
  <2>2. r.retryAfter \in Nat /\ r.retryAfter <= RetryAfterCap
    BY <2>a, <2>b
  <2> QED BY <1>3, <2>2, PolicyAssumption DEF WaitAfter, LongestWait, PolicyAssumption
<1> QED BY <1>2, <1>3

\* Time: one more attempt costs at most one request.
LEMMA AttemptTime ==
    ASSUME TypeOK, TimeGone, NEW r \in Reply, NEW d \in Latencies, Met(r, d)
    PROVE  /\ elapsed' \in Nat
           /\ elapsed' <= Len(met') * LongestRequest + attempt * LongestWait
<1>1. /\ elapsed' \in Nat
      /\ elapsed' <= elapsed + LongestRequest
  BY PolicyAssumption DEF Met, TypeOK, PolicyAssumption
<1>2. /\ Len(met') = Len(met) + 1
      /\ Len(met) \in Nat
  BY DEF Met, TypeOK
<1>3. (Len(met) + 1) * LongestRequest = Len(met) * LongestRequest + LongestRequest
  BY <1>2, PolicyAssumption DEF PolicyAssumption
<1>4. attempt * LongestWait \in Nat /\ Len(met) * LongestRequest \in Nat
  BY <1>2, PolicyAssumption DEF PolicyAssumption, LongestWait, TypeOK
<1>5. elapsed \in Nat /\ LongestRequest \in Nat
  BY PolicyAssumption DEF PolicyAssumption, TypeOK
<1> DEFINE a == Len(met) * LongestRequest
<1> DEFINE b == attempt * LongestWait
<1>6. elapsed <= a + b /\ a \in Nat /\ b \in Nat
  BY <1>4 DEF TimeGone
<1>7. Len(met') * LongestRequest = a + LongestRequest
  BY <1>2, <1>3
<1> HIDE DEF a, b
<1>8. elapsed' <= a + LongestRequest + b
  BY <1>1, <1>5, <1>6
<1> QED BY <1>1, <1>7, <1>8 DEF b

LEMMA LoopInit == Init => LoopInv
BY PolicyAssumption
   DEF Init, LoopInv, TypeOK, Position, OnlyRetryableBehind, SleptAsAsked,
       OutcomeOfLast, TimeGone, Categories, PolicyAssumption, LongestWait,
       NoOutcome

\* What every conclusion of an attempt does to the history.
LEMMA MetHistory ==
    ASSUME LoopInv, NEW r \in Reply, NEW d \in Latencies, Met(r, d)
    PROVE  /\ met' \in Seq(Reply) /\ Len(met') = attempt + 1
           /\ met'[attempt + 1] = r
           /\ \A i \in 1..attempt : met'[i] = met[i]
           /\ Len(met) = attempt /\ Len(waits) = attempt /\ attempt \in 0..9
           /\ \A i \in 1..attempt : Retryable(met[i]) /\ ~OverCap(met[i])
<1>1. /\ phase = "sending" /\ met \in Seq(Reply)
      /\ met' = Append(met, r)
  BY DEF LoopInv, TypeOK, Met
<1>2. /\ Len(met) = attempt /\ Len(waits) = attempt /\ attempt \in 0..9
      /\ \A i \in 1..attempt : Retryable(met[i]) /\ ~OverCap(met[i])
  BY <1>1, PolicyAssumption
     DEF LoopInv, TypeOK, Position, OnlyRetryableBehind, PolicyAssumption
<1> QED BY <1>1, <1>2

LEMMA RetryLaterKeeps ==
    ASSUME LoopInv, NEW r \in Reply, NEW d \in Latencies, RetryLater(r, d)
    PROVE  LoopInv'
<1>0. Met(r, d) BY DEF RetryLater
<1>h. /\ met' \in Seq(Reply) /\ Len(met') = attempt + 1
      /\ met'[attempt + 1] = r
      /\ \A i \in 1..attempt : met'[i] = met[i]
      /\ Len(met) = attempt /\ Len(waits) = attempt /\ attempt \in 0..9
      /\ \A i \in 1..attempt : Retryable(met[i]) /\ ~OverCap(met[i])
  BY <1>0, MetHistory
<1>w. WaitAfter(r, attempt) \in Nat
  BY <1>h, WaitBounded DEF RetryLater
<1>v. /\ waits' \in Seq(Nat) /\ Len(waits') = attempt + 1
      /\ waits'[attempt + 1] = WaitAfter(r, attempt)
      /\ \A i \in 1..attempt : waits'[i] = waits[i]
  BY <1>h, <1>w DEF RetryLater, LoopInv, TypeOK
<1>t. /\ elapsed' \in Nat
      /\ elapsed' <= Len(met') * LongestRequest + attempt * LongestWait
  BY <1>0, AttemptTime DEF LoopInv
<1>1. TypeOK'
  BY <1>h, <1>v, <1>t DEF RetryLater, LoopInv, TypeOK, CategoryOf, Categories
<1>2. Position'
  BY <1>h, <1>v DEF RetryLater, CanRetry, Position
<1>3. OnlyRetryableBehind'
  BY <1>h DEF RetryLater, OnlyRetryableBehind, Retryable, OverCap
<1>4. SleptAsAsked'
  <2> SUFFICES ASSUME NEW i \in 1..Len(waits')
               PROVE  /\ i <= Len(met') /\ waits'[i] = WaitAfter(met'[i], i - 1)
                      /\ ~OverCap(met'[i]) /\ Retryable(met'[i])
    BY DEF SleptAsAsked, WaitAfter, Backoff, OverCap, Retryable
  <2>1. CASE i = attempt + 1
    <3>1. i - 1 = attempt BY <2>1, <1>h
    <3> QED BY <2>1, <3>1, <1>h, <1>v DEF RetryLater
  <2>2. CASE i \in 1..attempt
    <3>1. waits[i] = WaitAfter(met[i], i - 1)
      BY <2>2, <1>h DEF LoopInv, SleptAsAsked
    <3> QED BY <2>2, <3>1, <1>h, <1>v
  <2> QED BY <2>1, <2>2, <1>h, <1>v
<1>5. OutcomeOfLast'
  BY DEF RetryLater, Met, LoopInv, OutcomeOfLast, Categories, NoOutcome
<1>6. TimeGone'
  BY <1>t DEF RetryLater, TimeGone, LongestWait
<1> QED BY <1>1, <1>2, <1>3, <1>4, <1>5, <1>6 DEF LoopInv

LEMMA EndKeeps ==
    ASSUME LoopInv, NEW r \in Reply, NEW d \in Latencies,
           Exhaust(r, d) \/ RefuseRetryAfter(r, d) \/ Answer(r, d)
    PROVE  LoopInv'
<1>0. Met(r, d) BY DEF Exhaust, RefuseRetryAfter, Answer
<1>h. /\ met' \in Seq(Reply) /\ Len(met') = attempt + 1
      /\ met'[attempt + 1] = r
      /\ \A i \in 1..attempt : met'[i] = met[i]
      /\ Len(met) = attempt /\ Len(waits) = attempt /\ attempt \in 0..9
      /\ \A i \in 1..attempt : Retryable(met[i]) /\ ~OverCap(met[i])
  BY <1>0, MetHistory
<1>t. /\ elapsed' \in Nat
      /\ elapsed' <= Len(met') * LongestRequest + attempt * LongestWait
  BY <1>0, AttemptTime DEF LoopInv
<1>e. phase' = "ended" /\ attempt' = attempt /\ waits' = waits
  BY DEF Exhaust, RefuseRetryAfter, Answer, End
<1>1. TypeOK'
  BY <1>h, <1>e, <1>t
     DEF Exhaust, RefuseRetryAfter, Answer, End, LoopInv, TypeOK, CategoryOf, Categories
<1>2. Position'
  BY <1>h, <1>e DEF Position
<1>3. OnlyRetryableBehind'
  BY <1>h, <1>e DEF OnlyRetryableBehind, Retryable, OverCap
<1>4. SleptAsAsked'
  <2> SUFFICES ASSUME NEW i \in 1..Len(waits')
               PROVE  /\ i <= Len(met') /\ waits'[i] = WaitAfter(met'[i], i - 1)
                      /\ ~OverCap(met'[i]) /\ Retryable(met'[i])
    BY DEF SleptAsAsked, WaitAfter, Backoff, OverCap, Retryable
  <2>1. i \in 1..attempt /\ waits'[i] = WaitAfter(met[i], i - 1)
    BY <1>h, <1>e DEF LoopInv, SleptAsAsked
  <2> QED BY <2>1, <1>h
<1>5. OutcomeOfLast'
  <2>1. CASE Exhaust(r, d)
    <3>1. attempt = MaxAttempts - 1
      BY <2>1, PolicyAssumption
         DEF Exhaust, CanRetry, LoopInv, TypeOK, PolicyAssumption
    <3>2. Retryable(r) /\ ~OverCap(r) /\ outcome' = CategoryOf(r)
      BY <2>1 DEF Exhaust, End
    <3> QED BY <3>1, <3>2, <1>h, <1>e
            DEF OutcomeOfLast, Retryable, OverCap, CategoryOf
  <2>2. CASE RefuseRetryAfter(r, d) \/ Answer(r, d)
    <3>1. outcome' \notin Categories
      BY <2>2 DEF RefuseRetryAfter, Answer, End, Categories
    <3> QED BY <3>1, <1>e DEF OutcomeOfLast
  <2> QED BY <2>1, <2>2
<1>6. TimeGone'
  BY <1>t, <1>e DEF TimeGone, LongestWait
<1> QED BY <1>1, <1>2, <1>3, <1>4, <1>5, <1>6 DEF LoopInv

LEMMA WakeUpKeeps ==
    ASSUME LoopInv, WakeUp
    PROVE  LoopInv'
<1>p. /\ attempt \in 0..9 /\ attempt + 1 < MaxAttempts
      /\ Len(met) = attempt + 1 /\ Len(waits) = attempt + 1
  BY PolicyAssumption DEF LoopInv, TypeOK, Position, WakeUp, PolicyAssumption
<1>w. waits[Len(waits)] \in Nat /\ waits[Len(waits)] <= LongestWait
  <2>1. /\ waits[attempt + 1] = WaitAfter(met[attempt + 1], (attempt + 1) - 1)
        /\ ~OverCap(met[attempt + 1]) /\ Retryable(met[attempt + 1])
    BY <1>p DEF LoopInv, SleptAsAsked
  <2>2. met[attempt + 1] \in Reply /\ (attempt + 1) - 1 = attempt
    BY <1>p DEF LoopInv, TypeOK
  <2> QED BY <2>1, <2>2, <1>p, WaitBounded
<1>1. TypeOK'
  <2>1. attempt' \in 0..(MaxAttempts - 1)
    BY <1>p, PolicyAssumption DEF WakeUp, PolicyAssumption
  <2>2. elapsed' \in Nat
    BY <1>w DEF WakeUp, LoopInv, TypeOK
  <2> QED BY <2>1, <2>2 DEF WakeUp, LoopInv, TypeOK
<1>2. Position'
  BY <1>p DEF WakeUp, Position
<1>3. OnlyRetryableBehind'
  BY DEF WakeUp, LoopInv, OnlyRetryableBehind, Retryable, OverCap
<1>4. SleptAsAsked'
  BY DEF WakeUp, LoopInv, SleptAsAsked, WaitAfter, Backoff, Retryable, OverCap
<1>5. OutcomeOfLast'
  BY DEF WakeUp, LoopInv, OutcomeOfLast, Categories, NoOutcome
<1>6. TimeGone'
  <2> DEFINE a == Len(met) * LongestRequest
  <2>1. a \in Nat /\ attempt * LongestWait \in Nat /\ LongestWait \in Nat
    BY <1>p, PolicyAssumption DEF PolicyAssumption, LongestWait
  <2>2. (attempt + 1) * LongestWait = attempt * LongestWait + LongestWait
    BY <1>p, <2>1
  <2> DEFINE b == attempt * LongestWait
  <2>3. elapsed \in Nat /\ elapsed <= a + b
    BY DEF LoopInv, TimeGone, TypeOK
  <2>4. elapsed' = elapsed + waits[Len(waits)] /\ met' = met /\ attempt' = attempt + 1
    BY DEF WakeUp
  <2>5. a \in Nat /\ b \in Nat BY <2>1
  <2>6. elapsed' <= a + (b + LongestWait)
    <3> HIDE DEF a, b
    <3> QED BY <2>1, <2>3, <2>4, <2>5, <1>w
  <2> QED BY <2>2, <2>4, <2>6 DEF TimeGone, LongestWait
<1> QED BY <1>1, <1>2, <1>3, <1>4, <1>5, <1>6 DEF LoopInv

LEMMA CancelKeeps ==
    ASSUME LoopInv, Cancel
    PROVE  LoopInv'
<1>1. TypeOK' BY DEF Cancel, LoopInv, TypeOK
<1>2. Position'
  BY PolicyAssumption DEF Cancel, LoopInv, TypeOK, Position, PolicyAssumption
<1>3. OnlyRetryableBehind'
  BY DEF Cancel, LoopInv, OnlyRetryableBehind, Retryable, OverCap
<1>4. SleptAsAsked'
  BY DEF Cancel, LoopInv, SleptAsAsked, WaitAfter, Backoff, Retryable, OverCap
<1>5. OutcomeOfLast'
  BY DEF Cancel, LoopInv, OutcomeOfLast, Categories, NoOutcome
<1>6. TimeGone'
  BY DEF Cancel, LoopInv, TimeGone, LongestWait
<1> QED BY <1>1, <1>2, <1>3, <1>4, <1>5, <1>6 DEF LoopInv

LEMMA StutterKeeps ==
    ASSUME LoopInv, UNCHANGED vars
    PROVE  LoopInv'
BY DEF vars, LoopInv, TypeOK, Position, OnlyRetryableBehind, SleptAsAsked,
       OutcomeOfLast, TimeGone, WaitAfter, Backoff, Retryable, OverCap,
       CategoryOf, LongestWait

LEMMA LoopInvariant == Spec => []LoopInv
<1>1. LoopInv /\ [Next]_vars => LoopInv'
  <2> SUFFICES ASSUME LoopInv, [Next]_vars PROVE LoopInv'
    OBVIOUS
  <2>1. CASE Attempt
    <3>1. PICK r \in Reply, d \in Latencies :
            RetryLater(r, d) \/ Exhaust(r, d) \/ RefuseRetryAfter(r, d) \/ Answer(r, d)
      BY <2>1 DEF Attempt
    <3> QED BY <3>1, RetryLaterKeeps, EndKeeps
  <2>2. CASE WakeUp BY <2>2, WakeUpKeeps
  <2>3. CASE Cancel BY <2>3, CancelKeeps
  <2>4. CASE Done \/ UNCHANGED vars BY <2>4, StutterKeeps DEF Done
  <2> QED BY <2>1, <2>2, <2>3, <2>4 DEF Next
<1> QED BY LoopInit, <1>1, PTL DEF Spec

-----------------------------------------------------------------------------

\* The call's locals keep their types for every policy.
THEOREM TypeCorrect == Spec => []TypeOK
<1>1. LoopInv => TypeOK BY DEF LoopInv
<1> QED BY LoopInvariant, <1>1, PTL

\* For every policy, NETWORK and UPSTREAM are raised only after max_attempts
\* transient failures and name the last of them.
THEOREM ExhaustionIsHonest == Spec => []ExhaustionNamesLastFailure
<1>1. LoopInv => ExhaustionNamesLastFailure
  <2> SUFFICES ASSUME LoopInv, outcome \in Categories
               PROVE  /\ Len(met) = MaxAttempts
                      /\ \A i \in 1..Len(met) :
                            met[i].kind \in {"timeout", "transport", "5xx", "429"}
                      /\ outcome = "network" <=>
                            met[Len(met)].kind \in {"timeout", "transport"}
    BY DEF ExhaustionNamesLastFailure
  <2>1. phase = "ended"
    BY DEF LoopInv, OutcomeOfLast, Categories, NoOutcome
  <2>2. attempt = MaxAttempts - 1 /\ Len(met) = MaxAttempts
    BY <2>1, PolicyAssumption
       DEF LoopInv, OutcomeOfLast, Position, TypeOK, PolicyAssumption
  <2>3. /\ Retryable(met[Len(met)])
        /\ outcome = CategoryOf(met[Len(met)])
    BY DEF LoopInv, OutcomeOfLast
  <2>4. \A i \in 1..Len(met) : Retryable(met[i])
    BY <2>3 DEF LoopInv, OnlyRetryableBehind
  <2> QED BY <2>2, <2>3, <2>4 DEF Retryable, Failures, CategoryOf
<1> QED BY LoopInvariant, <1>1, PTL

\* For every policy, no request follows a final answer.
THEOREM FinalAnswersAreFinal == Spec => []NothingAfterAFinalAnswer
<1>1. LoopInv => NothingAfterAFinalAnswer
  <2> SUFFICES ASSUME LoopInv, NEW i \in 1..Len(met) - 1
               PROVE  /\ met[i].kind \notin {"401", "403", "other", "unexpected"}
                      /\ met[i].retryAfter <= RetryAfterCap
    BY DEF NothingAfterAFinalAnswer
  <2>1. i \in 1..Len(met) /\ i # Len(met) /\ met[i] \in Reply
    BY DEF LoopInv, TypeOK
  <2>2. Retryable(met[i]) /\ ~OverCap(met[i])
    BY <2>1 DEF LoopInv, OnlyRetryableBehind
  <2>3. met[i].kind \notin {"401", "403", "other", "unexpected"}
    BY <2>2 DEF Retryable, Failures
  <2>4. met[i].retryAfter <= RetryAfterCap
    <3>1. CASE met[i].kind = "429"
      <4>1. met[i].retryAfter \in Int
        <5>1. met[i].retryAfter \in RetryAfters \cup {NoRetryAfter}
          BY <3>1, <2>1 DEF Reply, Failures
        <5>2. NoRetryAfter \in Int BY DEF NoRetryAfter
        <5>3. RetryAfters \subseteq Int BY PolicyAssumption, SMT DEF PolicyAssumption
        <5> QED BY <5>1, <5>2, <5>3, Zenon
      <4>2. ~(met[i].retryAfter > RetryAfterCap) BY <3>1, <2>2 DEF OverCap
      <4>3. RetryAfterCap \in Nat BY PolicyAssumption DEF PolicyAssumption
      <4> QED BY <4>1, <4>2, <4>3
    <3>2. CASE met[i].kind # "429"
      <4>1. met[i].retryAfter = NoRetryAfter BY <3>2, <2>1 DEF Reply
      <4> QED BY <4>1, PolicyAssumption DEF NoRetryAfter, PolicyAssumption
    <3> QED BY <3>1, <3>2
  <2> QED BY <2>3, <2>4
<1> QED BY LoopInvariant, <1>1, PTL

\* For every policy, the sleeps are those the policy and the upstream ask
\* for, between two attempts and at no other time.
THEOREM WaitsAreHonest == Spec => []WaitsAsPromised
<1>1. LoopInv => LengthsAsPromised
  <2> SUFFICES ASSUME LoopInv, NEW i \in 1..Len(waits)
               PROVE  /\ met[i].retryAfter # NoRetryAfter => waits[i] = met[i].retryAfter
                      /\ met[i].retryAfter = NoRetryAfter =>
                            /\ waits[i] <= MaxDelay
                            /\ \A j \in 1..i :
                                  met[j].retryAfter = NoRetryAfter => waits[j] <= waits[i]
    BY DEF LengthsAsPromised
  <2>1. \A j \in 1..i : waits[j] = WaitAfter(met[j], j - 1)
    BY DEF LoopInv, SleptAsAsked
  <2>2. i - 1 \in 0..9
    <3>1. Len(waits) <= attempt + 1 /\ Len(waits) \in Nat
      BY PolicyAssumption DEF LoopInv, Position, TypeOK, PolicyAssumption
    <3> QED BY <3>1, PolicyAssumption DEF LoopInv, TypeOK, PolicyAssumption
  <2>3. met[i].retryAfter # NoRetryAfter => waits[i] = met[i].retryAfter
    BY <2>1 DEF WaitAfter
  <2>4. ASSUME met[i].retryAfter = NoRetryAfter
        PROVE  waits[i] = Backoff(i - 1) /\ waits[i] <= MaxDelay
    <3>1. waits[i] = WaitAfter(met[i], i - 1) BY <2>1
    <3>2. WaitAfter(met[i], i - 1) = Backoff(i - 1) BY <2>4 DEF WaitAfter
    <3> QED BY <3>1, <3>2, <2>2, BackoffBounded
  <2>5. ASSUME met[i].retryAfter = NoRetryAfter, NEW j \in 1..i,
               met[j].retryAfter = NoRetryAfter
        PROVE  waits[j] <= waits[i]
    <3>1. waits[j] = Backoff(j - 1) BY <2>1, <2>5 DEF WaitAfter
    <3>2. j - 1 \in 0..(i - 1) BY <2>2
    <3> QED BY <3>1, <3>2, <2>2, <2>4, <2>5, BackoffGrows
  <2> QED BY <2>3, <2>4, <2>5
<1>2. LoopInv => SleepsOnlyBetweenAttempts
  BY PolicyAssumption
     DEF LoopInv, TypeOK, Position, SleepsOnlyBetweenAttempts, PolicyAssumption
<1>3. LoopInv => WaitsAsPromised BY <1>1, <1>2 DEF WaitsAsPromised
<1> QED BY LoopInvariant, <1>3, PTL

\* For every policy, the call lasts no longer than the policy's budget.
THEOREM BudgetHolds == Spec => []WithinBudget
<1>1. LoopInv => WithinBudget
  <2> SUFFICES ASSUME LoopInv PROVE WithinBudget
    OBVIOUS
  <2>1. /\ attempt \in Nat /\ attempt <= MaxAttempts - 1
        /\ Len(met) \in Nat /\ Len(met) <= MaxAttempts
    BY PolicyAssumption DEF LoopInv, TypeOK, Position, PolicyAssumption
  <2>2. MaxAttempts \in Nat /\ LongestRequest \in Nat /\ LongestWait \in Nat
        /\ MaxAttempts - 1 \in Nat
    BY PolicyAssumption DEF PolicyAssumption, LongestWait
  <2>3. Len(met) * LongestRequest <= MaxAttempts * LongestRequest
    BY <2>1, <2>2
  <2>4. attempt * LongestWait <= (MaxAttempts - 1) * LongestWait
    BY <2>1, <2>2
  <2>5. elapsed \in Nat /\ elapsed <= Len(met) * LongestRequest + attempt * LongestWait
    BY DEF LoopInv, TypeOK, TimeGone
  <2> QED BY <2>1, <2>2, <2>3, <2>4, <2>5 DEF WithinBudget
<1> QED BY LoopInvariant, <1>1, PTL

\* For every policy, what request() ends with can be relied on.
THEOREM EndsHonestly == Spec => []EndIsHonest
<1>1. NothingAfterAFinalAnswer /\ ExhaustionNamesLastFailure => EndIsHonest
  BY DEF EndIsHonest
<1> QED BY FinalAnswersAreFinal, ExhaustionIsHonest, <1>1, PTL

\* For every policy and upstream, every sleep and the whole call are as short as
\* promised.
THEOREM WaitsKept == Spec => []WaitsAreKept
<1>1. WaitsAsPromised /\ WithinBudget => WaitsAreKept BY DEF WaitsAreKept
<1> QED BY WaitsAreHonest, BudgetHolds, <1>1, PTL

=============================================================================
