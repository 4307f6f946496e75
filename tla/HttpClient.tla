----------------------------- MODULE HttpClient -----------------------------
(***************************************************************************)
(* One call of HttpClient.request (geo_common/http.py) under a RetryPolicy *)
(* (geo_common/retry.py): the attempt loop, the exponential backoff, the   *)
(* Retry-After handling of HTTP 429 and the classification of what the     *)
(* call raises.  A HttpClient keeps no state between calls, so concurrent  *)
(* calls on one client do not interact and one call is the whole story.    *)
(*                                                                         *)
(* The upstream is external and may answer anything.  Times are whole      *)
(* seconds: the policy's floats are only multiplied, added and compared.   *)
(***************************************************************************)
EXTENDS Integers, Sequences

CONSTANTS
    MaxAttempts,       \* RetryPolicy.max_attempts
    InitialDelay,      \* RetryPolicy.initial_delay_s
    Multiplier,        \* RetryPolicy.multiplier
    MaxDelay,          \* RetryPolicy.max_delay_s
    LongestRequest,    \* bound: seconds until httpx is done with one request
    RetryAfterCap,     \* RetryPolicy.retry_after_cap_s
    RetryAfters,       \* the Retry-After durations an upstream may name
    Latencies          \* how long an attempt may take

\* The field constraints of RetryPolicy, and an httpx that ends every request.
\* It applies request_timeout_s to the connect, to each write and to each read
\* separately, so a request may take longer than that.
ASSUME PolicyAssumption ==
    /\ MaxAttempts \in 1..10
    /\ InitialDelay \in Nat \ {0}
    /\ Multiplier \in Nat \ {0}
    /\ MaxDelay \in Nat \ {0}
    /\ LongestRequest \in Nat
    /\ RetryAfterCap \in Nat \ {0}
    /\ RetryAfters \subseteq Nat
    /\ Latencies \subseteq 0..LongestRequest

VARIABLES
    attempt,    \* the loop variable: attempts already concluded
    phase,      \* where the coroutine is suspended, or how it ended
    category,   \* last_category
    outcome,    \* what the caller got: "response", an error category, or NoOutcome
    met,        \* history: how each concluded attempt ended
    waits,      \* history: the sleep taken after each attempt
    elapsed     \* history: seconds since the call

vars == <<attempt, phase, category, outcome, met, waits, elapsed>>

NoOutcome == "none"
NoRetryAfter == -1

(***************************************************************************)
(* What an attempt can end in.  "timeout" is httpx.TimeoutException,       *)
(* "transport" any other httpx.TransportError, "5xx" a status in 500..599  *)
(* and "other" every status the client hands back.  "unexpected" is any    *)
(* exception of httpx that is neither, such as a body it cannot decode.    *)
(***************************************************************************)
Failures == {"timeout", "transport", "5xx"}

Reply ==
    [kind : Failures \cup {"401", "403", "other", "unexpected"}, retryAfter : {NoRetryAfter}]
        \cup [kind : {"429"}, retryAfter : RetryAfters \cup {NoRetryAfter}]

Smaller(a, b) == IF a <= b THEN a ELSE b

\* multiplier**n.  A policy has at most ten attempts, so no exponent is over 9.
MultiplierToThe[n \in 0..9] == IF n = 0 THEN 1 ELSE Multiplier * MultiplierToThe[n - 1]

\* Mistakes this loop invites; each makes one of the properties below fail.
UncappedBackoff(n) == InitialDelay * MultiplierToThe[n]
RetryAlsoForbidden(r) == r.kind \in Failures \cup {"429", "403"}
WithoutCap(r) == FALSE

\* backoff_schedule(policy)[n]: the wait between attempt n and attempt n + 1.
Backoff(n) == Smaller(InitialDelay * MultiplierToThe[n], MaxDelay)

\* _can_retry: another attempt remains after the 0-based attempt n.
CanRetry(n) == n < MaxAttempts - 1

\* A 429 whose Retry-After exceeds the cap ends the call at once.
OverCap(r) == r.kind = "429" /\ r.retryAfter > RetryAfterCap

\* The attempt leaves the loop running: `continue`.
Retryable(r) == r.kind \in Failures \cup {"429"}

\* last_category as the branch that saw the failure sets it.
CategoryOf(r) == IF r.kind \in {"timeout", "transport"} THEN "network" ELSE "upstream"

\* The sleep before the next attempt: an exact Retry-After, else the schedule.
WaitAfter(r, n) == IF r.retryAfter # NoRetryAfter THEN r.retryAfter ELSE Backoff(n)

-----------------------------------------------------------------------------

Init ==
    /\ attempt = 0
    /\ phase = "sending"
    /\ category = "network"
    /\ outcome = NoOutcome
    /\ met = << >>
    /\ waits = << >>
    /\ elapsed = 0

\* The attempt is over: r ended it after d seconds.
Met(r, d) ==
    /\ phase = "sending"
    /\ met' = Append(met, r)
    /\ elapsed' = elapsed + d

End(how) ==
    /\ phase' = "ended"
    /\ outcome' = how
    /\ UNCHANGED <<attempt, waits>>

\* A transient failure with an attempt left: record its category and sleep.
RetryLater(r, d) ==
    /\ Met(r, d)
    /\ Retryable(r) /\ ~OverCap(r)
    /\ CanRetry(attempt)
    /\ category' = CategoryOf(r)
    /\ waits' = Append(waits, WaitAfter(r, attempt))
    /\ phase' = "sleeping"
    /\ UNCHANGED <<attempt, outcome>>

\* A mistake: the category is the one that the attempt before left.
ExhaustAsBefore(r, d) ==
    /\ Met(r, d)
    /\ Retryable(r) /\ ~OverCap(r)
    /\ ~CanRetry(attempt)
    /\ End(category)
    /\ UNCHANGED category

\* A transient failure of the last attempt: the loop ends without a sleep and
\* the call raises UpstreamError or NetworkError by the last category.
Exhaust(r, d) ==
    /\ Met(r, d)
    /\ Retryable(r) /\ ~OverCap(r)
    /\ ~CanRetry(attempt)
    /\ category' = CategoryOf(r)
    /\ End(CategoryOf(r))

\* RateLimitError, on any attempt, without waiting.
RefuseRetryAfter(r, d) ==
    /\ Met(r, d)
    /\ Retryable(r) /\ OverCap(r)
    /\ End("rate-limit")
    /\ UNCHANGED category

\* 401 and 403 raise, as does what httpx raised unexpectedly; every other
\* status is the caller's.
Answer(r, d) ==
    /\ Met(r, d)
    /\ ~Retryable(r)
    /\ End(IF r.kind = "401" THEN "authentication"
           ELSE IF r.kind = "403" THEN "authorization"
           ELSE IF r.kind = "unexpected" THEN "unexpected"
           ELSE "response")
    /\ UNCHANGED category

Attempt ==
    \E r \in Reply, d \in Latencies :
        RetryLater(r, d) \/ Exhaust(r, d) \/ RefuseRetryAfter(r, d) \/ Answer(r, d)

\* A mistake: the sleeper before the last attempt is never woken.
WakeUpOffByOne ==
    /\ phase = "sleeping"
    /\ CanRetry(attempt + 1)
    /\ phase' = "sending"
    /\ attempt' = attempt + 1
    /\ elapsed' = elapsed + waits[Len(waits)]
    /\ UNCHANGED <<category, outcome, met, waits>>

\* The sleep is over and the loop goes on to the next attempt.
WakeUp ==
    /\ phase = "sleeping"
    /\ phase' = "sending"
    /\ attempt' = attempt + 1
    /\ elapsed' = elapsed + waits[Len(waits)]
    /\ UNCHANGED <<category, outcome, met, waits>>

\* The caller's own deadline (asyncio.wait_for around a tool) cancels the
\* coroutine where it is suspended.
Cancel ==
    /\ phase \in {"sending", "sleeping"}
    /\ phase' = "cancelled"
    /\ UNCHANGED <<attempt, category, outcome, met, waits, elapsed>>

Done == phase \in {"ended", "cancelled"} /\ UNCHANGED vars

Next == Attempt \/ WakeUp \/ Cancel \/ Done

\* httpx concludes every attempt and the event loop wakes every sleeper, so the
\* two steps of the call itself are weakly fair; nobody has to cancel it.
Spec == Init /\ [][Next]_vars /\ WF_vars(Attempt) /\ WF_vars(WakeUp)

-----------------------------------------------------------------------------

Categories == {"network", "upstream"}

\* Types of the call's locals and of the history kept about it.
TypeOK ==
    /\ attempt \in 0..(MaxAttempts - 1)
    /\ phase \in {"sending", "sleeping", "ended", "cancelled"}
    /\ category \in Categories
    /\ outcome \in {NoOutcome, "response", "rate-limit", "authentication",
                    "authorization", "unexpected"} \cup Categories
    /\ met \in Seq(Reply)
    /\ waits \in Seq(Nat)
    /\ elapsed \in Nat

\* request() gives up with NETWORK or UPSTREAM only after every one of the
\* max_attempts attempts failed transiently, and the category it names is that
\* of the last attempt, whatever the earlier ones met.
ExhaustionNamesLastFailure ==
    outcome \in Categories =>
        /\ Len(met) = MaxAttempts
        /\ \A i \in 1..Len(met) :
              met[i].kind \in {"timeout", "transport", "5xx", "429"}
        /\ outcome = "network" <=> met[Len(met)].kind \in {"timeout", "transport"}

\* An attempt that ends in a final answer is the last one: once the upstream
\* has said 2xx, 4xx or a Retry-After over the cap, request() sends nothing
\* more, so the only requests ever sent again are those whose fate is open or
\* that the upstream turned away.
NothingAfterAFinalAnswer ==
    \A i \in 1..Len(met) - 1 :
        /\ met[i].kind \notin {"401", "403", "other", "unexpected"}
        /\ met[i].retryAfter <= RetryAfterCap

\* The length of each sleep: a Retry-After within the cap is slept exactly,
\* every other wait stays within max_delay_s, and the waits the client chooses
\* itself never shrink from one attempt to a later one.
LengthsAsPromised ==
    \A i \in 1..Len(waits) :
        /\ met[i].retryAfter # NoRetryAfter => waits[i] = met[i].retryAfter
        /\ met[i].retryAfter = NoRetryAfter =>
              /\ waits[i] <= MaxDelay
              /\ \A j \in 1..i :
                    met[j].retryAfter = NoRetryAfter => waits[j] <= waits[i]

\* The call sleeps once between two attempts and never after its last one.
SleepsOnlyBetweenAttempts ==
    /\ phase = "sleeping" => Len(waits) = Len(met) /\ Len(met) < MaxAttempts
    /\ phase = "ended" => Len(waits) = Len(met) - 1

\* The sleeps are the promised ones: no sleep is wasted, and each lasts as long
\* as the policy or the upstream says.
WaitsAsPromised == LengthsAsPromised /\ SleepsOnlyBetweenAttempts

\* The longest sleep the policy allows.
LongestWait == IF MaxDelay >= RetryAfterCap THEN MaxDelay ELSE RetryAfterCap

\* request() ends within a budget the policy fixes, whatever the upstream
\* answers and however long it asks the client to wait.
WithinBudget ==
    elapsed <= MaxAttempts * LongestRequest + (MaxAttempts - 1) * LongestWait

\* However attempts fail, in any order and number, the end of request() can be relied
\* on: nothing follows a final answer, and giving up is the last resort and tells of
\* the last failure, not of an earlier one.
EndIsHonest == NothingAfterAFinalAnswer /\ ExhaustionNamesLastFailure

\* Nobody is kept waiting: each sleep of request() is the one promised, and all of them
\* with all attempts stay within the budget, whatever waits the upstream asks for.
WaitsAreKept == WaitsAsPromised /\ WithinBudget

\* Every call ends: it returns, raises or is cancelled by its caller.
Terminates == <>(phase \in {"ended", "cancelled"})

=============================================================================
