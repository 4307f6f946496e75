------------------------------- MODULE PlanRun ------------------------------
(***************************************************************************)
(* What running a plan promises, without sources and invocations: the      *)
(* steps of the plan conclude one at a time, each only when no step before *)
(* it is left, and the run ends when none is left, when the step just      *)
(* concluded failed, or when it is cancelled.                              *)
(***************************************************************************)
CONSTANTS
    Steps,
    Precedes   \* Precedes[<<a, b>>]: step a goes before step b

VARIABLES
    todo,   \* steps of the plan that have not concluded
    done,   \* steps that have
    state   \* "asked", "running", or how the run ended

Init == todo = {} /\ done = {} /\ state = "asked"

Plan ==
    /\ state = "asked"
    /\ state' = "running"
    /\ todo' \in SUBSET Steps
    /\ UNCHANGED done

\* The first step left concludes; the run goes on, or ends because it failed.
Conclude(c) ==
    /\ state = "running" /\ c \in todo
    /\ \A d \in todo : d = c \/ Precedes[<<c, d>>]
    /\ todo' = todo \ {c}
    /\ done' = done \cup {c}
    /\ state' \in {"running", "raised"}

Return ==
    /\ state = "running" /\ todo = {}
    /\ state' = "returned"
    /\ UNCHANGED <<todo, done>>

Cancel ==
    /\ state = "running" /\ todo # {}
    /\ state' = "cancelled"
    /\ UNCHANGED <<todo, done>>

Next == Plan \/ Return \/ Cancel \/ \E c \in Steps : Conclude(c)

Spec == Init /\ [][Next]_<<todo, done, state>>

=============================================================================
