--------------------------- MODULE TriggerRelation --------------------------
(***************************************************************************)
(* What steering promises, without its two maps and its reports: one       *)
(* relation between the files in the editor and the workflows they hold    *)
(* active.  Touching a file makes it hold exactly the workflows it matches *)
(* that could be presented; one that could not is let go by every file; a  *)
(* file that goes away lets go of everything.                              *)
(***************************************************************************)
CONSTANTS Files, Names

VARIABLES
    rules,  \* the files each registered workflow is for
    held    \* the pairs <<file, workflow>> now in force

Without(f, failing) ==
    {p \in held : p[1] # f /\ p[2] \notin failing}
For(f) == {w \in DOMAIN rules : f \in rules[w]}

Init == rules = <<>> /\ held = {}

\* The workflows are read once, before any event.
Load ==
    /\ rules = <<>> /\ held = {} /\ held' = {}
    /\ \E S \in SUBSET Names : rules' \in [S -> SUBSET Files]

Touch(f, failing) ==
    /\ failing \subseteq For(f)
    /\ held' = Without(f, failing) \cup ({f} \X (For(f) \ failing))
    /\ UNCHANGED rules

Leave(f) == held' = Without(f, {}) /\ UNCHANGED rules

Move(f, g, failing) ==
    /\ failing \subseteq For(g)
    /\ held' = {p \in Without(g, failing) : p[1] # f} \cup ({g} \X (For(g) \ failing))
    /\ UNCHANGED rules

Next ==
    \/ Load
    \/ \E f \in Files, failing \in SUBSET Names :
          \/ Touch(f, failing)
          \/ Leave(f)
          \/ \E g \in Files : Move(f, g, failing)

Spec == Init /\ [][Next]_<<rules, held>>

=============================================================================
