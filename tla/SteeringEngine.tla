--------------------------- MODULE SteeringEngine ---------------------------
(***************************************************************************)
(* The steering engine of the Hub (kiro_geospatial/steering.py): workflows *)
(* are read from a directory once, then every editor event (a file opened  *)
(* or edited, renamed, closed) runs to its end before the next, changes    *)
(* which files hold which workflows active, and returns an update.  The    *)
(* engine keeps the relation twice, by workflow (_active) and by file      *)
(* (_file_triggers).  Patterns are given by the files they match; the      *)
(* presenter (external) may fail for any workflow at any event.            *)
(***************************************************************************)
EXTENDS Naturals, Sequences

CONSTANTS
    Files,        \* normalized paths
    Names,        \* workflow names
    Directories   \* what steering/ may hold: sequences of entries

\* An entry of the directory: whether it is a *.md file, the name in its front
\* matter, the files its patterns match and whether it has any pattern.
Entries == [md : BOOLEAN, name : Names, patterns : BOOLEAN, files : SUBSET Files]

ASSUME SteeringAssumption == Directories \subseteq Seq(Entries)

VARIABLES
    phase,      \* "loading", "ready", or "failed" (loading raised)
    workflows,  \* _workflows: the files each registered workflow matches
    active,     \* _active: the files that hold each workflow active
    triggers,   \* _file_triggers: the workflows each file holds active
    update,     \* the last SteeringUpdate
    inEditor    \* history: the files opened and neither closed nor renamed

steeringVars == <<phase, workflows, active, triggers, update, inEditor>>

\* What an event starts from: the two maps and the lists of its update.  A missing
\* key and an empty set are told apart nowhere in the engine.
Before == [active |-> active, triggers |-> triggers, activated |-> {}, deactivated |-> {}]

\* Mistakes; each makes one of the properties below fail.
DropHere(m, failing) ==
    [m EXCEPT !.active = [w \in Names |-> IF w \in failing THEN {} ELSE m.active[w]],
              !.deactivated = @ \cup failing]
NotDropped(m, failing) == [m EXCEPT !.deactivated = @ \cup failing]
WithdrawQuietly(m, f) ==
    [m EXCEPT !.active = [w \in Names |-> m.active[w] \ {f}], !.triggers[f] = {}]

-----------------------------------------------------------------------------

\* SteeringWorkflow.matches, for every workflow
Matching(f) == {w \in DOMAIN workflows : f \in workflows[w]}

\* _drop_workflow and the report of _activate, for the workflows that could not
\* be presented
Drop(m, failing) ==
    [m EXCEPT !.active = [w \in Names |-> IF w \in failing THEN {} ELSE m.active[w]],
              !.triggers = [f \in Files |-> m.triggers[f] \ failing],
              !.deactivated = @ \cup failing]

\* _withdraw_trigger for every workflow the file holds; the file is forgotten.
Withdraw(m, f) ==
    LET held == m.triggers[f]
    IN  [m EXCEPT !.active = [w \in Names |-> IF w \in held THEN m.active[w] \ {f}
                                              ELSE m.active[w]],
                  !.triggers[f] = {},
                  !.deactivated = @ \cup {w \in held : m.active[w] = {f}}]

\* open_or_edit with the presenter failing for those workflows.  A workflow the
\* file holds still matches it, so there is nothing else to withdraw.
Open(m, f, failing) ==
    LET confirmed == Matching(f) \ failing
        dropped == Drop(m, failing)
    IN  [dropped EXCEPT
            !.active = [w \in Names |-> IF w \in confirmed THEN @[w] \cup {f} ELSE @[w]],
            !.triggers[f] = confirmed,
            !.activated = {<<w, m.active[w] = {}>> : w \in confirmed}]

\* The event is over: the maps are in place and the update is returned.
Finish(m) ==
    /\ active' = m.active /\ triggers' = m.triggers
    /\ update' = [activated |-> m.activated, deactivated |-> m.deactivated,
                  active |-> {w \in Names : m.active[w] # {}}]
    /\ UNCHANGED <<phase, workflows>>

-----------------------------------------------------------------------------

SteeringInit ==
    /\ phase = "loading" /\ workflows = <<>>
    /\ active = [w \in Names |-> {}] /\ triggers = [f \in Files |-> {}]
    /\ update = [activated |-> {}, deactivated |-> {}, active |-> {}]
    /\ inEditor = {}

\* load_workflows_from_directory and the constructor: a steering file without a
\* pattern does not validate and two of one name are refused, either of which
\* leaves no engine; other files are passed over.
Load(directory) ==
    LET guides == {i \in DOMAIN directory : directory[i].md}
        Name(i) == directory[i].name
    IN  /\ phase = "loading"
        /\ \/ /\ \/ \E i \in guides : ~directory[i].patterns
                 \/ \E i, j \in guides : i # j /\ Name(i) = Name(j)
              /\ phase' = "failed" /\ UNCHANGED workflows
           \/ /\ \A i \in guides : directory[i].patterns
              /\ \A i, j \in guides : Name(i) = Name(j) => i = j
              /\ phase' = "ready"
              /\ workflows' = [w \in {Name(i) : i \in guides} |->
                                 directory[CHOOSE i \in guides : Name(i) = w].files]
        /\ UNCHANGED <<active, triggers, update, inEditor>>

OpenOrEdit(f, failing) ==
    /\ phase = "ready" /\ failing \subseteq Matching(f)
    /\ Finish(Open(Before, f, failing))
    /\ inEditor' = inEditor \cup {f}

Rename(old, new, failing) ==
    /\ phase = "ready" /\ failing \subseteq Matching(new)
    /\ Finish(Open(Withdraw(Before, old), new, failing))
    /\ inEditor' = (inEditor \ {old}) \cup {new}

Close(f) ==
    /\ phase = "ready"
    /\ Finish(Withdraw(Before, f))
    /\ inEditor' = inEditor \ {f}

\* No engine was built.
Failed == phase = "failed" /\ UNCHANGED steeringVars

SteeringNext ==
    \/ \E directory \in Directories : Load(directory)
    \/ \E f \in Files :
          \/ \E failing \in SUBSET Names : OpenOrEdit(f, failing)
          \/ \E new \in Files, failing \in SUBSET Names : Rename(f, new, failing)
          \/ Close(f)
    \/ Failed

SteeringSpec == SteeringInit /\ [][SteeringNext]_steeringVars

-----------------------------------------------------------------------------

\* Types.
SteeringTypeOK ==
    /\ phase \in {"loading", "ready", "failed"}
    /\ DOMAIN workflows \subseteq Names
    /\ \A w \in DOMAIN workflows : workflows[w] \subseteq Files
    /\ active \in [Names -> SUBSET Files]
    /\ triggers \in [Files -> SUBSET Names]
    /\ update.activated \subseteq Names \X BOOLEAN
    /\ update.deactivated \subseteq Names /\ update.active \subseteq Names
    /\ inEditor \subseteq Files

\* The two maps the engine keeps say the same: a file that holds a workflow by
\* one holds it by the other.  A trigger left in only one of them keeps a
\* workflow active for ever, or makes it active with nothing to withdraw.
Mirrored == \A w \in Names, f \in Files : f \in active[w] <=> w \in triggers[f]

\* A workflow is held active only by files that are in the editor and match it.
HeldByOpenFiles ==
    \A w \in Names : \A f \in active[w] : f \in inEditor /\ w \in Matching(f)

\* An editor that follows nothing but the reports, the deactivations first,
\* knows which workflows are active, and a presentation called new is of a
\* workflow that was not active or had just been deactivated.
ReportsSuffice ==
    [][LET Was == {w \in Names : active[w] # {}}
           Is == {w \in Names : active'[w] # {}}
           Begun == {p[1] : p \in update'.activated}
       IN  phase = "ready" =>
             /\ Is = (Was \ update'.deactivated) \cup Begun
             /\ \A p \in update'.activated :
                   p[2] <=> p[1] \notin Was \ update'.deactivated]_steeringVars

\* The engine keeps the relation TriggerRelation promises.
Relation == INSTANCE TriggerRelation WITH
    rules <- workflows,
    held <- {p \in Files \X Names : p[2] \in triggers[p[1]]}
ImplementsTriggers == Relation!Spec

=============================================================================
