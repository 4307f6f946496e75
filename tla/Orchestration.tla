---------------------------- MODULE Orchestration ---------------------------
(***************************************************************************)
(* One request through the Orchestration Router of the Power Hub           *)
(* (kiro_geospatial/orchestration.py): plan() picks the capabilities the   *)
(* request mentions and orders them by pillar, execute() runs the plan     *)
(* step by step.  A discover step asks all its sources concurrently, a     *)
(* process or analyze step asks one source after the other until one       *)
(* answers.  The router keeps nothing between requests.                    *)
(*                                                                         *)
(* A list of steps that is sorted by pillar, ties broken by registration,  *)
(* is a set with an order, so a plan is the set of its capabilities.       *)
(***************************************************************************)
EXTENDS Naturals, Sequences, FiniteSets

CONSTANTS
    Capabilities,  \* the registered vocabulary
    KindOf,        \* pillar of each capability
    Position,      \* registration order of each capability
    Sources,       \* MCP servers
    Candidates     \* per capability the sources the resolver returns, in order

KindOrder == [discover |-> 0, process |-> 1, analyze |-> 2]

\* Resolvers return every provider once.
ASSUME RouterAssumption ==
    /\ KindOf \in [Capabilities -> DOMAIN KindOrder]
    /\ Position \in [Capabilities -> Nat]
    /\ \A c, d \in Capabilities : Position[c] = Position[d] => c = d
    /\ Candidates \in [Capabilities -> Seq(Sources)]
    /\ \A c \in Capabilities : \A i, j \in DOMAIN Candidates[c] :
          Candidates[c][i] = Candidates[c][j] => i = j

VARIABLES
    phase,       \* "asked", "between" steps, "invoking", or how the request ended
    plan,        \* capabilities of the plan's steps
    step,        \* the step being invoked, or NoStep
    outcomes,    \* the local outcomes of the step: per source, or Untried
    provenance,  \* step_provenances: per concluded step its used and failed sources
    analysis,    \* where the analysis comes from: <<step, source>>, or NoAnalysis
    reply,       \* what execute returned or raised
    fate         \* history: what became of each invocation of each step

vars == <<phase, plan, step, outcomes, provenance, analysis, reply, fate>>

NoStep == "no step"
NoAnalysis == <<>>
Untried == "untried"
Running == "running"
Categories == {"network", "upstream", "other"}  \* "other": any GeoError of a source
Ended == {"ok"} \cup Categories
Concluded == DOMAIN provenance
SourcesOf(c) == {Candidates[c][i] : i \in DOMAIN Candidates[c]}

\* Mistakes; each makes one of the properties below fail.
OnlySourcesInTime(outs) == {s \in Sources : outs[s] \in Categories \ {"network"}}
NeverFails(outs) == FALSE
SomeNetwork(outs) == \E s \in Sources : outs[s] = "network"
TakesTheFirst(c, old) == KindOf[c] = "analyze" /\ old = NoAnalysis

\* The order of steps: by pillar, then by registration.
Before(c, d) ==
    \/ KindOrder[KindOf[c]] < KindOrder[KindOf[d]]
    \/ KindOf[c] = KindOf[d] /\ Position[c] < Position[d]

Used(outs) == {s \in Sources : outs[s] = "ok"}
Failed(outs) == {s \in Sources : outs[s] \in Categories}

\* `not sources_used`: the step failed.
StepFailed(outs) == Used(outs) = {}

\* _step_failed_error is NETWORK only if every failure was.
AllNetwork(outs) == \A s \in Failed(outs) : outs[s] = "network"

\* The analysis is the first success of the latest analyze step.
TakesAnalysis(c, old) == KindOf[c] = "analyze"

-----------------------------------------------------------------------------

Init ==
    /\ phase = "asked"
    /\ plan = {}
    /\ step = NoStep
    /\ outcomes = [s \in Sources |-> Untried]
    /\ provenance = [c \in {} |-> NoStep]
    /\ analysis = NoAnalysis
    /\ reply = "none"
    /\ fate = [c \in Capabilities |-> [s \in Sources |-> Untried]]

\* plan(): the request may mention any capabilities; one nobody provides
\* yields no step.
Plan ==
    /\ phase = "asked"
    /\ phase' = "between"
    /\ \E mentioned \in SUBSET Capabilities :
          plan' = {c \in mentioned : Candidates[c] # <<>>}
    /\ UNCHANGED <<step, outcomes, provenance, analysis, reply, fate>>

Invoke(c, S) ==
    /\ outcomes' = [s \in Sources |-> IF s \in S THEN Running ELSE Untried]
    /\ fate' = [fate EXCEPT ![c] = [s \in Sources |-> IF s \in S THEN Running ELSE @[s]]]

\* A mistake: the steps run in any order.
BeginAnyStep(c) ==
    /\ phase = "between" /\ c \in plan \ Concluded
    /\ phase' = "invoking"
    /\ step' = c
    /\ Invoke(c, IF KindOf[c] = "discover" THEN SourcesOf(c) ELSE {Candidates[c][1]})
    /\ UNCHANGED <<plan, provenance, analysis, reply>>

\* The loop takes the next step and _invoke_step starts: gather over all
\* candidates, or the first candidate.
BeginStep(c) ==
    /\ phase = "between" /\ c \in plan \ Concluded
    /\ \A d \in plan \ Concluded : d = c \/ Before(c, d)
    /\ phase' = "invoking"
    /\ step' = c
    /\ Invoke(c, IF KindOf[c] = "discover" THEN SourcesOf(c) ELSE {Candidates[c][1]})
    /\ UNCHANGED <<plan, provenance, analysis, reply>>

\* _invoke_source returns: the source answered, raised a GeoError or anything
\* else, or the 30 s were over.  A fallback step goes on to the next candidate.
Conclude(c, s, how) ==
    /\ outcomes[s] = Running
    /\ LET next == {Candidates[c][i + 1] : i \in
                      {j \in DOMAIN Candidates[c] : Candidates[c][j] = s /\ j < Len(Candidates[c])}}
           more == IF KindOf[c] # "discover" /\ how # "ok" THEN next ELSE {}
           after(old) == [t \in Sources |->
                            IF t = s THEN how ELSE IF t \in more THEN Running ELSE old[t]]
       IN  /\ outcomes' = after(outcomes)
           /\ fate' = [fate EXCEPT ![c] = after(fate[c])]

SourceEnds(s) ==
    /\ phase = "invoking"
    /\ \E how \in Ended : Conclude(step, s, how)
    /\ UNCHANGED <<phase, plan, step, provenance, analysis, reply>>

\* _invoke_step has returned: record the step's provenance, then raise if no
\* source contributed, else take the analysis of an analyze step and go on.
ConcludeStep ==
    /\ phase = "invoking" /\ \A s \in Sources : outcomes[s] # Running
    /\ provenance' = [c \in Concluded \cup {step} |->
          IF c = step THEN [used |-> Used(outcomes), failed |-> Failed(outcomes)]
          ELSE provenance[c]]
    /\ outcomes' = [s \in Sources |-> Untried]
    /\ step' = NoStep
    /\ \/ /\ StepFailed(outcomes)
          /\ phase' = "raised"
          /\ reply' = IF AllNetwork(outcomes) THEN "network" ELSE "upstream"
          /\ UNCHANGED analysis
       \/ /\ ~StepFailed(outcomes)
          /\ phase' = "between"
          /\ IF TakesAnalysis(step, analysis)
             THEN \E s \in Used(outcomes) : analysis' = <<step, s>>
             ELSE UNCHANGED analysis
          /\ UNCHANGED reply
    /\ UNCHANGED <<plan, fate>>

\* The loop is over: OrchestrationResult with its partial label.
Return ==
    /\ phase = "between" /\ plan \subseteq Concluded
    /\ phase' = "returned"
    /\ reply' = IF \E c \in Concluded : provenance[c].failed # {} THEN "partial" ELSE "complete"
    /\ UNCHANGED <<plan, step, outcomes, provenance, analysis, fate>>

\* The caller cancels the request; gather cancels what is running.
Cancel ==
    /\ phase = "invoking"
    /\ phase' = "cancelled"
    /\ outcomes' = [s \in Sources |-> Untried]
    /\ step' = NoStep
    /\ UNCHANGED <<plan, provenance, analysis, reply, fate>>

Done == phase \in {"returned", "raised", "cancelled"} /\ UNCHANGED vars

Next ==
    \/ Plan
    \/ \E c \in Capabilities : BeginStep(c)
    \/ \E s \in Sources : SourceEnds(s)
    \/ ConcludeStep
    \/ Return
    \/ Cancel
    \/ Done

\* wait_for ends every invocation within 30 s and the loop does not stop
\* between them.
Spec ==
    /\ Init /\ [][Next]_vars
    /\ WF_vars(Plan \/ ConcludeStep \/ Return \/ \E c \in Capabilities : BeginStep(c))
    /\ \A s \in Sources : WF_vars(SourceEnds(s))

-----------------------------------------------------------------------------

\* Types of the loop's locals and of the history.
TypeOK ==
    /\ phase \in {"asked", "between", "invoking", "returned", "raised", "cancelled"}
    /\ plan \subseteq Capabilities
    /\ step \in Capabilities \cup {NoStep}
    /\ outcomes \in [Sources -> Ended \cup {Untried, Running}]
    /\ Concluded \subseteq Capabilities
    /\ \A c \in Concluded : provenance[c] \in [used : SUBSET Sources, failed : SUBSET Sources]
    /\ analysis \in (Capabilities \X Sources) \cup {NoAnalysis}
    /\ reply \in {"none", "partial", "complete", "network", "upstream"}
    /\ fate \in [Capabilities -> [Sources -> Ended \cup {Untried, Running}]]

\* Provenance tells the truth about every source: whatever order the sources
\* answer in, a concluded step names exactly the sources that contributed and
\* those that failed; a discover step leaves no candidate out, and a fallback
\* step tried a prefix of its candidates and used at most the last one tried.
ProvenanceIsComplete ==
    \A c \in Concluded :
        /\ provenance[c].used = {s \in Sources : fate[c][s] = "ok"}
        /\ provenance[c].failed = {s \in Sources : fate[c][s] \in Categories}
        /\ KindOf[c] = "discover" =>
              provenance[c].used \cup provenance[c].failed = SourcesOf(c)
        /\ KindOf[c] # "discover" =>
              \A i, j \in DOMAIN Candidates[c] :
                  i < j /\ fate[c][Candidates[c][j]] # Untried
                     => fate[c][Candidates[c][i]] \in Categories

\* The pillars are barriers: no source of a process step is asked before every
\* discover step of the plan is over and contributed something, and none of an
\* analyze step before the same holds of every process step.
PillarsAreBarriers ==
    \A c, d \in plan :
        KindOrder[KindOf[c]] < KindOrder[KindOf[d]]
        /\ (\E s \in Sources : fate[d][s] # Untried) =>
              c \in Concluded /\ \E s \in Sources : fate[c][s] = "ok"

\* The answer's label and the error tell what happened: "complete" means no
\* source of any step failed, "partial" that some did though every step got an
\* answer, and an error that some step asked all its sources in vain, NETWORK
\* exactly if none of them failed for another reason.
LabelIsHonest ==
    /\ reply \in {"complete", "partial"} =>
          /\ \A c \in plan : \E s \in Sources : fate[c][s] = "ok"
          /\ reply = "partial" <=>
                \E c \in plan : \E s \in Sources : fate[c][s] \in Categories
    /\ reply \in {"network", "upstream"} =>
          \E c \in plan :
              /\ \A s \in SourcesOf(c) : fate[c][s] \in Categories
              /\ reply = "network" <=> \A s \in SourcesOf(c) : fate[c][s] = "network"

\* The analysis that is returned is a contribution to the last analyze step of
\* the plan.
AnalysisIsTheLast ==
    phase = "returned" =>
        /\ analysis = NoAnalysis <=> \A c \in plan : KindOf[c] # "analyze"
        /\ analysis # NoAnalysis =>
              /\ fate[analysis[1]][analysis[2]] = "ok"
              /\ \A c \in plan : KindOf[c] = "analyze" => ~Before(analysis[1], c)

\* What execute() returns or raises can be relied on, whatever order sources answer
\* and fail in: its provenance, its label or error, and where its analysis is from.
AnswerIsHonest == ProvenanceIsComplete /\ LabelIsHonest /\ AnalysisIsTheLast

\* A request is always answered, however many sources never respond.
RequestEnds == <>(phase \in {"returned", "raised", "cancelled"})

\* Seen without the sources, a request is a PlanRun: steps conclude one at a
\* time in the order of the plan, and the first that fails ends it.
Contract == INSTANCE PlanRun WITH
    Steps <- Capabilities,
    Precedes <- [cd \in Capabilities \X Capabilities |-> Before(cd[1], cd[2])],
    todo <- plan \ Concluded,
    done <- Concluded,
    state <- IF phase \in {"asked", "returned", "raised", "cancelled"} THEN phase ELSE "running"

ImplementsPlanRun == Contract!Spec

=============================================================================
