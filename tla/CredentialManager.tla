-------------------------- MODULE CredentialManager -------------------------
(***************************************************************************)
(* The Power Hub Credential Manager (kiro_geospatial/credentials.py): what *)
(* it knows of each source's credential, the live report that validates    *)
(* sources concurrently, the status report the dashboard reads and the     *)
(* guard in front of an invocation.  The surface of credentials and the    *)
(* validators that ask a source about a secret are external.               *)
(*                                                                         *)
(* A validation suspends while it asks its source, and then writes the     *)
(* record it holds, whatever became of the credential or of the record in  *)
(* between.  A coroutine is ended after ten seconds.  A validator that is  *)
(* a plain callable runs on the event loop itself: nothing else does until *)
(* it returns, not even the timeout that should end it; what it returns    *)
(* may be a coroutine again.  Everything else is synchronous.              *)
(***************************************************************************)
EXTENDS Naturals

CONSTANTS
    Sources,     \* the managed sources
    Required,    \* those classified Required
    Checked,     \* those with a registered validator
    Plain,       \* those whose validator is a plain callable and may keep the loop
    Unreadable,  \* those whose surface entry may fail to be read
    Secrets,     \* non-blank values a credential may have
    Accepted,    \* the secrets the sources accept
    Callers,     \* coroutines that call report()
    MaxChanges   \* bound: how often the surface changes

ASSUME CredentialsAssumption ==
    /\ Required \subseteq Sources
    /\ Checked \subseteq Sources
    /\ Plain \subseteq Checked
    /\ Unreadable \subseteq Sources
    /\ Accepted \subseteq Secrets
    /\ "absent" \notin Secrets
    /\ MaxChanges \in Nat

VARIABLES
    surface,    \* the mcp.json value of each source's key, or Absent
    changes,    \* changes of the surface so far
    present,    \* CredentialRecord.present
    status,     \* CredentialRecord.status
    asking,     \* per caller of report(): where it is
    task,       \* per caller and source: where its validate() is
    held,       \* per caller and source: the secret validate() read
    loop,       \* the validation whose plain callable runs, if one does
    answer,     \* what the latest step told its caller, or NoAnswer
    overtaken,  \* history: validations whose record was written while they waited
    raced,      \* history: sources whose status an overtaken validation wrote
    unread      \* history: sources whose record load() could not fill

record == <<present, status>>
history == <<overtaken, raced, unread>>
vars == <<surface, changes, record, asking, task, held, loop, answer, history>>

Absent == "absent"
Status == {"Configured", "Invalid", "Missing", "Unverifiable"}
Validations == Callers \X Sources
SourceOf(v) == v[2]
NoAnswer == [kind |-> "none"]
Silent == answer' = NoAnswer

\* The event loop runs the next of its tasks when the one before has given way.
LoopIsFree == loop = {}
Gives == LoopIsFree /\ UNCHANGED loop

\* _is_present, when the surface can be read.
IsPresent(s) == surface[s] # Absent

\* Mistakes; each makes one of the properties below fail.
RefreshKeepsStatus(s) == IF IsPresent(s) THEN status[s] ELSE "Missing"
RefreshForgetsMissing(s) == "Unverifiable"
AnyAnswerWillDo(secret) == {"Unverifiable", "Configured"}
EndsIfTaken(v) == loop = {v} \/ (LoopIsFree /\ held[v] \in Accepted)

\* The status _refresh_presence leaves when presence is not what it was.
Refreshed(s) == IF IsPresent(s) THEN "Unverifiable" ELSE "Missing"

\* The records of S as _refresh_presence leaves them.
PresenceOf(S) == [s \in Sources |-> IF s \in S THEN IsPresent(s) ELSE present[s]]
Noticed(S) == {s \in S : IsPresent(s) # present[s]}
StatusOf(S) == [s \in Sources |-> IF s \in Noticed(S) THEN Refreshed(s) ELSE status[s]]

\* History of a write to the records of S by steps that waited for nothing.
Waiting == {v \in Validations : task[v] = "waiting"}
Wrote(S) ==
    /\ overtaken' = overtaken \cup {v \in Waiting : SourceOf(v) \in S}
    /\ raced' = raced \ S
    /\ unread' = unread \ S

RefreshPresence(S) ==
    /\ present' = PresenceOf(S)
    /\ status' = StatusOf(S)
    /\ Wrote(Noticed(S))

\* What a source's validator makes of a secret; it may also fail or be late.
Verdicts(secret) ==
    {"Unverifiable", IF secret \in Accepted THEN "Configured" ELSE "Invalid"}

-----------------------------------------------------------------------------

\* load(), at construction and once the wiring has registered every spec.
Init ==
    /\ surface \in [Sources -> Secrets \cup {Absent}]
    /\ changes = 0
    /\ unread \in SUBSET Unreadable
    /\ present = [s \in Sources |-> s \notin unread /\ IsPresent(s)]
    /\ status = [s \in Sources |->
                    IF s \in unread \/ IsPresent(s) THEN "Unverifiable" ELSE "Missing"]
    /\ asking = [r \in Callers |-> "idle"]
    /\ task = [v \in Validations |-> "none"]
    /\ held = [v \in Validations |-> Absent]
    /\ loop = {}
    /\ answer = NoAnswer
    /\ overtaken = {}
    /\ raced = {}

\* The user edits the surface: a credential is set, replaced or taken away.
ChangeSurface ==
    /\ changes < MaxChanges
    /\ changes' = changes + 1
    /\ \E s \in Sources, value \in Secrets \cup {Absent} :
          value # surface[s] /\ surface' = [surface EXCEPT ![s] = value]
    /\ Silent
    /\ UNCHANGED <<record, asking, task, held, loop, history>>

\* report() picks its sources by the presence on record, not on the surface.
StartReport(r) ==
    /\ Gives
    /\ asking[r] = "idle"
    /\ asking' = [asking EXCEPT ![r] = "gathering"]
    /\ task' = [v \in Validations |->
                    IF v[1] = r THEN IF present[SourceOf(v)] THEN "created" ELSE "none"
                    ELSE task[v]]
    /\ Silent
    /\ UNCHANGED <<surface, changes, record, held, overtaken, raced, unread>>

\* validate() up to its first await, or to its end when it has nothing to ask.
StartValidate(v) ==
    LET s == SourceOf(v) IN
    /\ Gives
    /\ task[v] = "created"
    /\ \/ /\ s \in Unreadable                     \* the read raises; gather keeps it
          /\ task' = [task EXCEPT ![v] = "done"]
          /\ UNCHANGED <<record, held, overtaken, raced, unread>>
       \/ /\ ~IsPresent(s)
          /\ task' = [task EXCEPT ![v] = "done"]
          /\ present' = PresenceOf({s})
          /\ status' = [status EXCEPT ![s] = "Missing"]
          /\ Wrote({s})
          /\ UNCHANGED held
       \/ /\ IsPresent(s) /\ s \notin Checked
          /\ task' = [task EXCEPT ![v] = "done"]
          /\ present' = PresenceOf({s})
          /\ status' = [status EXCEPT ![s] = "Unverifiable"]
          /\ Wrote({s})
          /\ UNCHANGED held
       \/ /\ IsPresent(s) /\ s \in Checked
          /\ task' = [task EXCEPT ![v] = "waiting"]
          /\ held' = [held EXCEPT ![v] = surface[s]]
          /\ present' = PresenceOf({s})
          /\ status' = StatusOf({s})
          /\ Wrote(Noticed({s}))
    /\ Silent
    /\ UNCHANGED <<surface, changes, asking>>

\* _invoke_validator calls a plain callable, which has the event loop until it ends.
\* One that returns a coroutine at once is like a coroutine.
CallPlain(v) ==
    /\ LoopIsFree
    /\ task[v] = "waiting" /\ SourceOf(v) \in Plain
    /\ loop' = {v}
    /\ Silent
    /\ UNCHANGED <<surface, changes, record, asking, task, held, history>>

\* A plain callable ends when it returns, and a coroutine after ten seconds at most.
MayEnd(v) == loop \subseteq {v}

\* The validator answers, fails or, where it can be, is ended by the timeout, and
\* validate() writes the status without looking at the surface again.
FinishValidate(v) ==
    LET s == SourceOf(v) IN
    /\ task[v] = "waiting"
    /\ MayEnd(v) /\ loop' = {}
    /\ task' = [task EXCEPT ![v] = "done"]
    /\ \E verdict \in Verdicts(held[v]) : status' = [status EXCEPT ![s] = verdict]
    /\ overtaken' = (overtaken \ {v}) \cup {w \in Waiting \ {v} : SourceOf(w) = s}
    /\ raced' = IF v \in overtaken THEN raced \cup {s} ELSE raced \ {s}
    /\ unread' = unread \ {s}
    /\ held' = [held EXCEPT ![v] = Absent]
    /\ Silent
    /\ UNCHANGED <<surface, changes, present, asking>>

\* status_report(); the sources of F cannot be read and degrade by themselves.
Report ==
    \E F \in SUBSET Unreadable :
        /\ RefreshPresence(Sources \ F)
        /\ answer' = [kind |-> "views",
                      of |-> [s \in Sources |-> IF s \in F THEN "unreadable" ELSE status'[s]]]

StatusReport ==
    /\ Gives
    /\ Report
    /\ UNCHANGED <<surface, changes, asking, task, held>>

\* report() after its gather.
FinishReport(r) ==
    /\ Gives
    /\ asking[r] = "gathering"
    /\ \A s \in Sources : task[<<r, s>>] \in {"none", "done"}
    /\ asking' = [asking EXCEPT ![r] = "idle"]
    /\ task' = [v \in Validations |-> IF v[1] = r THEN "none" ELSE task[v]]
    /\ Report
    /\ UNCHANGED <<surface, changes, held>>

\* guard_invocation() of a source that can be read; where the read raises, so
\* does the guard, and nothing changes.
Guard(s) ==
    /\ Gives
    /\ RefreshPresence({s})
    /\ answer' = [kind |-> IF s \in Required /\ ~present'[s] THEN "denied" ELSE "permitted",
                  of |-> s]
    /\ UNCHANGED <<surface, changes, asking, task, held>>

Next ==
    \/ ChangeSurface
    \/ StatusReport
    \/ \E r \in Callers : StartReport(r) \/ FinishReport(r)
    \/ \E v \in Validations : StartValidate(v) \/ CallPlain(v) \/ FinishValidate(v)
    \/ \E s \in Sources : Guard(s)

\* The event loop takes the tasks that are ready in turn, so each report goes on if
\* the loop is free again and again; wait_for ends every coroutine by its timeout.
\* Nothing ends a plain callable that runs.
GoOn(r) ==
    \/ FinishReport(r)
    \/ \E s \in Sources : StartValidate(<<r, s>>) \/ (LoopIsFree /\ FinishValidate(<<r, s>>))
Spec == Init /\ [][Next]_vars /\ \A r \in Callers : SF_vars(GoOn(r))

-----------------------------------------------------------------------------

\* Types of the records, the calls in progress and the history.
TypeOK ==
    /\ surface \in [Sources -> Secrets \cup {Absent}]
    /\ changes \in 0..MaxChanges
    /\ present \in [Sources -> BOOLEAN]
    /\ status \in [Sources -> Status]
    /\ asking \in [Callers -> {"idle", "gathering"}]
    /\ task \in [Validations -> {"none", "created", "waiting", "done"}]
    /\ held \in [Validations -> Secrets \cup {Absent}]
    /\ loop \in {{}} \cup {{v} : v \in Validations}
    /\ answer \in {NoAnswer}
          \cup [kind : {"denied", "permitted"}, of : Sources]
          \cup [kind : {"views"}, of : [Sources -> Status \cup {"unreadable"}]]
    /\ overtaken \subseteq Validations
    /\ raced \subseteq Sources
    /\ unread \subseteq Unreadable

\* The record's presence flag and its status agree, although _refresh_presence
\* touches the status only when the flag changes: only a credential on record as
\* absent is Missing, and each of these is, except where load() could not read it
\* or a validation that something overtook wrote last.
PresenceAgreesWithStatus ==
    \A s \in Sources :
        /\ status[s] = "Missing" => ~present[s]
        /\ ~present[s] /\ s \notin raced \cup unread => status[s] = "Missing"

\* A report calls a credential Missing only if there is none, even when
\* validations of it were under way; and it calls Missing every one there is
\* none of, unless an overtaken validation wrote or load() failed.
ReportsTellAbsence ==
    answer.kind = "views" => \A s \in Sources :
        /\ answer.of[s] = "Missing" => surface[s] = Absent
        /\ surface[s] = Absent /\ s \notin raced \cup unread
              => answer.of[s] \in {"Missing", "unreadable"}

\* "Configured" and "Invalid" rest on an answer: some validation of that source
\* that has a validator held a secret the source takes, or refuses.
VerdictsRestOnAnAnswer ==
    [][\A s \in Sources : status'[s] # status[s] /\ status'[s] \in {"Configured", "Invalid"} =>
          \E v \in Validations :
             /\ SourceOf(v) = s /\ s \in Checked
             /\ task[v] = "waiting" /\ task'[v] = "done"
             /\ status'[s] = "Configured" <=> held[v] \in Accepted]_vars

\* The guard denies exactly the invocations that need a credential nobody
\* configured, at the moment it decides and whatever the record said before.
GuardIsExact ==
    answer.kind \in {"denied", "permitted"} =>
        (answer.kind = "denied" <=> answer.of \in Required /\ surface[answer.of] = Absent)

\* Every live report ends although sources may never answer, as long as no plain
\* callable keeps the event loop for ever.
ReportsEnd ==
    []<>LoopIsFree => \A r \in Callers : asking[r] = "gathering" ~> asking[r] = "idle"

=============================================================================
