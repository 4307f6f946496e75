------------------------------ MODULE HubProofs ------------------------------
(***************************************************************************)
(* Safety of two managers of the hub, each by itself.                      *)
(*                                                                         *)
(* CredentialManager, for any number of sources and callers.  The core is  *)
(* PresenceAgreesWithStatus: _refresh_presence leaves the status alone     *)
(* while the presence flag is what it was, so every step that writes one   *)
(* of the two must leave them in agreement, or be on record (raced,        *)
(* unread) as one that may not.                                            *)
(*                                                                         *)
(* SteeringEngine, for any files, workflows and directories, and that it   *)
(* implements TriggerRelation.  The two maps mirror each other because an  *)
(* event changes both in step; what makes that enough is that a file only  *)
(* ever holds workflows it matches (HeldByOpenFiles), so opening it again  *)
(* leaves nothing behind.                                                  *)
(***************************************************************************)
EXTENDS CredentialManager, SteeringEngine, TLAPS

-----------------------------------------------------------------------------
(* The credential manager.                                                  *)


\* What makes the verdict of a validation nothing overtook agree with the flag:
\* while it waits, the record says present.
WaitsOnAPresentOne ==
    \A v \in Validations : task[v] = "waiting" /\ v \notin overtaken => present[SourceOf(v)]

Inv ==
    /\ TypeOK
    /\ WaitsOnAPresentOne
    /\ PresenceAgreesWithStatus
    /\ ReportsTellAbsence
    /\ GuardIsExact

\* What a refresh of the records of S does: the records of S are exact about
\* presence, types and agreement are kept.
LEMMA RefreshExact ==
    ASSUME TypeOK, PresenceAgreesWithStatus, NEW S \in SUBSET Sources, RefreshPresence(S)
    PROVE  /\ present' \in [Sources -> BOOLEAN]
           /\ status' \in [Sources -> Status]
           /\ overtaken' \subseteq Validations
           /\ raced' \subseteq Sources
           /\ unread' \subseteq Unreadable
           /\ \A s \in S : present'[s] <=> IsPresent(s)
           /\ PresenceAgreesWithStatus'
           /\ \A v \in Waiting : v \notin overtaken' =>
                 v \notin overtaken /\ present'[SourceOf(v)] = present[SourceOf(v)]
<1> USE DEF TypeOK
<1>1. /\ present' \in [Sources -> BOOLEAN]
      /\ \A s \in S : present'[s] <=> IsPresent(s)
  BY DEF RefreshPresence, PresenceOf, IsPresent
<1>2. status' \in [Sources -> Status]
  BY DEF RefreshPresence, StatusOf, Refreshed, Status
<1>3. /\ overtaken' \subseteq Validations
      /\ raced' \subseteq Sources
      /\ unread' \subseteq Unreadable
  BY DEF RefreshPresence, Wrote, Waiting
<1>4. ASSUME NEW s \in Sources
      PROVE  /\ status'[s] = "Missing" => ~present'[s]
             /\ ~present'[s] /\ s \notin raced' \cup unread' => status'[s] = "Missing"
  <2>1. CASE s \in Noticed(S)
    BY <2>1 DEF RefreshPresence, PresenceOf, StatusOf, Refreshed, Noticed, IsPresent
  <2>2. CASE s \notin Noticed(S)
    <3>1. s \notin raced' \cup unread' => s \notin raced \cup unread
      BY <2>2 DEF RefreshPresence, Wrote
    <3>2. present'[s] = present[s] /\ status'[s] = status[s]
      BY <2>2 DEF RefreshPresence, PresenceOf, StatusOf, Noticed, IsPresent
    <3> QED
      BY <3>1, <3>2 DEF PresenceAgreesWithStatus
  <2> QED
    BY <2>1, <2>2
<1>5. ASSUME NEW v \in Waiting, v \notin overtaken'
      PROVE  v \notin overtaken /\ present'[SourceOf(v)] = present[SourceOf(v)]
  <2>1. v \notin overtaken /\ SourceOf(v) \notin Noticed(S)
    BY <1>5 DEF RefreshPresence, Wrote
  <2>2. SourceOf(v) \in Sources
    BY DEF Waiting, Validations, SourceOf
  <2> QED
    BY <2>1, <2>2 DEF RefreshPresence, PresenceOf, Noticed
<1> QED
  BY <1>1, <1>2, <1>3, <1>4, <1>5 DEF PresenceAgreesWithStatus

LEMMA InitInv == Init => Inv
<1> SUFFICES ASSUME Init PROVE Inv
  OBVIOUS
<1>1. TypeOK
  BY CredentialsAssumption
  DEF Init, TypeOK, NoAnswer, Status, IsPresent, Validations, Absent
<1>2. PresenceAgreesWithStatus
  BY DEF Init, PresenceAgreesWithStatus
<1>3. ReportsTellAbsence /\ GuardIsExact
  BY DEF Init, ReportsTellAbsence, GuardIsExact, NoAnswer
<1>4. WaitsOnAPresentOne
  BY DEF Init, WaitsOnAPresentOne
<1> QED
  BY <1>1, <1>2, <1>3, <1>4 DEF Inv

\* Silent steps have nothing to say about the surface.
LEMMA SilentSaysNothing == Silent => ReportsTellAbsence' /\ GuardIsExact'
BY DEF Silent, NoAnswer, ReportsTellAbsence, GuardIsExact

LEMMA ReportKeeps ==
    ASSUME Inv, Report, UNCHANGED surface
    PROVE  /\ present' \in [Sources -> BOOLEAN]
           /\ status' \in [Sources -> Status]
           /\ overtaken' \subseteq Validations
           /\ raced' \subseteq Sources
           /\ unread' \subseteq Unreadable
           /\ answer' \in [kind : {"views"}, of : [Sources -> Status \cup {"unreadable"}]]
           /\ PresenceAgreesWithStatus'
           /\ ReportsTellAbsence'
           /\ GuardIsExact'
           /\ \A v \in Waiting : v \notin overtaken' =>
                 v \notin overtaken /\ present'[SourceOf(v)] = present[SourceOf(v)]
<1>1. PICK F \in SUBSET Unreadable :
        /\ RefreshPresence(Sources \ F)
        /\ answer' = [kind |-> "views",
                      of |-> [s \in Sources |-> IF s \in F THEN "unreadable" ELSE status'[s]]]
  BY DEF Report
<1>2. /\ present' \in [Sources -> BOOLEAN]
      /\ status' \in [Sources -> Status]
      /\ overtaken' \subseteq Validations
      /\ raced' \subseteq Sources
      /\ unread' \subseteq Unreadable
      /\ \A s \in Sources \ F : present'[s] <=> IsPresent(s)
      /\ PresenceAgreesWithStatus'
      /\ \A v \in Waiting : v \notin overtaken' =>
            v \notin overtaken /\ present'[SourceOf(v)] = present[SourceOf(v)]
  BY <1>1, RefreshExact DEF Inv
<1>3. answer' \in [kind : {"views"}, of : [Sources -> Status \cup {"unreadable"}]]
  BY <1>1, <1>2
<1>4. ASSUME NEW s \in Sources
      PROVE  /\ answer'.of[s] = "Missing" => surface'[s] = Absent'
             /\ surface'[s] = Absent' /\ s \notin raced' \cup unread'
                   => answer'.of[s] \in {"Missing", "unreadable"}
  <2>1. CASE s \in F
    BY <1>1, <2>1
  <2>2. CASE s \notin F
    <3>1. answer'.of[s] = status'[s]
      BY <1>1, <2>2
    <3>2. present'[s] <=> surface[s] # Absent
      BY <1>2, <2>2 DEF IsPresent
    <3> QED
      BY <1>2, <3>1, <3>2 DEF PresenceAgreesWithStatus, Absent
  <2> QED
    BY <2>1, <2>2
<1>5. ReportsTellAbsence'
  BY <1>4 DEF ReportsTellAbsence
<1>6. GuardIsExact'
  BY <1>1 DEF GuardIsExact
<1> QED
  BY <1>2, <1>3, <1>5, <1>6

LEMMA StepInv == Inv /\ [Next]_vars => Inv'
<1> SUFFICES ASSUME Inv, [Next]_vars
             PROVE  Inv'
  OBVIOUS
<1> USE DEF Inv
<1>1. CASE ChangeSurface
  <2>1. TypeOK'
    <3>1. changes' \in 0..MaxChanges
      BY <1>1, CredentialsAssumption DEF ChangeSurface, TypeOK
    <3>2. surface' \in [Sources -> Secrets \cup {Absent'}]
      BY <1>1 DEF ChangeSurface, TypeOK, Absent
    <3>3. UNCHANGED <<present, status, asking, task, held, loop, overtaken, raced, unread>>
          /\ answer' = NoAnswer
      BY <1>1 DEF ChangeSurface, Silent, record, history
    <3> QED
      BY <3>1, <3>2, <3>3 DEF TypeOK, NoAnswer, Absent, Validations, Status
  <2>2. PresenceAgreesWithStatus'
    BY <1>1 DEF ChangeSurface, PresenceAgreesWithStatus, record, history
  <2>3. WaitsOnAPresentOne'
    BY <1>1 DEF ChangeSurface, WaitsOnAPresentOne, record, history, Validations, SourceOf
  <2> QED
    BY <1>1, <2>1, <2>2, <2>3, SilentSaysNothing DEF ChangeSurface
<1>2. CASE StatusReport
  <2>1. WaitsOnAPresentOne'
    BY <1>2, ReportKeeps DEF StatusReport, WaitsOnAPresentOne, Waiting
  <2> QED
    BY <1>2, <2>1, ReportKeeps DEF StatusReport, Gives, TypeOK
<1>3. ASSUME NEW r \in Callers, StartReport(r)
      PROVE  Inv'
  <2>1. TypeOK'
    BY <1>3 DEF StartReport, Gives, Silent, TypeOK, record, NoAnswer, Validations, SourceOf
  <2>2. PresenceAgreesWithStatus'
    BY <1>3 DEF StartReport, PresenceAgreesWithStatus, record
  <2>3. WaitsOnAPresentOne'
    BY <1>3 DEF StartReport, WaitsOnAPresentOne, record
  <2> QED
    BY <1>3, <2>1, <2>2, <2>3, SilentSaysNothing DEF StartReport
<1>4. ASSUME NEW r \in Callers, FinishReport(r)
      PROVE  Inv'
  <2>1. task' \in [Validations -> {"none", "created", "waiting", "done"}]
    BY <1>4 DEF FinishReport, TypeOK
  <2>2. WaitsOnAPresentOne'
    <3> SUFFICES ASSUME NEW v \in Validations, task'[v] = "waiting", v \notin overtaken'
                 PROVE  present'[SourceOf(v)]
      BY DEF WaitsOnAPresentOne, SourceOf, Validations
    <3>1. v \in Waiting
      BY <1>4 DEF FinishReport, Waiting
    <3> QED
      BY <1>4, <3>1, ReportKeeps DEF FinishReport, WaitsOnAPresentOne, Waiting
  <2> QED
    BY <1>4, <2>1, <2>2, ReportKeeps DEF FinishReport, Gives, TypeOK
<1>5. ASSUME NEW v \in Validations, StartValidate(v)
      PROVE  Inv'
  <2> DEFINE s == SourceOf(v)
  <2>0. s \in Sources
    BY DEF Validations, SourceOf
  <2>1. ReportsTellAbsence' /\ GuardIsExact'
    BY <1>5, SilentSaysNothing DEF StartValidate
  <2>2. CASE s \in Unreadable /\ task' = [task EXCEPT ![v] = "done"]
             /\ UNCHANGED <<record, held, overtaken, raced, unread>>
    <3>1. TypeOK'
      BY <1>5, <2>2 DEF StartValidate, Gives, Silent, TypeOK, record, NoAnswer
    <3>2. PresenceAgreesWithStatus'
      BY <2>2 DEF PresenceAgreesWithStatus, record
    <3>3. WaitsOnAPresentOne'
      BY <2>2 DEF WaitsOnAPresentOne, record, TypeOK
    <3> QED
      BY <2>1, <3>1, <3>2, <3>3
  <2>3. ASSUME NEW st \in {"Missing", "Unverifiable"}, (st = "Missing") <=> ~IsPresent(s),
               task' = [task EXCEPT ![v] = "done"], present' = PresenceOf({s}),
               status' = [status EXCEPT ![s] = st], Wrote({s}), UNCHANGED held
        PROVE  Inv'
    <3>1. TypeOK'
      <4>1. present' \in [Sources -> BOOLEAN] /\ status' \in [Sources -> Status]
        BY <2>3 DEF PresenceOf, IsPresent, Status, TypeOK
      <4>2. overtaken' \subseteq Validations /\ raced' \subseteq Sources /\ unread' \subseteq Unreadable
        BY <2>3 DEF Wrote, Waiting, TypeOK
      <4> QED
        BY <1>5, <2>3, <4>1, <4>2 DEF StartValidate, Gives, Silent, TypeOK, NoAnswer
    <3>2. PresenceAgreesWithStatus'
      <4> SUFFICES ASSUME NEW d \in Sources PROVE PresenceAgreesWithStatus!(d)'
        BY DEF PresenceAgreesWithStatus
      <4>1. CASE d = s
        BY <2>0, <2>3, <4>1 DEF PresenceOf, TypeOK
      <4>2. CASE d # s
        BY <2>0, <2>3, <4>2 DEF PresenceOf, PresenceAgreesWithStatus, Wrote, TypeOK
      <4> QED
        BY <4>1, <4>2
    <3>3. WaitsOnAPresentOne'
      <4> SUFFICES ASSUME NEW w \in Validations, task'[w] = "waiting", w \notin overtaken'
                   PROVE  present'[SourceOf(w)]
        BY DEF WaitsOnAPresentOne, SourceOf, Validations
      <4>1. task[w] = "waiting"
        BY <2>3 DEF TypeOK
      <4>2. w \notin overtaken /\ SourceOf(w) # s
        BY <2>3, <4>1 DEF Wrote, Waiting
      <4>3. SourceOf(w) \in Sources
        BY DEF Validations, SourceOf
      <4> QED
        BY <2>3, <4>1, <4>2, <4>3 DEF PresenceOf, WaitsOnAPresentOne
    <3> QED
      BY <2>1, <3>1, <3>2, <3>3
  <2>4. CASE /\ IsPresent(s) /\ task' = [task EXCEPT ![v] = "waiting"]
             /\ held' = [held EXCEPT ![v] = surface[s]]
             /\ RefreshPresence({s})
    <3>1. /\ present' \in [Sources -> BOOLEAN]
          /\ status' \in [Sources -> Status]
          /\ overtaken' \subseteq Validations
          /\ raced' \subseteq Sources
          /\ unread' \subseteq Unreadable
          /\ PresenceAgreesWithStatus'
          /\ present'[s] <=> IsPresent(s)
          /\ \A w \in Waiting : w \notin overtaken' =>
                w \notin overtaken /\ present'[SourceOf(w)] = present[SourceOf(w)]
      BY <2>0, <2>4, RefreshExact
    <3>2. TypeOK'
      BY <1>5, <2>0, <2>4, <3>1 DEF StartValidate, Gives, Silent, TypeOK, NoAnswer
    <3>3. WaitsOnAPresentOne'
      <4> SUFFICES ASSUME NEW w \in Validations, task'[w] = "waiting", w \notin overtaken'
                   PROVE  present'[SourceOf(w)]
        BY DEF WaitsOnAPresentOne, SourceOf, Validations
      <4>1. CASE w = v
        BY <2>4, <3>1, <4>1
      <4>2. CASE w # v
        BY <2>4, <3>1, <4>2 DEF WaitsOnAPresentOne, Waiting, TypeOK
      <4> QED
        BY <4>1, <4>2
    <3> QED
      BY <2>1, <3>1, <3>2, <3>3
  <2> QED
    <3>1. CASE ~IsPresent(s) /\ task' = [task EXCEPT ![v] = "done"]
               /\ present' = PresenceOf({s}) /\ status' = [status EXCEPT ![s] = "Missing"]
               /\ Wrote({s}) /\ UNCHANGED held
      BY <2>3, <3>1
    <3>2. CASE IsPresent(s) /\ task' = [task EXCEPT ![v] = "done"]
               /\ present' = PresenceOf({s}) /\ status' = [status EXCEPT ![s] = "Unverifiable"]
               /\ Wrote({s}) /\ UNCHANGED held
      BY <2>3, <3>2
    <3> QED
      BY <1>5, <2>2, <2>4, <3>1, <3>2 DEF StartValidate, RefreshPresence
<1>6. ASSUME NEW v \in Validations, FinishValidate(v)
      PROVE  Inv'
  <2> DEFINE s == SourceOf(v)
  <2>0. s \in Sources
    BY DEF Validations, SourceOf
  <2>1. PICK verdict \in {"Unverifiable", "Configured", "Invalid"} :
          status' = [status EXCEPT ![s] = verdict]
    BY <1>6 DEF FinishValidate, Verdicts
  <2>2. TypeOK'
    BY <1>6, <2>0, <2>1 DEF FinishValidate, Silent, TypeOK, NoAnswer, Waiting, Status
  <2>3. PresenceAgreesWithStatus'
    <3> SUFFICES ASSUME NEW d \in Sources PROVE PresenceAgreesWithStatus!(d)'
      BY DEF PresenceAgreesWithStatus
    <3>1. CASE d = s
      <4>1. status'[d] # "Missing"
        BY <2>0, <2>1, <3>1 DEF TypeOK
      <4>2. v \notin overtaken => present'[d]
        BY <1>6, <3>1 DEF FinishValidate, WaitsOnAPresentOne
      <4>3. v \in overtaken => d \in raced'
        BY <1>6, <3>1 DEF FinishValidate
      <4> QED
        BY <4>1, <4>2, <4>3
    <3>2. CASE d # s
      <4>1. present'[d] = present[d] /\ status'[d] = status[d]
        BY <1>6, <2>0, <2>1, <3>2 DEF FinishValidate, TypeOK
      <4>2. d \in raced \cup unread => d \in raced' \cup unread'
        BY <1>6, <3>2 DEF FinishValidate
      <4> QED
        BY <4>1, <4>2 DEF PresenceAgreesWithStatus
    <3> QED
      BY <3>1, <3>2
  <2>4. WaitsOnAPresentOne'
    <3> SUFFICES ASSUME NEW w \in Validations, task'[w] = "waiting", w \notin overtaken'
                 PROVE  present'[SourceOf(w)]
      BY DEF WaitsOnAPresentOne, SourceOf, Validations
    <3>1. w # v /\ task[w] = "waiting" /\ w \notin overtaken /\ present' = present
      BY <1>6 DEF FinishValidate, TypeOK
    <3> QED
      BY <3>1 DEF WaitsOnAPresentOne
  <2> QED
    BY <1>6, <2>2, <2>3, <2>4, SilentSaysNothing DEF FinishValidate
<1>7. ASSUME NEW s \in Sources, Guard(s)
      PROVE  Inv'
  <2>1. /\ present' \in [Sources -> BOOLEAN]
        /\ status' \in [Sources -> Status]
        /\ overtaken' \subseteq Validations
        /\ raced' \subseteq Sources
        /\ unread' \subseteq Unreadable
        /\ present'[s] <=> IsPresent(s)
        /\ PresenceAgreesWithStatus'
        /\ \A w \in Waiting : w \notin overtaken' =>
              w \notin overtaken /\ present'[SourceOf(w)] = present[SourceOf(w)]
    BY <1>7, RefreshExact DEF Guard
  <2>2. TypeOK'
    BY <1>7, <2>1 DEF Guard, Gives, TypeOK
  <2>3. ReportsTellAbsence'
    BY <1>7 DEF Guard, ReportsTellAbsence
  <2>4. GuardIsExact'
    BY <1>7, <2>1 DEF Guard, GuardIsExact, IsPresent, Absent
  <2>5. WaitsOnAPresentOne'
    BY <1>7, <2>1 DEF Guard, WaitsOnAPresentOne, Waiting
  <2> QED
    BY <2>1, <2>2, <2>3, <2>4, <2>5
<1>8. ASSUME NEW v \in Validations, CallPlain(v)
      PROVE  Inv'
  <2>1. TypeOK'
    BY <1>8 DEF CallPlain, Silent, TypeOK, record, history, NoAnswer
  <2>2. PresenceAgreesWithStatus' /\ WaitsOnAPresentOne'
    BY <1>8 DEF CallPlain, PresenceAgreesWithStatus, WaitsOnAPresentOne, record, history
  <2> QED
    BY <1>8, <2>1, <2>2, SilentSaysNothing DEF CallPlain
<1>9. CASE UNCHANGED vars
  BY <1>9 DEF vars, record, history, TypeOK, PresenceAgreesWithStatus, ReportsTellAbsence,
      GuardIsExact, NoAnswer, Absent, Validations, Status, WaitsOnAPresentOne
<1> QED
  BY <1>1, <1>2, <1>3, <1>4, <1>5, <1>6, <1>7, <1>8, <1>9 DEF Next

\* Types of the records, the calls in progress and the history.
THEOREM CredentialTypes == Spec => []TypeOK
<1>1. Inv => TypeOK
  BY DEF Inv
<1> QED
  BY <1>1, InitInv, StepInv, PTL DEF Spec

\* The presence flag and the status of a record agree unless load() failed or an
\* overtaken validation wrote last, for every number of concurrent reports.
THEOREM Agreement == Spec => []PresenceAgreesWithStatus
<1>1. Inv => PresenceAgreesWithStatus
  BY DEF Inv
<1> QED
  BY <1>1, InitInv, StepInv, PTL DEF Spec

\* Every status report tells an absent credential from a present one, with the
\* same two exceptions.
THEOREM ReportsHonest == Spec => []ReportsTellAbsence
<1>1. Inv => ReportsTellAbsence
  BY DEF Inv
<1> QED
  BY <1>1, InitInv, StepInv, PTL DEF Spec

\* guard_invocation denies exactly the invocations whose Required credential is
\* absent when it decides, with no exception.
THEOREM GuardExact == Spec => []GuardIsExact
<1>1. Inv => GuardIsExact
  BY DEF Inv
<1> QED
  BY <1>1, InitInv, StepInv, PTL DEF Spec

-----------------------------------------------------------------------------

\* Only a source with a validator is ever asked.
OnlyCheckedAreAsked ==
    \A v \in Validations : task[v] = "waiting" => SourceOf(v) \in Checked

LEMMA StartAsksChecked == Inv /\ OnlyCheckedAreAsked /\ [Next]_vars => OnlyCheckedAreAsked'
<1> SUFFICES ASSUME Inv, OnlyCheckedAreAsked, [Next]_vars,
                    NEW v \in Validations, task'[v] = "waiting", task[v] # "waiting"
             PROVE  SourceOf(v) \in Checked
  BY DEF OnlyCheckedAreAsked, Validations, SourceOf
<1>1. task \in [Validations -> {"none", "created", "waiting", "done"}]
  BY DEF Inv, TypeOK
<1>2. ~ChangeSurface /\ ~StatusReport /\ ~UNCHANGED vars
  BY DEF ChangeSurface, StatusReport, vars
<1>3. ASSUME NEW r \in Callers, StartReport(r) \/ FinishReport(r)
      PROVE  FALSE
  BY <1>1, <1>3 DEF StartReport, FinishReport
<1>4. ASSUME NEW w \in Validations, CallPlain(w) \/ FinishValidate(w)
      PROVE  FALSE
  BY <1>1, <1>4 DEF CallPlain, FinishValidate
<1>5. ASSUME NEW s \in Sources, Guard(s)
      PROVE  FALSE
  BY <1>5 DEF Guard
<1>6. PICK w \in Validations : StartValidate(w)
  BY <1>2, <1>3, <1>4, <1>5 DEF Next
<1>7. w = v
  BY <1>1, <1>6 DEF StartValidate
<1> QED
  BY <1>1, <1>6, <1>7 DEF StartValidate

\* A refresh gives no verdict.
LEMMA RefreshGivesNoVerdict ==
    ASSUME NEW S \in SUBSET Sources, RefreshPresence(S), NEW s \in Sources,
           status'[s] # status[s]
    PROVE  status'[s] \notin {"Configured", "Invalid"}
BY DEF RefreshPresence, StatusOf, Refreshed

\* A verdict is given by the end of a validation only, and is the one its secret
\* deserves.
LEMMA VerdictStep ==
    ASSUME Inv, OnlyCheckedAreAsked, [Next]_vars, NEW s \in Sources,
           status'[s] # status[s], status'[s] \in {"Configured", "Invalid"}
    PROVE  \E v \in Validations :
              /\ SourceOf(v) = s /\ s \in Checked
              /\ task[v] = "waiting" /\ task'[v] = "done"
              /\ status'[s] = "Configured" <=> held[v] \in Accepted
<1>1. /\ task \in [Validations -> {"none", "created", "waiting", "done"}]
      /\ status \in [Sources -> Status]
  BY DEF Inv, TypeOK
<1>2. ~ChangeSurface /\ ~UNCHANGED vars
  BY DEF ChangeSurface, vars, record
<1>3. ~Report
  BY RefreshGivesNoVerdict DEF Report
<1>4. ASSUME NEW r \in Callers, StartReport(r) \/ FinishReport(r)
      PROVE  FALSE
  BY <1>3, <1>4 DEF StartReport, FinishReport, record
<1>5. ASSUME NEW d \in Sources, Guard(d)
      PROVE  FALSE
  BY <1>5, RefreshGivesNoVerdict DEF Guard
<1>6. ASSUME NEW w \in Validations, StartValidate(w)
      PROVE  FALSE
  <2>1. SourceOf(w) \in Sources
    BY DEF Validations, SourceOf
  <2>2. \/ UNCHANGED record
        \/ status' = [status EXCEPT ![SourceOf(w)] = "Missing"]
        \/ status' = [status EXCEPT ![SourceOf(w)] = "Unverifiable"]
        \/ RefreshPresence({SourceOf(w)})
    BY <1>6 DEF StartValidate, RefreshPresence
  <2> QED
    BY <1>1, <2>1, <2>2, RefreshGivesNoVerdict DEF record
<1>7. PICK v \in Validations : FinishValidate(v)
  BY <1>2, <1>3, <1>4, <1>5, <1>6 DEF Next, StatusReport, CallPlain, record
<1>8. SourceOf(v) = s
  BY <1>1, <1>7 DEF FinishValidate
<1>9. task[v] = "waiting" /\ task'[v] = "done" /\ s \in Checked
  BY <1>1, <1>7, <1>8 DEF FinishValidate, OnlyCheckedAreAsked
<1>10. status'[s] \in Verdicts(held[v])
  BY <1>1, <1>7, <1>8 DEF FinishValidate
<1>11. status'[s] = "Configured" <=> held[v] \in Accepted
  BY <1>10 DEF Verdicts
<1> QED
  BY <1>8, <1>9, <1>11

\* No status becomes "Configured" or "Invalid" but by an answer about a secret that
\* a validator was asked about, however refreshes, guards, reports and other
\* validations of the same source fall in between.
THEOREM VerdictsAreAnswers == Spec => VerdictsRestOnAnAnswer
<1>1. Init => OnlyCheckedAreAsked
  BY DEF Init, OnlyCheckedAreAsked
<1>2. Inv /\ OnlyCheckedAreAsked /\ [Next]_vars =>
        [\A s \in Sources : status'[s] # status[s] /\ status'[s] \in {"Configured", "Invalid"} =>
            \E v \in Validations :
               /\ SourceOf(v) = s /\ s \in Checked
               /\ task[v] = "waiting" /\ task'[v] = "done"
               /\ status'[s] = "Configured" <=> held[v] \in Accepted]_vars
  BY VerdictStep
<1> QED
  BY <1>1, <1>2, InitInv, StepInv, StartAsksChecked, PTL DEF Spec, VerdictsRestOnAnAnswer

-----------------------------------------------------------------------------
(* The steering engine.                                                     *)


\* Before the workflows are read nothing is registered and nothing is held.
NothingBeforeLoading ==
    phase # "ready" => workflows = <<>> /\ \A f \in Files : triggers[f] = {}

SteeringInv ==
    /\ SteeringTypeOK
    /\ NothingBeforeLoading
    /\ Mirrored
    /\ HeldByOpenFiles

-----------------------------------------------------------------------------
(* What the two halves of an event do to the maps.                          *)

\* The maps and the lists of an update while an event is handled.
Working == [active : [Names -> SUBSET Files], triggers : [Files -> SUBSET Names],
            activated : SUBSET (Names \X BOOLEAN), deactivated : SUBSET Names]

LEMMA WithdrawIs ==
    ASSUME NEW m \in Working, NEW f \in Files
    PROVE  LET n == Withdraw(m, f) IN
           /\ n \in Working
           /\ n.active = [w \in Names |-> IF w \in m.triggers[f] THEN m.active[w] \ {f}
                                          ELSE m.active[w]]
           /\ n.triggers = [g \in Files |-> IF g = f THEN {} ELSE m.triggers[g]]
           /\ n.activated = m.activated
           /\ n.deactivated = m.deactivated \cup {w \in m.triggers[f] : m.active[w] = {f}}
<1> DEFINE had == m.triggers[f]
           A == [w \in Names |-> IF w \in had THEN m.active[w] \ {f} ELSE m.active[w]]
           T == [m.triggers EXCEPT ![f] = {}]
           D == m.deactivated \cup {w \in had : m.active[w] = {f}}
           n == [m EXCEPT !.active = A, !.triggers = T, !.deactivated = D]
<1>1. Withdraw(m, f) = n
  BY DEF Withdraw, Working
<1>2. had \subseteq Names
  BY DEF Working
<1>3. A \in [Names -> SUBSET Files] /\ T \in [Files -> SUBSET Names] /\ D \in SUBSET Names
  <2>1. \A w \in Names : m.active[w] \in SUBSET Files
    BY DEF Working
  <2>2. A \in [Names -> SUBSET Files]
    BY <2>1
  <2>3. T \in [Files -> SUBSET Names]
    BY DEF Working
  <2>4. D \in SUBSET Names
    BY <1>2 DEF Working
  <2> QED
    BY <2>2, <2>3, <2>4
<1>4. T = [g \in Files |-> IF g = f THEN {} ELSE m.triggers[g]]
  BY DEF Working
<1>5. n.active = A /\ n.triggers = T /\ n.activated = m.activated /\ n.deactivated = D
  BY DEF Working
<1>6. n \in Working
  BY <1>3 DEF Working
<1> HIDE DEF n, A, T, D
<1> QED
  BY <1>1, <1>4, <1>5, <1>6 DEF A, D

LEMMA DropIs ==
    ASSUME NEW m \in Working, NEW failing \in SUBSET Names
    PROVE  LET n == Drop(m, failing) IN
           /\ n \in Working
           /\ n.active = [w \in Names |-> IF w \in failing THEN {} ELSE m.active[w]]
           /\ n.triggers = [g \in Files |-> m.triggers[g] \ failing]
           /\ n.activated = m.activated
           /\ n.deactivated = m.deactivated \cup failing
<1> DEFINE A == [w \in Names |-> IF w \in failing THEN {} ELSE m.active[w]]
           T == [g \in Files |-> m.triggers[g] \ failing]
           D == m.deactivated \cup failing
           n == [m EXCEPT !.active = A, !.triggers = T, !.deactivated = D]
<1>1. Drop(m, failing) = n
  BY DEF Drop, Working
<1>2. A \in [Names -> SUBSET Files]
  <2>1. \A w \in Names : m.active[w] \in SUBSET Files
    BY DEF Working
  <2> QED
    BY <2>1
<1>3. T \in [Files -> SUBSET Names] /\ D \in SUBSET Names
  <2>1. \A g \in Files : m.triggers[g] \in SUBSET Names
    BY DEF Working
  <2> QED
    BY <2>1 DEF Working
<1>4. n.active = A /\ n.triggers = T /\ n.activated = m.activated /\ n.deactivated = D
  BY DEF Working
<1>5. n \in Working
  BY <1>2, <1>3 DEF Working
<1> HIDE DEF n
<1> QED
  BY <1>1, <1>4, <1>5

\* The presentations an opened file makes, and whether they are new.
Presented(m, f, failing) == {<<w, m.active[w] = {}>> : w \in Matching(f) \ failing}

LEMMA OpenIs ==
    ASSUME NEW m \in Working, NEW f \in Files, NEW failing \in SUBSET Names,
           Matching(f) \subseteq Names
    PROVE  LET n == Open(m, f, failing) IN
           /\ n \in Working
           /\ \A w \in Names : n.active[w] = IF w \in Matching(f) \ failing THEN m.active[w] \cup {f}
                                            ELSE IF w \in failing THEN {} ELSE m.active[w]
           /\ \A g \in Files : n.triggers[g] = IF g = f THEN Matching(f) \ failing
                                              ELSE m.triggers[g] \ failing
           /\ n.activated = Presented(m, f, failing)
           /\ n.deactivated = m.deactivated \cup failing
<1> DEFINE confirmed == Matching(f) \ failing
           d == Drop(m, failing)
           A == [w \in Names |-> IF w \in confirmed THEN d.active[w] \cup {f} ELSE d.active[w]]
           T == [d.triggers EXCEPT ![f] = confirmed]
           X == {<<w, m.active[w] = {}>> : w \in confirmed}
           n == [d EXCEPT !.active = A, !.triggers = T, !.activated = X]
<1>1. /\ d \in Working
      /\ d.active = [w \in Names |-> IF w \in failing THEN {} ELSE m.active[w]]
      /\ d.triggers = [g \in Files |-> m.triggers[g] \ failing]
      /\ d.deactivated = m.deactivated \cup failing
  BY DropIs
<1> HIDE DEF d
<1>2. n = [d EXCEPT !.active = [w \in Names |-> IF w \in confirmed THEN @[w] \cup {f} ELSE @[w]],
                    !.triggers[f] = confirmed, !.activated = X]
  BY <1>1 DEF Working
<1>3. Open(m, f, failing) = n
  BY <1>2 DEF Open, d
<1>4. A = [w \in Names |-> IF w \in confirmed THEN m.active[w] \cup {f}
                           ELSE IF w \in failing THEN {} ELSE m.active[w]]
  BY <1>1
<1>5. T = [g \in Files |-> IF g = f THEN confirmed ELSE m.triggers[g] \ failing]
  BY <1>1
<1>6. A \in [Names -> SUBSET Files] /\ T \in [Files -> SUBSET Names]
  <2>1. \A w \in Names : d.active[w] \in SUBSET Files
    BY <1>1 DEF Working
  <2>2. A \in [Names -> SUBSET Files]
    BY <2>1
  <2>3. T \in [Files -> SUBSET Names]
    BY <1>1 DEF Working
  <2> QED
    BY <2>2, <2>3
<1>7. X \in SUBSET (Names \X BOOLEAN)
  <2>1. ASSUME NEW p \in X PROVE p \in Names \X BOOLEAN
    <3>1. PICK w \in confirmed : p = <<w, m.active[w] = {}>>
      OBVIOUS
    <3>2. w \in Names /\ (m.active[w] = {}) \in BOOLEAN
      OBVIOUS
    <3> QED
      BY <3>1, <3>2
  <2> QED
    BY <2>1
<1> HIDE DEF A, T, X
<1>8. n.active = A /\ n.triggers = T /\ n.activated = X /\ n.deactivated = d.deactivated
  BY <1>1 DEF Working
<1>9. n \in Working
  BY <1>1, <1>6, <1>7 DEF Working
<1> HIDE DEF n
<1> QED
  BY <1>1, <1>3, <1>4, <1>5, <1>8, <1>9 DEF X, Presented

\* The maps fit each other, the workflows, and the files now in the editor.
Fits(m, open) ==
    /\ m \in Working
    /\ \A w \in Names, f \in Files : f \in m.active[w] <=> w \in m.triggers[f]
    /\ \A f \in Files : m.triggers[f] \subseteq Matching(f)
    /\ \A f \in Files : m.triggers[f] # {} => f \in open

LEMMA BeforeFits ==
    ASSUME SteeringInv
    PROVE  /\ Fits(Before, inEditor)
           /\ Before.active = active /\ Before.triggers = triggers
           /\ Before.activated = {} /\ Before.deactivated = {}
           /\ \A f \in Files : Matching(f) \subseteq Names
<1>1. \A f \in Files : triggers[f] \subseteq Names
  BY DEF SteeringInv, SteeringTypeOK
<1>2. \A f \in Files : Matching(f) \subseteq Names
  BY DEF SteeringInv, SteeringTypeOK, Matching
<1>3. Before \in Working
  BY DEF Before, Working, SteeringInv, SteeringTypeOK
<1>4. \A f \in Files : /\ triggers[f] \subseteq Matching(f)
                       /\ triggers[f] # {} => f \in inEditor
  BY <1>1 DEF SteeringInv, Mirrored, HeldByOpenFiles
<1> QED
  BY <1>2, <1>3, <1>4 DEF Before, Fits, SteeringInv, Mirrored

LEMMA WithdrawFits ==
    ASSUME NEW m, NEW open, Fits(m, open), NEW f \in Files
    PROVE  Fits(Withdraw(m, f), open \ {f})
<1> DEFINE n == Withdraw(m, f)
<1>1. m \in Working
  BY DEF Fits
<1>2. /\ n \in Working
      /\ n.active = [w \in Names |-> IF w \in m.triggers[f] THEN m.active[w] \ {f} ELSE m.active[w]]
      /\ n.triggers = [g \in Files |-> IF g = f THEN {} ELSE m.triggers[g]]
  BY <1>1, WithdrawIs
<1> HIDE DEF n
<1>3. ASSUME NEW w \in Names, NEW g \in Files
      PROVE  g \in n.active[w] <=> w \in n.triggers[g]
  BY <1>2 DEF Fits
<1>4. ASSUME NEW g \in Files
      PROVE  n.triggers[g] \subseteq Matching(g) /\ (n.triggers[g] # {} => g \in open \ {f})
  BY <1>2 DEF Fits
<1> QED
  BY <1>2, <1>3, <1>4 DEF Fits, n

LEMMA OpenFits ==
    ASSUME NEW m, NEW open, Fits(m, open), NEW f \in Files, NEW failing \in SUBSET Names,
           Matching(f) \subseteq Names, failing \subseteq Matching(f)
    PROVE  Fits(Open(m, f, failing), open \cup {f})
<1> DEFINE n == Open(m, f, failing)
           confirmed == Matching(f) \ failing
<1>1. m \in Working
  BY DEF Fits
<1>2. /\ n \in Working
      /\ \A w \in Names : n.active[w] = IF w \in confirmed THEN m.active[w] \cup {f}
                                       ELSE IF w \in failing THEN {} ELSE m.active[w]
      /\ \A g \in Files : n.triggers[g] = IF g = f THEN confirmed ELSE m.triggers[g] \ failing
  BY <1>1, OpenIs
<1> HIDE DEF n
<1>3. ASSUME NEW w \in Names, NEW g \in Files
      PROVE  g \in n.active[w] <=> w \in n.triggers[g]
  <2>1. g \in m.active[w] <=> w \in m.triggers[g]
    BY DEF Fits
  <2>2. w \in m.triggers[f] => w \in Matching(f)
    BY DEF Fits
  <2>3. CASE g = f
    BY <1>2, <2>1, <2>2, <2>3
  <2>4. CASE g # f
    BY <1>2, <2>1, <2>4
  <2> QED
    BY <2>3, <2>4
<1>4. ASSUME NEW g \in Files
      PROVE  n.triggers[g] \subseteq Matching(g) /\ (n.triggers[g] # {} => g \in open \cup {f})
  BY <1>2 DEF Fits
<1> QED
  BY <1>2, <1>3, <1>4 DEF Fits, n

LEMMA FinishKeepsInv ==
    ASSUME SteeringInv, phase = "ready", NEW m, NEW open \in SUBSET Files, Fits(m, open),
           Finish(m), inEditor' = open
    PROVE  SteeringInv'
<1>1. /\ active' = m.active /\ triggers' = m.triggers /\ phase' = phase /\ workflows' = workflows
      /\ update' = [activated |-> m.activated, deactivated |-> m.deactivated,
                    active |-> {w \in Names : m.active[w] # {}}]
  BY DEF Finish
<1>2. m \in Working
  BY DEF Fits
<1>3. active' \in [Names -> SUBSET Files] /\ triggers' \in [Files -> SUBSET Names]
  BY <1>1, <1>2 DEF Working
<1>4. update'.activated \subseteq Names \X BOOLEAN /\ update'.deactivated \subseteq Names
      /\ update'.active \subseteq Names
  BY <1>1, <1>2 DEF Working
<1>5. SteeringTypeOK'
  BY <1>1, <1>3, <1>4 DEF SteeringInv, SteeringTypeOK
<1>6. Mirrored'
  BY <1>1 DEF Fits, Mirrored
<1>7. HeldByOpenFiles'
  <2> SUFFICES ASSUME NEW w \in Names, NEW f \in active'[w]
               PROVE  f \in inEditor' /\ w \in Matching(f)'
    BY DEF HeldByOpenFiles
  <2>1. f \in Files /\ w \in m.triggers[f]
    BY <1>1, <1>3 DEF Fits
  <2>2. w \in Matching(f) /\ f \in open
    BY <2>1 DEF Fits
  <2> QED
    BY <1>1, <2>2 DEF Matching
<1> QED
  BY <1>1, <1>5, <1>6, <1>7 DEF SteeringInv, NothingBeforeLoading

LEMMA SteeringInitInv == SteeringInit => SteeringInv
<1> SUFFICES ASSUME SteeringInit PROVE SteeringInv
  OBVIOUS
<1>1. DOMAIN workflows = {}
  BY DEF SteeringInit
<1> QED
  BY <1>1 DEF SteeringInit, SteeringInv, SteeringTypeOK, NothingBeforeLoading, Mirrored, HeldByOpenFiles

\* Reading the directory gives every workflow the files of one of its entries.
LEMMA LoadIs ==
    ASSUME SteeringInv, NEW directory \in Directories, Load(directory)
    PROVE  /\ phase = "loading" /\ UNCHANGED <<active, triggers, update, inEditor>>
           /\ \/ phase' = "failed" /\ workflows' = workflows
              \/ /\ phase' = "ready"
                 /\ \E S \in SUBSET Names : workflows' \in [S -> SUBSET Files]
<1> DEFINE guides == {i \in DOMAIN directory : directory[i].md}
           Name(i) == directory[i].name
           W == [w \in {Name(i) : i \in guides} |->
                    directory[CHOOSE i \in guides : Name(i) = w].files]
<1>1. directory \in Seq(Entries)
  BY SteeringAssumption
<1>2. \A i \in DOMAIN directory : Name(i) \in Names /\ directory[i].files \in SUBSET Files
  <2>1. \A i \in DOMAIN directory : directory[i] \in Entries
    BY <1>1
  <2> QED
    BY <2>1 DEF Entries
<1>3. \A w \in {Name(i) : i \in guides} : W[w] \in SUBSET Files
  <2> SUFFICES ASSUME NEW w \in {Name(i) : i \in guides}
               PROVE  W[w] \in SUBSET Files
    OBVIOUS
  <2>1. \E i \in guides : Name(i) = w
    OBVIOUS
  <2>2. (CHOOSE i \in guides : Name(i) = w) \in guides
    BY <2>1
  <2> QED
    BY <1>2, <2>2
<1>4. {Name(i) : i \in guides} \in SUBSET Names
  BY <1>2
<1>5. W \in [{Name(i) : i \in guides} -> SUBSET Files]
  BY <1>3
<1>6. /\ phase = "loading" /\ UNCHANGED <<active, triggers, update, inEditor>>
      /\ \/ phase' = "failed" /\ workflows' = workflows
         \/ phase' = "ready" /\ workflows' = W
  BY DEF Load
<1> HIDE DEF W
<1> QED
  BY <1>4, <1>5, <1>6

LEMMA SteeringStepInv == SteeringInv /\ [SteeringNext]_steeringVars => SteeringInv'
<1> SUFFICES ASSUME SteeringInv, [SteeringNext]_steeringVars
             PROVE  SteeringInv'
  OBVIOUS
<1>1. ASSUME NEW directory \in Directories, Load(directory)
      PROVE  SteeringInv'
  <2>1. /\ phase = "loading" /\ UNCHANGED <<active, triggers, update, inEditor>>
        /\ \/ phase' = "failed" /\ workflows' = workflows
           \/ /\ phase' = "ready"
              /\ \E S \in SUBSET Names : workflows' \in [S -> SUBSET Files]
    BY <1>1, LoadIs
  <2>2. \A w \in Names : active[w] = {}
    BY <2>1 DEF SteeringInv, NothingBeforeLoading, Mirrored, SteeringTypeOK
  <2>3. HeldByOpenFiles' /\ Mirrored'
    BY <2>1, <2>2 DEF HeldByOpenFiles, SteeringInv, Mirrored
  <2>4. SteeringTypeOK'
    <3>1. DOMAIN workflows' \subseteq Names /\ \A w \in DOMAIN workflows' : workflows'[w] \subseteq Files
      BY <2>1 DEF SteeringInv, SteeringTypeOK
    <3> QED
      BY <2>1, <3>1 DEF SteeringInv, SteeringTypeOK
  <2> QED
    BY <2>1, <2>3, <2>4 DEF SteeringInv, NothingBeforeLoading
<1>2. ASSUME NEW f \in Files, NEW failing \in SUBSET Names, OpenOrEdit(f, failing)
      PROVE  SteeringInv'
  <2>1. /\ phase = "ready" /\ failing \subseteq Matching(f)
        /\ Finish(Open(Before, f, failing)) /\ inEditor' = inEditor \cup {f}
    BY <1>2 DEF OpenOrEdit
  <2>2. Fits(Open(Before, f, failing), inEditor \cup {f})
    BY <2>1, BeforeFits, OpenFits
  <2>3. inEditor \cup {f} \in SUBSET Files
    BY DEF SteeringInv, SteeringTypeOK
  <2> QED
    BY <2>1, <2>2, <2>3, FinishKeepsInv
<1>3. ASSUME NEW old \in Files, NEW new \in Files, NEW failing \in SUBSET Names,
             Rename(old, new, failing)
      PROVE  SteeringInv'
  <2>1. /\ phase = "ready" /\ failing \subseteq Matching(new)
        /\ Finish(Open(Withdraw(Before, old), new, failing))
        /\ inEditor' = (inEditor \ {old}) \cup {new}
    BY <1>3 DEF Rename
  <2>2. Fits(Withdraw(Before, old), inEditor \ {old})
    BY BeforeFits, WithdrawFits
  <2>3. Fits(Open(Withdraw(Before, old), new, failing), (inEditor \ {old}) \cup {new})
    BY <2>1, <2>2, BeforeFits, OpenFits
  <2>4. (inEditor \ {old}) \cup {new} \in SUBSET Files
    BY DEF SteeringInv, SteeringTypeOK
  <2> QED
    BY <2>1, <2>3, <2>4, FinishKeepsInv
<1>4. ASSUME NEW f \in Files, Close(f)
      PROVE  SteeringInv'
  <2>1. phase = "ready" /\ Finish(Withdraw(Before, f)) /\ inEditor' = inEditor \ {f}
    BY <1>4 DEF Close
  <2>2. Fits(Withdraw(Before, f), inEditor \ {f})
    BY BeforeFits, WithdrawFits
  <2>3. inEditor \ {f} \in SUBSET Files
    BY DEF SteeringInv, SteeringTypeOK
  <2> QED
    BY <2>1, <2>2, <2>3, FinishKeepsInv
<1>5. CASE UNCHANGED steeringVars
  BY <1>5 DEF steeringVars, SteeringInv, SteeringTypeOK, NothingBeforeLoading, Mirrored, HeldByOpenFiles, Matching
<1> QED
  BY <1>1, <1>2, <1>3, <1>4, <1>5 DEF SteeringNext, Failed

-----------------------------------------------------------------------------
(* What an event reports.                                                   *)

\* The workflows some file holds active.
Alive(m) == {w \in Names : m.active[w] # {}}

\* The lists of an update say what became of the workflows that were active.
Tells(m, was) ==
    /\ \A w \in Names : w \in Alive(m) <=>
          (w \in was /\ w \notin m.deactivated) \/ \E p \in m.activated : p[1] = w
    /\ \A p \in m.activated : p[2] <=> p[1] \notin was \ m.deactivated

LEMMA WithdrawTells ==
    ASSUME NEW m \in Working, m.activated = {}, m.deactivated = {}, NEW f \in Files
    PROVE  Tells(Withdraw(m, f), Alive(m)) /\ Withdraw(m, f).activated = {}
<1> DEFINE n == Withdraw(m, f)
<1>1. /\ n \in Working
      /\ n.active = [w \in Names |-> IF w \in m.triggers[f] THEN m.active[w] \ {f} ELSE m.active[w]]
      /\ n.activated = m.activated
      /\ n.deactivated = m.deactivated \cup {w \in m.triggers[f] : m.active[w] = {f}}
  BY WithdrawIs
<1> HIDE DEF n
<1>2. ASSUME NEW w \in Names
      PROVE  w \in Alive(n) <=> w \in Alive(m) /\ w \notin n.deactivated
  <2>1. n.active[w] = IF w \in m.triggers[f] THEN m.active[w] \ {f} ELSE m.active[w]
    BY <1>1
  <2>2. m.active[w] \ {f} = {} <=> m.active[w] = {} \/ m.active[w] = {f}
    OBVIOUS
  <2> QED
    BY <1>1, <2>1, <2>2 DEF Alive
<1>3. Tells(n, Alive(m))
  BY <1>1, <1>2 DEF Tells
<1> QED
  BY <1>1, <1>3 DEF n

LEMMA OpenTells ==
    ASSUME NEW m \in Working, NEW was, Tells(m, was), m.activated = {},
           NEW f \in Files, NEW failing \in SUBSET Names, Matching(f) \subseteq Names
    PROVE  Tells(Open(m, f, failing), was)
<1> DEFINE n == Open(m, f, failing)
           confirmed == Matching(f) \ failing
<1>1. /\ n \in Working
      /\ \A w \in Names : n.active[w] = IF w \in confirmed THEN m.active[w] \cup {f}
                                       ELSE IF w \in failing THEN {} ELSE m.active[w]
      /\ n.activated = Presented(m, f, failing)
      /\ n.deactivated = m.deactivated \cup failing
  BY OpenIs
<1> HIDE DEF n
<1>2. \A w \in Names : w \in Alive(m) <=> w \in was /\ w \notin m.deactivated
  BY DEF Tells
<1>3. ASSUME NEW w
      PROVE  (\E p \in Presented(m, f, failing) : p[1] = w) <=> w \in confirmed
  <2>1. ASSUME w \in confirmed PROVE \E p \in Presented(m, f, failing) : p[1] = w
    <3>1. <<w, m.active[w] = {}>> \in Presented(m, f, failing)
      BY <2>1 DEF Presented
    <3>2. <<w, m.active[w] = {}>>[1] = w
      OBVIOUS
    <3> QED
      BY <3>1, <3>2
  <2>2. ASSUME NEW p \in Presented(m, f, failing), p[1] = w PROVE w \in confirmed
    BY <2>2 DEF Presented
  <2> QED
    BY <2>1, <2>2
<1>4. ASSUME NEW w \in Names
      PROVE  w \in Alive(n) <=>
                (w \in was /\ w \notin n.deactivated) \/ \E p \in n.activated : p[1] = w
  <2>1. w \in Alive(n) <=> w \in confirmed \/ (w \notin failing /\ w \in Alive(m))
    BY <1>1 DEF Alive
  <2>2. (\E p \in n.activated : p[1] = w) <=> w \in confirmed
    BY <1>1, <1>3
  <2> QED
    BY <1>1, <1>2, <2>1, <2>2
<1>5. ASSUME NEW p \in n.activated
      PROVE  p[2] <=> p[1] \notin was \ n.deactivated
  <2>1. PICK w \in confirmed : p = <<w, m.active[w] = {}>>
    BY <1>1 DEF Presented
  <2>2. w \in Names /\ w \notin failing
    OBVIOUS
  <2>3. p[1] = w /\ (p[2] <=> m.active[w] = {})
    BY <2>1
  <2>4. m.active[w] = {} <=> w \notin Alive(m)
    BY <2>2 DEF Alive
  <2> QED
    BY <1>1, <1>2, <2>2, <2>3, <2>4
<1> QED
  BY <1>4, <1>5 DEF Tells, n

\* An update that tells is enough to follow the engine.
Follows ==
    LET Was == {w \in Names : active[w] # {}}
        Is == {w \in Names : active'[w] # {}}
        Begun == {p[1] : p \in update'.activated}
    IN  phase = "ready" =>
          /\ Is = (Was \ update'.deactivated) \cup Begun
          /\ \A p \in update'.activated :
                p[2] <=> p[1] \notin Was \ update'.deactivated

LEMMA FinishTells ==
    ASSUME NEW m \in Working, Finish(m), Tells(m, {w \in Names : active[w] # {}})
    PROVE  Follows
<1> DEFINE Was == {w \in Names : active[w] # {}}
           Is == {w \in Names : active'[w] # {}}
           Begun == {p[1] : p \in update'.activated}
<1>1. active' = m.active /\ update'.activated = m.activated /\ update'.deactivated = m.deactivated
  BY DEF Finish
<1>2. Is = Alive(m)
  BY <1>1 DEF Alive
<1>3. Begun \subseteq Names
  <2>1. m.activated \subseteq Names \X BOOLEAN
    BY DEF Working
  <2> QED
    BY <1>1, <2>1
<1>4. ASSUME NEW w \in Names
      PROVE  w \in Is <=> w \in (Was \ update'.deactivated) \cup Begun
  BY <1>1, <1>2 DEF Tells
<1>5. Is = (Was \ update'.deactivated) \cup Begun
  BY <1>3, <1>4
<1>6. \A p \in update'.activated : p[2] <=> p[1] \notin Was \ update'.deactivated
  BY <1>1 DEF Tells
<1> QED
  BY <1>5, <1>6 DEF Follows

LEMMA StepTells == SteeringInv /\ [SteeringNext]_steeringVars => Follows \/ UNCHANGED steeringVars
<1> SUFFICES ASSUME SteeringInv, SteeringNext
             PROVE  Follows \/ UNCHANGED steeringVars
  OBVIOUS
<1> DEFINE Was == {w \in Names : active[w] # {}}
<1>0. Before \in Working /\ Alive(Before) = Was /\ Before.activated = {} /\ Before.deactivated = {}
      /\ \A f \in Files : Matching(f) \subseteq Names
  BY BeforeFits DEF Fits, Alive
<1>1. Tells(Before, Was)
  BY <1>0 DEF Tells
<1>2. ASSUME NEW f \in Files
      PROVE  /\ Withdraw(Before, f) \in Working
             /\ Tells(Withdraw(Before, f), Was)
             /\ Withdraw(Before, f).activated = {}
  <2>1. Withdraw(Before, f) \in Working
    BY <1>0, WithdrawIs
  <2>2. Tells(Withdraw(Before, f), Alive(Before)) /\ Withdraw(Before, f).activated = {}
    BY <1>0, WithdrawTells
  <2> QED
    BY <1>0, <2>1, <2>2
<1>3. ASSUME NEW directory \in Directories, Load(directory)
      PROVE  Follows
  BY <1>3 DEF Load, Follows
<1>4. ASSUME NEW f \in Files, NEW failing \in SUBSET Names, OpenOrEdit(f, failing)
      PROVE  Follows
  <2>1. Finish(Open(Before, f, failing))
    BY <1>4 DEF OpenOrEdit
  <2>2. Open(Before, f, failing) \in Working /\ Tells(Open(Before, f, failing), Was)
    BY <1>0, <1>1, OpenIs, OpenTells
  <2> QED
    BY <2>1, <2>2, FinishTells
<1>5. ASSUME NEW old \in Files, NEW new \in Files, NEW failing \in SUBSET Names,
             Rename(old, new, failing)
      PROVE  Follows
  <2>1. Finish(Open(Withdraw(Before, old), new, failing))
    BY <1>5 DEF Rename
  <2>2. /\ Open(Withdraw(Before, old), new, failing) \in Working
        /\ Tells(Open(Withdraw(Before, old), new, failing), Was)
    BY <1>0, <1>2, OpenIs, OpenTells
  <2> QED
    BY <2>1, <2>2, FinishTells
<1>6. ASSUME NEW f \in Files, Close(f)
      PROVE  Follows
  BY <1>2, <1>6, FinishTells DEF Close
<1> QED
  BY <1>3, <1>4, <1>5, <1>6 DEF SteeringNext, Failed

-----------------------------------------------------------------------------

\* Types.
THEOREM SteeringTypes == SteeringSpec => []SteeringTypeOK
<1>1. SteeringInv => SteeringTypeOK
  BY DEF SteeringInv
<1> QED
  BY <1>1, SteeringInitInv, SteeringStepInv, PTL DEF SteeringSpec

\* The two maps of the engine say the same, whatever fails to be presented.
THEOREM MapsMirror == SteeringSpec => []Mirrored
<1>1. SteeringInv => Mirrored
  BY DEF SteeringInv
<1> QED
  BY <1>1, SteeringInitInv, SteeringStepInv, PTL DEF SteeringSpec

\* Only files in the editor hold workflows, and only those they match.
THEOREM HeldByOpen == SteeringSpec => []HeldByOpenFiles
<1>1. SteeringInv => HeldByOpenFiles
  BY DEF SteeringInv
<1> QED
  BY <1>1, SteeringInitInv, SteeringStepInv, PTL DEF SteeringSpec

\* The reports are enough to know which workflows are active.
THEOREM ReportsAreEnough == SteeringSpec => ReportsSuffice
<1>1. SteeringInv /\ [SteeringNext]_steeringVars => [Follows]_steeringVars
  BY StepTells
<1> QED
  BY <1>1, SteeringInitInv, SteeringStepInv, PTL DEF SteeringSpec, ReportsSuffice, Follows

\* The relation in force, seen through the map by file.
Held == {p \in Files \X Names : p[2] \in triggers[p[1]]}

LEMMA SamePairs ==
    ASSUME NEW P \in SUBSET (Files \X Names), NEW Q \in SUBSET (Files \X Names),
           \A g \in Files, w \in Names : <<g, w>> \in P <=> <<g, w>> \in Q
    PROVE  P = Q
<1>1. ASSUME NEW p \in Files \X Names PROVE p \in P <=> p \in Q
  <2>1. PICK g \in Files, w \in Names : p = <<g, w>>
    OBVIOUS
  <2> QED
    BY <2>1
<1> QED
  BY <1>1

LEMMA HeldIs ==
    ASSUME NEW g \in Files, NEW w \in Names
    PROVE  /\ <<g, w>> \in Held <=> w \in triggers[g]
           /\ <<g, w>> \in Held' <=> w \in triggers'[g]
BY DEF Held

\* The engine implements TriggerRelation: every event is a step of the relation,
\* and loading is one or none.
THEOREM SteeringRefinesTriggers == SteeringSpec => ImplementsTriggers
<1>1. SteeringInit => Relation!Init
  BY DEF SteeringInit, Relation!Init
<1>2. SteeringInv /\ [SteeringNext]_steeringVars => [Relation!Next]_<<workflows, Held>>
  <2> SUFFICES ASSUME SteeringInv, SteeringNext
               PROVE  [Relation!Next]_<<workflows, Held>>
    BY DEF steeringVars, Held
  <2>0. /\ Held \in SUBSET (Files \X Names) /\ Held' \in SUBSET (Files \X Names)
        /\ \A f \in Files : Matching(f) \subseteq Names /\ Matching(f) = Relation!For(f)
        /\ \A f \in Files : triggers[f] \subseteq Names
    BY BeforeFits DEF Held, Matching, Relation!For, SteeringInv, SteeringTypeOK
  <2>6. Before \in Working /\ Before.triggers = triggers
    BY BeforeFits DEF Fits
  <2>7. ASSUME NEW f \in Files
        PROVE  /\ Withdraw(Before, f) \in Working
               /\ \A g \in Files : Withdraw(Before, f).triggers[g] =
                                     IF g = f THEN {} ELSE triggers[g]
    <3>1. /\ Withdraw(Before, f) \in Working
          /\ Withdraw(Before, f).triggers =
                [g \in Files |-> IF g = f THEN {} ELSE Before.triggers[g]]
      BY <2>6, WithdrawIs
    <3> QED
      BY <2>6, <3>1
  <2>1. ASSUME NEW directory \in Directories, Load(directory)
        PROVE  [Relation!Next]_<<workflows, Held>>
    <3>1. /\ phase = "loading" /\ UNCHANGED triggers
          /\ \/ workflows' = workflows
             \/ \E S \in SUBSET Names : workflows' \in [S -> SUBSET Files]
      BY <2>1, LoadIs
    <3>2. workflows = <<>> /\ \A f \in Files : triggers[f] = {}
      BY <3>1 DEF SteeringInv, NothingBeforeLoading
    <3>3. Held = {} /\ Held' = {}
      BY <3>1, <3>2 DEF Held
    <3> QED
      BY <3>1, <3>2, <3>3 DEF Relation!Next, Relation!Load, Held
  <2>2. ASSUME NEW f \in Files, NEW failing \in SUBSET Names, OpenOrEdit(f, failing)
        PROVE  Relation!Next
    <3> DEFINE m == Open(Before, f, failing)
               R == Relation!Without(f, failing) \cup ({f} \X (Relation!For(f) \ failing))
    <3>1. /\ failing \subseteq Matching(f) /\ workflows' = workflows /\ triggers' = m.triggers
      BY <2>2 DEF OpenOrEdit, Finish
    <3>2. \A g \in Files : m.triggers[g] = IF g = f THEN Matching(f) \ failing
                                           ELSE triggers[g] \ failing
      <4>1. \A g \in Files : m.triggers[g] = IF g = f THEN Matching(f) \ failing
                                             ELSE Before.triggers[g] \ failing
        BY <2>0, <2>6, OpenIs
      <4> QED
        BY <2>6, <4>1
    <3>3. R \in SUBSET (Files \X Names)
      BY <2>0 DEF Relation!Without, Held
    <3>4. ASSUME NEW g \in Files, NEW w \in Names
          PROVE  <<g, w>> \in Held' <=> <<g, w>> \in R
      <4>1. <<g, w>> \in Relation!Without(f, failing) <=> w \in triggers[g] /\ g # f /\ w \notin failing
        BY DEF Relation!Without, Held
      <4>2. <<g, w>> \in {f} \X (Relation!For(f) \ failing) <=> g = f /\ w \in Matching(f) \ failing
        BY <2>0
      <4> QED
        BY <3>1, <3>2, <4>1, <4>2, HeldIs
    <3>5. Held' = R
      BY <2>0, <3>3, <3>4, SamePairs
    <3> QED
      BY <2>0, <3>1, <3>5 DEF Relation!Next, Relation!Touch, Held
  <2>3. ASSUME NEW old \in Files, NEW new \in Files, NEW failing \in SUBSET Names,
               Rename(old, new, failing)
        PROVE  Relation!Next
    <3> DEFINE n == Withdraw(Before, old)
               m == Open(n, new, failing)
               R == {p \in Relation!Without(new, failing) : p[1] # old}
                       \cup ({new} \X (Relation!For(new) \ failing))
    <3>1. failing \subseteq Matching(new) /\ workflows' = workflows /\ triggers' = m.triggers
      BY <2>3 DEF Rename, Finish
    <3>2. n \in Working /\ \A g \in Files : n.triggers[g] = IF g = old THEN {} ELSE triggers[g]
      BY <2>7
    <3>3. \A g \in Files : m.triggers[g] = IF g = new THEN Matching(new) \ failing
                                           ELSE n.triggers[g] \ failing
      BY <2>0, <3>2, OpenIs
    <3>4. R \in SUBSET (Files \X Names)
      BY <2>0 DEF Relation!Without, Held
    <3>5. ASSUME NEW g \in Files, NEW w \in Names
          PROVE  <<g, w>> \in Held' <=> <<g, w>> \in R
      <4>1. <<g, w>> \in {p \in Relation!Without(new, failing) : p[1] # old}
               <=> w \in triggers[g] /\ g # new /\ g # old /\ w \notin failing
        BY DEF Relation!Without, Held
      <4>2. <<g, w>> \in {new} \X (Relation!For(new) \ failing)
               <=> g = new /\ w \in Matching(new) \ failing
        BY <2>0
      <4> QED
        BY <3>1, <3>2, <3>3, <4>1, <4>2, HeldIs
    <3>6. Held' = R
      BY <2>0, <3>4, <3>5, SamePairs
    <3> QED
      <4>1. Relation!Move(old, new, failing)
        BY <2>0, <3>1, <3>6 DEF Relation!Move, Held
      <4> QED
        BY <4>1 DEF Relation!Next
  <2>4. ASSUME NEW f \in Files, Close(f)
        PROVE  Relation!Next
    <3> DEFINE n == Withdraw(Before, f)
    <3>1. workflows' = workflows /\ triggers' = n.triggers
      BY <2>4 DEF Close, Finish
    <3>2. \A g \in Files : n.triggers[g] = IF g = f THEN {} ELSE triggers[g]
      BY <2>7
    <3>3. ASSUME NEW g \in Files, NEW w \in Names
          PROVE  <<g, w>> \in Held' <=> <<g, w>> \in Relation!Without(f, {})
      BY <3>1, <3>2, HeldIs DEF Relation!Without, Held
    <3>4. Held' = Relation!Without(f, {})
      BY <2>0, <3>3, SamePairs DEF Relation!Without, Held
    <3> QED
      BY <3>1, <3>4 DEF Relation!Next, Relation!Leave, Held
  <2>5. CASE UNCHANGED steeringVars
    BY <2>5 DEF steeringVars, Held
  <2> QED
    BY <2>1, <2>2, <2>3, <2>4, <2>5 DEF SteeringNext, Failed
<1> QED
  BY <1>1, <1>2, SteeringInitInv, SteeringStepInv, PTL DEF SteeringSpec, ImplementsTriggers, Relation!Spec, Held

=============================================================================
