SPECIFICATION Spec
CONSTANTS
    checked = checked
    open = open
    r1 = r1
    r2 = r2
    good = good
    bad = bad
    Sources = {checked, open}
    Required = {checked}
    Checked = {checked}
    Plain = {checked}
    Unreadable = {open}
    Secrets = {good, bad}
    Accepted = {good}
    Callers = {r1, r2}
    MaxChanges = 2
INVARIANTS
    PresenceAgreesWithStatus
    ReportsTellAbsence
PROPERTIES
    VerdictsRestOnAnAnswer
    ReportsEnd
