------------------------- MODULE InstallationManager ------------------------
(***************************************************************************)
(* The Power Hub Installation Manager (kiro_geospatial/installation.py)    *)
(* and the `uv tool` commands it runs one at a time (external): installing *)
(* a set of servers atomically with rollback, removing one, and the death  *)
(* of the Hub between two commands.  What is installed belongs to uv and   *)
(* survives the Hub; an operation in progress does not.                    *)
(*                                                                         *)
(* A `uv tool list` that fails raises like a failed install does, so the   *)
(* manager can lose sight of a package uv has just installed.              *)
(***************************************************************************)
EXTENDS Naturals, Sequences

CONSTANTS
    Servers,      \* the servers of the manifest
    Unknown,      \* names that are not in it
    Requests,     \* the lists of names a caller asks to be installed
    GeoCommon,    \* the shared base package
    MaxOps,       \* bound: operations
    MaxCrashes    \* bound: deaths of the Hub

Packages == Servers \cup {GeoCommon}

\* GeoCommon is in the manifest too, but no server depends on itself.
ASSUME InstallAssumption ==
    /\ GeoCommon \notin Servers \cup Unknown
    /\ Servers \cap Unknown = {}
    /\ Requests \subseteq Seq(Packages \cup Unknown)
    /\ MaxOps \in Nat /\ MaxCrashes \in Nat

VARIABLES
    installed,  \* the packages uv has installed
    stage,      \* which command of which operation comes next
    list,       \* _install_atomic: geo-common and the requested names
    todo,       \* the positions of list the loop has still to see to
    newly,      \* newly_installed
    rolled,     \* rolled_back
    failed,     \* failed_module, or NoModule
    reply,      \* what the latest operation returned or raised
    ops,        \* operations so far
    crashes,    \* crashes so far
    before,     \* history: what was installed when the operation began
    asked,      \* history: the packages it is about
    unseen,     \* history: packages installed although the command raised
    stuck       \* history: packages whose uninstall was tried in vain

vars == <<installed, stage, list, todo, newly, rolled, failed, reply, ops, crashes,
          before, asked, unseen, stuck>>
told == <<ops, crashes, before, asked>>

NoModule == "no module"
Elements(q) == {q[i] : i \in DOMAIN q}

\* Mistakes; each makes one of the properties below fail.
NeverInstalled(p) == FALSE
NotRecorded(p) == newly
EverythingLeftToRoll == newly

\* ordered: geo-common, then the requested names, each at its first place.
Listed(q) == <<GeoCommon>> \o q
FirstPlaces(q) == {i \in DOMAIN q : \A j \in 1..i - 1 : q[j] # q[i]}
IsNext(i) == i \in todo /\ \A j \in todo : i <= j

\* is_installed, when `uv tool list` works.
IsInstalled(p) == p \in installed

\* newly_installed after p was installed by this operation.
Recorded(p) == Append(newly, p)

\* The rollback goes through newly_installed from its end.
NextToRoll == newly[Len(newly)]
LeftToRoll == SubSeq(newly, 1, Len(newly) - 1)

\* The positions left when the loop is done with position i.
After(i) == todo \ {i}

-----------------------------------------------------------------------------

\* Installed at first: any set uv may have been left with in which no server
\* lacks the shared base.
Init ==
    /\ installed \in {I \in SUBSET Packages : I \cap Servers # {} => GeoCommon \in I}
    /\ stage = "idle"
    /\ list = <<>> /\ todo = {} /\ newly = <<>> /\ rolled = {}
    /\ failed = NoModule
    /\ reply = "none"
    /\ ops = 0 /\ crashes = 0
    /\ before = installed
    /\ asked = {}
    /\ unseen = {} /\ stuck = {}

Begin(names) ==
    /\ stage = "idle" /\ ops < MaxOps
    /\ ops' = ops + 1
    /\ before' = installed
    /\ asked' = names
    /\ newly' = <<>> /\ rolled' = {}
    /\ failed' = NoModule

\* install_server, install_set, install_mvp_set: unknown names reject it all.
Install(request) ==
    /\ Begin(Elements(request) \cup {GeoCommon})
    /\ \/ /\ Elements(request) \cap Unknown # {}
          /\ reply' = "validation"
          /\ UNCHANGED <<stage, list, todo>>
       \/ /\ Elements(request) \cap Unknown = {}
          /\ reply' = "none"
          /\ stage' = "check"
          /\ list' = Listed(request)
          /\ todo' = FirstPlaces(Listed(request))
    /\ UNCHANGED <<installed, crashes, unseen, stuck>>

\* A command of the loop raised UvxCommandError.
Fail(module) ==
    /\ stage' = "rollback"
    /\ failed' = module
    /\ UNCHANGED <<todo, newly>>

\* The loop: is_installed(package), by `uv tool list`.
Check ==
    /\ stage = "check"
    /\ \E i \in todo :
          /\ IsNext(i)
          /\ \/ /\ IsInstalled(list[i])
                /\ todo' = After(i)
                /\ UNCHANGED <<stage, newly, failed>>
             \/ /\ ~IsInstalled(list[i])
                /\ stage' = "install"
                /\ UNCHANGED <<todo, newly, failed>>
             \/ Fail(NoModule)
    /\ UNCHANGED <<installed, list, rolled, reply, told, unseen, stuck>>

\* runner.install(package): `uv tool install`, and `uv tool list` for its
\* version.  A command that ran into its timeout may have installed it.
RunInstall ==
    /\ stage = "install"
    /\ \E i \in todo :
          /\ IsNext(i)
          /\ \/ /\ installed' = installed \cup {list[i]}
                /\ newly' = Recorded(list[i])
                /\ todo' = After(i)
                /\ stage' = "check"
                /\ UNCHANGED <<failed, unseen>>
             \/ /\ Fail(list[i])
                /\ UNCHANGED <<installed, unseen>>
             \/ /\ \E module \in {list[i], NoModule} : Fail(module)
                /\ installed' = installed \cup {list[i]}
                /\ unseen' = unseen \cup {list[i]}
    /\ UNCHANGED <<list, rolled, reply, told, stuck>>

\* Every package is seen to: the report, from more lists; if one of them fails
\* its UvxCommandError is not caught.
FinishInstall ==
    /\ stage = "check" /\ todo = {}
    /\ stage' = "idle"
    /\ reply' \in {"report", "uvx error"}
    /\ UNCHANGED <<installed, list, todo, newly, rolled, failed, told, unseen, stuck>>

\* _rollback, one package: its uninstall may fail, or time out having worked.
RollBack ==
    /\ stage = "rollback" /\ newly # <<>>
    /\ newly' = LeftToRoll
    /\ \/ /\ installed' = installed \ {NextToRoll}
          /\ rolled' = rolled \cup {NextToRoll}
          /\ UNCHANGED stuck
       \/ /\ installed' = installed \ {NextToRoll}
          /\ UNCHANGED <<rolled, stuck>>
       \/ /\ stuck' = stuck \cup {NextToRoll}
          /\ UNCHANGED <<installed, rolled>>
    /\ UNCHANGED <<stage, list, todo, failed, reply, told, unseen>>

\* UpstreamError: "rolled back, nothing was left partially installed".
FinishRollBack ==
    /\ stage = "rollback" /\ newly = <<>>
    /\ stage' = "idle"
    /\ reply' = "upstream"
    /\ UNCHANGED <<installed, list, todo, newly, rolled, failed, told, unseen, stuck>>

\* remove_server up to the uninstall; the failure of a command is not caught.
Remove(name) ==
    /\ Begin({name})
    /\ \/ name \in Unknown \cup {GeoCommon} /\ reply' = "validation" /\ UNCHANGED stage
       \/ name \in Servers /\ reply' = "uvx error" /\ UNCHANGED stage
       \/ name \in Servers \ installed /\ reply' = "not-found" /\ UNCHANGED stage
       \/ name \in Servers \cap installed /\ reply' = "none" /\ stage' = "remove"
    /\ UNCHANGED <<installed, list, todo, crashes, unseen, stuck>>

RunRemove ==
    /\ stage = "remove"
    /\ stage' = "idle"
    /\ \/ reply' = "removed" /\ installed' = installed \ asked
       \/ reply' = "uvx error" /\ installed' \in {installed, installed \ asked}
    /\ UNCHANGED <<list, todo, newly, rolled, failed, told, unseen, stuck>>

\* The Hub dies between two commands.
Crash ==
    /\ stage # "idle" /\ crashes < MaxCrashes
    /\ crashes' = crashes + 1
    /\ stage' = "idle"
    /\ list' = <<>> /\ todo' = {} /\ newly' = <<>> /\ rolled' = {}
    /\ failed' = NoModule
    /\ reply' = "none"
    /\ UNCHANGED <<installed, ops, before, asked, unseen, stuck>>

Done == stage = "idle" /\ ops = MaxOps /\ UNCHANGED vars

Next ==
    \/ \E request \in Requests : Install(request)
    \/ \E name \in Packages \cup Unknown : Remove(name)
    \/ Check \/ RunInstall \/ FinishInstall
    \/ RollBack \/ FinishRollBack
    \/ RunRemove
    \/ Crash
    \/ Done

Step == Check \/ RunInstall \/ FinishInstall \/ RollBack \/ FinishRollBack \/ RunRemove

\* Every command ends by its timeout of 300 s and the manager runs the next.
Spec == Init /\ [][Next]_vars /\ WF_vars(Step)

-----------------------------------------------------------------------------

\* Types of the operation in progress and of the history.
TypeOK ==
    /\ installed \subseteq Packages
    /\ stage \in {"idle", "check", "install", "rollback", "remove"}
    /\ list \in Seq(Packages) /\ todo \subseteq DOMAIN list
    /\ newly \in Seq(Packages)
    /\ rolled \subseteq Packages
    /\ failed \in Packages \cup {NoModule}
    /\ reply \in {"none", "report", "removed", "validation", "not-found", "upstream", "uvx error"}
    /\ ops \in 0..MaxOps /\ crashes \in 0..MaxCrashes
    /\ before \subseteq Packages
    /\ asked \subseteq Packages \cup Unknown
    /\ unseen \subseteq Packages /\ stuck \subseteq Packages

\* An operation touches nothing that was there before it, except the server it
\* was asked to remove, and adds nothing but geo-common and what it was asked
\* for, not even while it rolls back.
OthersUntouched ==
    /\ before \ asked \subseteq installed
    /\ installed \ asked \subseteq before
    /\ stage \in {"check", "install", "rollback"} => before \subseteq installed

\* No server is ever installed without the shared base, not even between two
\* commands or after a crash, unless a rollback could not uninstall a server or
\* never knew it was installed.
BaseKept ==
    GeoCommon \notin installed => installed \cap Servers \subseteq unseen \cup stuck

\* An install is all or nothing: a report is only made when everything asked for
\* is installed, the shared base included, and a failed one leaves what was there
\* before it, but for packages uv installed while the command raised and packages
\* it would not uninstall; what it says was rolled back is gone; and no server is
\* left without the base.
AllOrNothing ==
    /\ reply = "report" => asked \subseteq installed
    /\ reply = "upstream" =>
        /\ before \subseteq installed
        /\ installed \ before \subseteq unseen \cup stuck
        /\ rolled \cap installed = {}
    /\ BaseKept

\* Every operation ends, whichever commands fail.
OperationsEnd == stage # "idle" ~> stage = "idle"

=============================================================================
